---------------------------- MODULE Learnings_proofs ----------------------------
(* Theorems about Learnings, checked by TLAPS: what a digest offers, that it *)
(* leaves out nothing which ranks high enough, and that no command touches a *)
(* record of another.                                                        *)
EXTENDS Learnings, FiniteSetTheorems, WellFoundedInduction, TLAPS

-----------------------------------------------------------------------------
(* The inductive invariant.                                                  *)

Records == [title : Files \cup {0}, by : Learners \cup {"none"}, day : Nat,
            words : SUBSET Words, whole : BOOLEAN, lines : BOOLEAN]

Types ==
  /\ lnDay \in Nat /\ lnWritten \subseteq Records
  /\ lnStore \in [Files -> Records]
  /\ lnLearner \in [Learners -> [pc : {"idle", "read", "create", "ended"}, record : Records]]
  /\ lnDigest \in [pc : {"none", "scan", "made"}, now : Nat, left : SUBSET Files,
                   scored : SUBSET [at : Files, record : Records],
                   items : SUBSET [at : Files, record : Records]]

\* A record whose hash is right is one that a command wrote.
StoreGenuine == \A p \in Files : lnStore[p].whole => lnStore[p] \in lnWritten

\* So are those that a digest has found, and those that it offers.
Offered(x) ==
  /\ x.record \in lnWritten
  /\ lnDigest.now <= x.record.day + MaxAge
  /\ Matched(x.record) # {}
DigestGenuine == \A x \in lnDigest.scored \cup lnDigest.items : Offered(x)

Inv == Types /\ StoreGenuine /\ DigestGenuine

\* Nothing is there at the beginning.
LEMMA InitInv == LNInit => Inv
BY DEF LNInit, Inv, Types, Records, StoreGenuine, DigestGenuine, NoRecord, NoDigest, Idle

\* The empty record has the shape of one.
LEMMA EmptyIsRecord == NoRecord \in Records /\ Idle.record \in Records /\ Learned.record \in Records
BY DEF NoRecord, Records, Idle, Learned

\* What a command writes is a record, and counts as written.
LEMMA EndLearnInv ==
  ASSUME Inv, NEW w \in Learners, EndLearn(w)
  PROVE  Inv'
<1> USE DEF Inv
<1>1. lnStore' \in [Files -> Records] /\ lnWritten' \subseteq Records /\ lnWritten \subseteq lnWritten'
  BY DEF EndLearn, CreateRecord, Types
<1>2. Types'
  BY <1>1, EmptyIsRecord DEF EndLearn, Types, Learned
<1>3. StoreGenuine'
  BY DEF EndLearn, CreateRecord, Types, StoreGenuine
<1>4. DigestGenuine'
  BY <1>1 DEF EndLearn, DigestGenuine, Offered
<1> QED
  BY <1>2, <1>3, <1>4

\* A digest takes only what it can trust.
LEMMA ScanFileInv ==
  ASSUME Inv, ScanFile
  PROVE  Inv'
<1> USE DEF Inv
<1> DEFINE p == Min(lnDigest.left)
           r == lnStore[p]
           found == IF Fits(p, r, lnDigest.now) THEN {[at |-> p, record |-> r]} ELSE {}
<1>1. lnDigest' = [lnDigest EXCEPT !.left = @ \ {p}, !.scored = @ \cup found]
  BY DEF ScanFile
<1>2. \A x \in found : x \in [at : Files, record : Records] /\ Offered(x)
  <2> SUFFICES ASSUME Fits(p, r, lnDigest.now)
               PROVE  p \in Files /\ r \in Records /\ Offered([at |-> p, record |-> r])
    OBVIOUS
  <2>1. p \in Files /\ r \in Records /\ r \in lnWritten
    BY LearningsAssumption DEF Fits, Trusted, Types, StoreGenuine
  <2> QED
    BY <2>1, LearningsAssumption DEF Fits, Trusted, Types, Offered, Records
<1> HIDE DEF p, found
<1>3. Types'
  <2>1. lnDigest.left \ {p} \in SUBSET Files /\ lnDigest.scored \cup found \in SUBSET [at : Files, record : Records]
    BY <1>2 DEF Types
  <2> QED
    BY <1>1, <2>1 DEF ScanFile, Types
<1>4. DigestGenuine'
  <2>1. UNCHANGED lnWritten /\ lnDigest'.now = lnDigest.now /\ lnDigest'.items = lnDigest.items
    BY <1>1 DEF ScanFile, Types
  <2>2. lnDigest'.scored = lnDigest.scored \cup found
    BY <1>1 DEF Types
  <2>3. ASSUME NEW x, Offered(x) PROVE Offered(x)'
    BY <2>1, <2>3 DEF Offered, Matched
  <2> QED
    BY <1>2, <2>1, <2>2, <2>3, Zenon DEF DigestGenuine
<1>5. StoreGenuine'
  BY DEF ScanFile, StoreGenuine
<1> QED
  BY <1>3, <1>4, <1>5

\* What other tools do makes no record whose hash is right.
LEMMA OtherToolInv ==
  ASSUME Inv, OtherTool
  PROVE  Inv'
<1> USE DEF Inv
<1>1. PICK p \in Files : \E r \in Damaged(p) : lnStore' = [lnStore EXCEPT ![p] = r]
  BY DEF OtherTool
<1>2. PICK r \in Damaged(p) : lnStore' = [lnStore EXCEPT ![p] = r]
  BY <1>1
<1>3. r \in Records /\ (r.whole => r \in lnWritten)
  <2>1. CASE r = NoRecord
    BY <2>1, EmptyIsRecord DEF NoRecord
  <2>2. CASE \E q \in Files : r = lnStore[q]
    BY <2>2 DEF Types, StoreGenuine
  <2>3. CASE r = [lnStore[p] EXCEPT !.whole = FALSE, !.words = Words]
    <3>1. lnStore[p] \in Records
      BY DEF Types
    <3> QED
      BY <2>3, <3>1 DEF Records
  <2> QED
    BY <1>2, <2>1, <2>2, <2>3 DEF Damaged, Filled
<1> QED
  BY <1>2, <1>3 DEF OtherTool, Types, StoreGenuine, DigestGenuine, Offered

\* Every step keeps the invariant.
LEMMA NextInv == Inv /\ [LNNext]_lnVars => Inv'
<1> SUFFICES ASSUME Inv, [LNNext]_lnVars PROVE Inv'
  OBVIOUS
<1> USE DEF Inv
<1>1. ASSUME NEW w \in Learners, BeginLearn(w) PROVE Inv'
  <2>1. PICK p \in Laid, ws \in Topics, ls \in BOOLEAN :
          lnLearner' = [lnLearner EXCEPT ![w] = [pc |-> "read", record |-> Record(w, p, ws, ls)]]
    BY <1>1 DEF BeginLearn
  <2>2. Record(w, p, ws, ls) \in Records
    BY LearningsAssumption DEF Record, Records, Types
  <2> QED
    BY <1>1, <2>1, <2>2 DEF BeginLearn, Types, StoreGenuine, DigestGenuine, Offered
<1>2. ASSUME NEW w \in Learners, FindSlug(w) PROVE Inv'
  BY <1>2, EmptyIsRecord DEF FindSlug, Learned, Types, StoreGenuine, DigestGenuine, Offered
<1>3. ASSUME NEW w \in Learners, EndLearn(w) PROVE Inv'
  BY <1>3, EndLearnInv
<1>4. CASE BeginDigest
  BY <1>4 DEF BeginDigest, Candidates, Filled, NoDigest, Types, StoreGenuine, DigestGenuine
<1>5. CASE ScanFile
  BY <1>5, ScanFileInv
<1>6. CASE EndDigest
  <2>1. BestOf(lnDigest.scored) \subseteq lnDigest.scored
    BY DEF BestOf
  <2> QED
    BY <1>6, <2>1 DEF EndDigest, Types, StoreGenuine, DigestGenuine, Offered
<1>7. CASE DayPasses
  BY <1>7 DEF DayPasses, Types, StoreGenuine, DigestGenuine, Offered
<1>8. CASE OtherTool
  BY <1>8, OtherToolInv
<1>9. CASE UNCHANGED lnVars
  BY <1>9 DEF lnVars, Types, StoreGenuine, DigestGenuine, Offered
<1> QED
  BY <1>1, <1>2, <1>3, <1>4, <1>5, <1>6, <1>7, <1>8, <1>9 DEF LNNext

-----------------------------------------------------------------------------
(* The order of the items, and the best of them.                             *)

Items == [at : Files, record : Records]

\* The key of an item is made of numbers.
LEMMA KeyTyped ==
  ASSUME NEW x \in Items
  PROVE  \E a, b, c \in Int : Key(x) = <<a, b, c>>
<1>1. Matched(x.record) \in SUBSET Keywords
  BY DEF Matched
<1>2. Score(x.record) \in Nat /\ Cardinality(Keywords) \in Nat
  BY <1>1, FS_Subset, FS_CardinalityType, LearningsAssumption DEF Score
<1>3. x.at \in Files /\ x.record \in Records
  BY DEF Items
<1>4. x.record.title \in Files \cup {0}
  BY <1>3 DEF Records
<1>5. \A n \in Files \cup {0} : n \in Int
  BY LearningsAssumption
<1>6. x.record.title \in Int /\ x.at \in Int
  BY <1>3, <1>4, <1>5
<1> QED
  BY <1>2, <1>6 DEF Key

\* One item outranks another when its key comes first in the order of words.
LEMMA OutranksByKey ==
  ASSUME NEW x, NEW y
  PROVE  Outranks(x, y) <=>
           \/ Key(x)[1] < Key(y)[1]
           \/ Key(x)[1] = Key(y)[1] /\ Key(x)[2] < Key(y)[2]
           \/ Key(x)[1] = Key(y)[1] /\ Key(x)[2] = Key(y)[2] /\ Key(x)[3] < Key(y)[3]
<1> DEFINE before(i) == Key(x)[i] < Key(y)[i] /\ \A j \in 1 .. i - 1 : Key(x)[j] = Key(y)[j]
<1>1. Outranks(x, y) <=> before(1) \/ before(2) \/ before(3)
  BY DEF Outranks
<1>2. 1 .. 1 - 1 = {} /\ 1 .. 2 - 1 = {1} /\ 1 .. 3 - 1 = {1, 2}
  OBVIOUS
<1> QED
  BY <1>1, <1>2

\* This is a strict order.
LEMMA OutranksOrders ==
  ASSUME NEW x \in Items, NEW y \in Items, NEW z \in Items
  PROVE  /\ ~Outranks(x, x)
         /\ Outranks(x, y) /\ Outranks(y, z) => Outranks(x, z)
<1>1. PICK a1, a2, a3 \in Int : Key(x) = <<a1, a2, a3>>
  BY KeyTyped
<1>2. PICK b1, b2, b3 \in Int : Key(y) = <<b1, b2, b3>>
  BY KeyTyped
<1>3. PICK c1, c2, c3 \in Int : Key(z) = <<c1, c2, c3>>
  BY KeyTyped
<1> QED
  BY <1>1, <1>2, <1>3, OutranksByKey

\* The items of xs that outrank x.
Above(xs, x) == {y \in xs : Outranks(y, x)}

\* An item that is not among the best is outranked by as many of the best as
\* there is room for: of the items above it that are not among the best, take
\* one with the fewest above it; all of those are among the best.
LEMMA BestAreEnough ==
  ASSUME NEW xs \in SUBSET Items, IsFiniteSet(xs), NEW x \in xs, x \notin BestOf(xs)
  PROVE  Cardinality(Above(BestOf(xs), x)) >= DigestLimit
<1> DEFINE rank(z) == Cardinality(Above(xs, z))
           rest    == {z \in Above(xs, x) \cup {x} : z \notin BestOf(xs)}
           ranks   == {rank(z) : z \in rest}
<1>1. \A z : Above(xs, z) \subseteq xs /\ IsFiniteSet(Above(xs, z)) /\ rank(z) \in Nat
  <2> SUFFICES ASSUME NEW z PROVE Above(xs, z) \subseteq xs /\ IsFiniteSet(Above(xs, z)) /\ rank(z) \in Nat
    OBVIOUS
  <2>1. Above(xs, z) \in SUBSET xs
    BY DEF Above
  <2> QED
    BY <2>1, FS_Subset, FS_CardinalityType
<1>2. PICK z \in rest : \A y \in rest : ~(rank(y) < rank(z))
  <2> DEFINE R == {pair \in Nat \X Nat : pair[1] < pair[2]}
  <2>1. IsWellFoundedOn(R, Nat)
    BY NatLessThanWellFounded, Zenon DEF OpToRel
  <2> HIDE DEF R
  <2>2. ranks \subseteq Nat /\ ranks # {}
    BY <1>1
  <2> HIDE DEF ranks
  <2>3. PICK n \in ranks : \A m \in ranks : ~(<<m, n>> \in R)
    BY <2>1, <2>2, WFMin
  <2>4. PICK z \in rest : n = rank(z)
    BY <2>3 DEF ranks
  <2>5. ASSUME NEW y \in rest, rank(y) < rank(z) PROVE FALSE
    <3>1. rank(y) \in ranks /\ rank(y) \in Nat /\ rank(z) \in Nat
      BY <1>1 DEF ranks
    <3>2. <<rank(y), n>> \in R
      BY <2>4, <2>5, <3>1 DEF R
    <3> QED
      BY <2>3, <3>1, <3>2
  <2> QED
    BY <2>5
<1>3. rank(z) >= DigestLimit
  <2>1. z \in xs /\ ~(rank(z) < DigestLimit)
    BY <1>1, <1>2 DEF BestOf, Above
  <2> QED
    BY <1>1, <2>1, LearningsAssumption
<1>4. Above(xs, z) \subseteq Above(BestOf(xs), x)
  <2> SUFFICES ASSUME NEW y \in Above(xs, z) PROVE y \in BestOf(xs) /\ Outranks(y, x)
    BY DEF Above
  <2>1. y \in Items /\ z \in Items /\ x \in Items /\ y \in xs /\ Outranks(y, z)
    BY <1>1, <1>2 DEF Above
  <2>2. Outranks(y, x)
    BY <1>2, <2>1, OutranksOrders DEF Above
  <2>3. Above(xs, y) \in SUBSET Above(xs, z) /\ y \notin Above(xs, y)
    BY <2>1, OutranksOrders DEF Above
  <2>4. rank(y) <= rank(z) /\ rank(y) # rank(z)
    BY <1>1, <2>3, FS_Subset
  <2>5. rank(y) < rank(z)
    BY <1>1, <2>4
  <2>6. y \notin rest
    BY <1>2, <2>5
  <2> QED
    BY <2>1, <2>2, <2>6 DEF Above
<1>5. Cardinality(Above(BestOf(xs), x)) \in Nat /\ rank(z) <= Cardinality(Above(BestOf(xs), x))
  <2>1. Above(BestOf(xs), x) \in SUBSET xs
    BY DEF Above, BestOf
  <2>2. IsFiniteSet(Above(BestOf(xs), x))
    BY <2>1, FS_Subset
  <2> QED
    BY <1>4, <2>2, FS_Subset, FS_CardinalityType
<1> QED
  BY <1>1, <1>3, <1>5, LearningsAssumption

-----------------------------------------------------------------------------
(* The scan misses nothing.                                                  *)

\* A file that nobody touched is still to be read, or what fits in it is found.
Reached(p) ==
  \/ p \in lnDigest.left
  \/ Fits(p, lnStore[p], lnDigest.now) => [at |-> p, record |-> lnStore[p]] \in lnDigest.scored

ScanKept ==
  /\ lnDigest.pc = "scan" => IsFiniteSet(lnDigest.scored) /\ \A p \in lnSteady : Reached(p)
  /\ NothingLeftOut

\* Nothing is listed at the beginning.
LEMMA ScanBegins == LNInit => ScanKept
BY DEF LNInit, NoDigest, ScanKept, NothingLeftOut

\* A step that leaves the digest alone, and each untouched file as it was,
\* keeps what the digest knows of them.
LEMMA UntouchedStay ==
  ASSUME ScanKept, UNCHANGED lnDigest, lnSteady' \subseteq lnSteady,
         \A p \in lnSteady' : p \in Laid => lnStore'[p] = lnStore[p]
  PROVE  ScanKept'
<1>1. ASSUME NEW p \in lnSteady', Fits(p, lnStore[p], lnDigest.now)' PROVE lnStore'[p] = lnStore[p]
  BY <1>1 DEF Fits, Trusted
<1>2. lnDigest'.pc = "scan" => IsFiniteSet(lnDigest'.scored) /\ \A p \in lnSteady' : Reached(p)'
  BY <1>1 DEF ScanKept, Reached, Fits, Trusted, Matched
<1>3. NothingLeftOut'
  <2> SUFFICES ASSUME lnDigest.pc = "made", NEW p \in lnSteady', Fits(p, lnStore'[p], lnDigest.now),
                      [at |-> p, record |-> lnStore'[p]] \notin lnDigest.items
               PROVE  Cardinality({y \in lnDigest.items : Outranks(y, [at |-> p, record |-> lnStore'[p]])})
                        >= DigestLimit
    BY DEF NothingLeftOut, Fits, Trusted, Matched, Outranks, Key, Score
  <2>1. p \in lnSteady /\ lnStore'[p] = lnStore[p]
    BY DEF Fits, Trusted
  <2> QED
    BY <2>1 DEF ScanKept, NothingLeftOut
<1> QED
  BY <1>2, <1>3 DEF ScanKept

\* Writing or damaging one file takes only that one out of the untouched.
LEMMA OneFileTouched ==
  ASSUME Inv, ScanKept, UNCHANGED lnDigest, NEW p, NEW r,
         lnStore' = lnStore \/ lnStore' = [lnStore EXCEPT ![p] = r], lnSteady' = lnSteady \ {p}
  PROVE  ScanKept'
<1>1. ASSUME NEW q \in lnSteady', q \in Laid PROVE lnStore'[q] = lnStore[q]
  BY <1>1, LearningsAssumption DEF Inv, Types
<1> QED
  BY <1>1, UntouchedStay

\* Reading the next file misses nothing.
LEMMA ScanFileMisses ==
  ASSUME Inv, ScanKept, ScanFile
  PROVE  ScanKept'
<1> DEFINE p == Min(lnDigest.left)
           found == IF Fits(p, lnStore[p], lnDigest.now) THEN {[at |-> p, record |-> lnStore[p]]} ELSE {}
<1>1. lnDigest' = [lnDigest EXCEPT !.left = @ \ {p}, !.scored = @ \cup found]
  BY DEF ScanFile
<1>2. lnDigest.pc = "scan" /\ UNCHANGED <<lnStore, lnSteady>>
  BY DEF ScanFile
<1>3. IsFiniteSet(found)
  BY FS_EmptySet, FS_Singleton
<1>4. Fits(p, lnStore[p], lnDigest.now) => [at |-> p, record |-> lnStore[p]] \in found
  OBVIOUS
<1> HIDE DEF p, found
<1>5. /\ lnDigest'.pc = "scan" /\ lnDigest'.now = lnDigest.now
      /\ lnDigest'.left = lnDigest.left \ {p} /\ lnDigest'.scored = lnDigest.scored \cup found
  <2>1. lnDigest = [pc |-> "scan", now |-> lnDigest.now, left |-> lnDigest.left,
                     scored |-> lnDigest.scored, items |-> lnDigest.items]
    BY <1>2 DEF Inv, Types
  <2> QED
    BY ONLY <1>1, <2>1
<1>6. IsFiniteSet(lnDigest'.scored)
  <2>1. IsFiniteSet(lnDigest.scored)
    BY <1>2 DEF ScanKept
  <2>2. IsFiniteSet(lnDigest.scored \cup found)
    BY ONLY <1>3, <2>1, FS_Union
  <2> QED
    BY <1>5, <2>2
<1>7. ASSUME NEW q \in lnSteady PROVE Reached(q)'
  <2>1. Reached(q)
    BY <1>2 DEF ScanKept
  <2>2. Fits(q, lnStore[q], lnDigest.now)' = Fits(q, lnStore[q], lnDigest.now)
    BY <1>2, <1>5 DEF Fits, Trusted, Matched
  <2>3. CASE q = p
    BY <1>2, <1>4, <1>5, <2>2, <2>3 DEF Reached
  <2>4. CASE q # p
    BY <1>2, <1>5, <2>1, <2>2, <2>4 DEF Reached
  <2> QED
    BY <2>3, <2>4
<1> QED
  BY <1>2, <1>5, <1>6, <1>7 DEF ScanKept, NothingLeftOut

\* The items are the best that were found, and enough of them.
LEMMA EndDigestKeeps ==
  ASSUME Inv, ScanKept, EndDigest
  PROVE  ScanKept'
<1> DEFINE xs == lnDigest.scored
<1>1. /\ lnDigest'.pc = "made" /\ lnDigest'.now = lnDigest.now /\ lnDigest'.items = BestOf(xs)
      /\ lnDigest.pc = "scan" /\ lnDigest.left = {} /\ UNCHANGED <<lnStore, lnSteady>>
  BY DEF EndDigest, Inv, Types
<1>2. xs \in SUBSET Items /\ IsFiniteSet(xs)
  BY <1>1 DEF Inv, Types, Items, ScanKept
<1>3. ASSUME NEW p \in lnSteady, Fits(p, lnStore[p], lnDigest.now),
             [at |-> p, record |-> lnStore[p]] \notin BestOf(xs)
      PROVE  Cardinality(Above(BestOf(xs), [at |-> p, record |-> lnStore[p]])) >= DigestLimit
  <2>1. [at |-> p, record |-> lnStore[p]] \in xs
    BY <1>1, <1>3 DEF ScanKept, Reached
  <2> QED
    BY <1>2, <1>3, <2>1, BestAreEnough
<1> HIDE DEF xs
<1>4. NothingLeftOut'
  <2> SUFFICES ASSUME NEW p \in lnSteady, Fits(p, lnStore[p], lnDigest.now),
                      [at |-> p, record |-> lnStore[p]] \notin BestOf(xs)
               PROVE  Cardinality({y \in BestOf(xs) : Outranks(y, [at |-> p, record |-> lnStore[p]])}) >= DigestLimit
    BY <1>1 DEF NothingLeftOut, Fits, Trusted, Matched, Outranks, Key, Score
  <2> QED
    BY <1>3 DEF Above
<1> QED
  BY <1>1, <1>4 DEF ScanKept

\* Every step keeps it.
LEMMA NextScan == Inv /\ ScanKept /\ [LNNext]_lnVars => ScanKept'
<1> SUFFICES ASSUME Inv, ScanKept, [LNNext]_lnVars PROVE ScanKept'
  OBVIOUS
<1>1. ASSUME NEW w \in Learners, BeginLearn(w) \/ FindSlug(w) PROVE ScanKept'
  <2>1. UNCHANGED <<lnStore, lnDigest, lnSteady>>
    BY <1>1 DEF BeginLearn, FindSlug
  <2> QED
    BY <2>1, UntouchedStay
<1>2. ASSUME NEW w \in Learners, EndLearn(w) PROVE ScanKept'
  <2>1. /\ UNCHANGED lnDigest /\ lnSteady' = lnSteady \ {SlugOf(w)}
        /\ \/ lnStore' = lnStore
           \/ lnStore' = [lnStore EXCEPT ![SlugOf(w)] = lnLearner[w].record]
    BY <1>2 DEF EndLearn, CreateRecord
  <2> QED
    BY <2>1, OneFileTouched
<1>3. CASE BeginDigest
  <2>1. /\ lnDigest'.pc = "scan" /\ lnDigest'.scored = {}
        /\ lnDigest'.left = Candidates /\ lnSteady' = Candidates
    BY <1>3 DEF BeginDigest, NoDigest
  <2> QED
    BY <2>1, FS_EmptySet DEF ScanKept, Reached, NothingLeftOut
<1>4. CASE ScanFile
  BY <1>4, ScanFileMisses
<1>5. CASE EndDigest
  BY <1>5, EndDigestKeeps
<1>6. CASE DayPasses
  BY <1>6, UntouchedStay DEF DayPasses
<1>7. CASE OtherTool
  <2>1. PICK p \in Files : (\E r \in Damaged(p) : lnStore' = [lnStore EXCEPT ![p] = r]) /\ lnSteady' = lnSteady \ {p}
    BY <1>7 DEF OtherTool
  <2>2. PICK r \in Damaged(p) : lnStore' = [lnStore EXCEPT ![p] = r]
    BY <2>1
  <2> QED
    BY <1>7, <2>1, <2>2, OneFileTouched DEF OtherTool
<1>8. CASE UNCHANGED lnVars
  BY <1>8, UntouchedStay DEF lnVars
<1> QED
  BY <1>1, <1>2, <1>3, <1>4, <1>5, <1>6, <1>7, <1>8 DEF LNNext

-----------------------------------------------------------------------------
(* The theorems.                                                             *)

\* A digest offers only records as commands wrote them, and none too old, for
\* any store, damage and number of projects (learnings.py 200-330, 449-520).
THEOREM DigestsTrusted == LNSpec => []DigestTrusted
<1>1. Inv => DigestTrusted
  BY DEF Inv, DigestGenuine, Offered, DigestTrusted
<1> QED
  BY InitInv, NextInv, <1>1, PTL DEF LNSpec

\* What a digest leaves out does not fit, was touched while the digest was made,
\* or is outranked by as many items as there is room for: for any store, order of
\* the steps, limits and keywords (read_digest of learnings.py).
THEOREM NothingFitIsLeftOut == LNSpec => []NothingLeftOut
<1>1. LNSpec => []Inv
  BY InitInv, NextInv, PTL DEF LNSpec
<1>2. LNSpec => []ScanKept
  BY <1>1, ScanBegins, NextScan, PTL DEF LNSpec
<1> QED
  BY <1>2, PTL DEF ScanKept

\* No command changes or removes a record that lies there (learnings.py 384-405).
THEOREM RecordsAreKept == LNSpec => RecordsStand
<1>1. Inv /\ [LNNext]_lnVars =>
        [~OtherTool => \A p \in Filled : lnStore'[p] = lnStore[p]]_lnVars
  <2> SUFFICES ASSUME Inv, LNNext, ~OtherTool, NEW p \in Filled
               PROVE  lnStore'[p] = lnStore[p]
    OBVIOUS
  <2>1. ASSUME NEW w \in Learners, BeginLearn(w) \/ FindSlug(w) PROVE lnStore' = lnStore
    BY <2>1 DEF BeginLearn, FindSlug
  <2>2. ASSUME NEW w \in Learners, EndLearn(w) PROVE lnStore'[p] = lnStore[p]
    BY <2>2 DEF EndLearn, CreateRecord, Filled, Inv, Types
  <2>3. CASE BeginDigest \/ ScanFile \/ EndDigest \/ DayPasses
    BY <2>3 DEF BeginDigest, ScanFile, EndDigest, DayPasses
  <2> QED
    BY <2>1, <2>2, <2>3 DEF LNNext
<1> QED
  BY InitInv, NextInv, <1>1, PTL DEF LNSpec, RecordsStand
=============================================================================
