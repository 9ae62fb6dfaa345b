----------------------------- MODULE SafeIO_proofs -----------------------------
(* Theorems about SafeIO, checked by TLAPS: whatever system call fails,       *)
(* whichever process is killed and whenever the machine loses power, no       *)
(* published file is torn, what returned to its caller stays, one of several  *)
(* exclusive creations succeeds, and a log is read as a whole or not at all.  *)
EXTENDS SafeIO, TLAPS, SequenceTheorems

-----------------------------------------------------------------------------
(* The types that the arguments need.                                         *)

Kinds  == {"replace", "create", "bundle", "append"}
Pcs    == {"idle", "write", "publish", "unlink", "syncdir", "cleanup", "tail", "logsync",
           "returned", "raised", "killed"}
Pieces == [op : Ops, part : {"line", "head", "tail"}]
Readers == [op : Ops \cup {NoOp}, chunks : 0 .. Whole, from : SUBSET Ops, at : {"idle", "reading", "eof"}]

Types ==
  /\ ioKind \in [Ops -> Kinds] /\ ioPc \in [Ops -> Pcs]
  /\ ioData \in [Ops -> 0 .. Whole] /\ ioSynced \in [Ops -> 0 .. Whole]
  /\ ioName \in [Paths -> Ops \cup {NoOp}]
  /\ ioDurable \in [Paths -> SUBSET (Ops \cup {NoOp})]
  /\ ioLog \in Seq(Pieces) /\ ioLogged \in 0 .. Len(ioLog)
  /\ ioRead \in Readers

-----------------------------------------------------------------------------
(* The inductive invariants.                                                  *)

\* What is on disk is a part of what was written, and all of it from fsync on.
Synced ==
  /\ \A o \in Ops : ioSynced[o] <= ioData[o]
  /\ \A o \in Ops : ioPc[o] \in {"publish", "unlink", "syncdir"} => ioSynced[o] = Whole

\* What a name is, or may turn out to be after a power loss, is complete.
NamesWhole ==
  /\ \A p \in Paths : ioName[p] \in ioDurable[p]
  /\ \A p \in Paths : \A d \in ioDurable[p] \ {NoOp} : ioSynced[d] = Whole

\* A reader holds the inode of one operation, which is complete.
ReaderWhole ==
  ioRead.at # "idle" =>
    /\ ioRead.op \in Ops /\ ioSynced[ioRead.op] = Whole
    /\ ioRead.from \subseteq {ioRead.op} /\ (ioRead.chunks > 0 => ioRead.from = {ioRead.op})
    /\ ioRead.at = "eof" => ioRead.chunks = Whole

\* The steps of each kind of operation.
KindSteps ==
  \A o \in Ops :
    /\ ioPc[o] \in {"write", "publish", "unlink", "syncdir"} => ioKind[o] # "append"
    /\ ioPc[o] \in {"tail", "logsync"} => ioKind[o] = "append"
    /\ ioPc[o] = "unlink" => ioKind[o] = "create"

\* The name of an operation that has published exists, and that of a bundle
\* is nobody else's; once it has returned this holds after a power loss, too.
Published(o) == ioKind[o] # "append" /\ ioPc[o] \in {"unlink", "syncdir", "returned"}
Owns(o, d)   == d # NoOp /\ (ioKind[o] = "bundle" => d = o)
NamesKept ==
  \A o \in Ops : Published(o) =>
    /\ Owns(o, ioName[PathOf(o)])
    /\ ioPc[o] = "returned" => \A d \in ioDurable[PathOf(o)] : Owns(o, d)

\* Of several exclusive creations of one name only one has published.
Alone ==
  \A o, q \in Ops :
    Published(o) /\ Published(q) /\ ioKind[o] = ioKind[q] /\ ioKind[o] \in {"create", "bundle"} => o = q

\* The end of a line is in the log when it is synchronised, and for good when
\* the operation has returned.
LogKept ==
  \A o \in Ops : ioKind[o] = "append" =>
    /\ ioPc[o] = "logsync" => \E i \in 1 .. Len(ioLog) : ioLog[i].op = o
    /\ ioPc[o] = "returned" => \E i \in 1 .. ioLogged : ioLog[i].op = o
Inv == Types /\ Synced /\ NamesWhole /\ ReaderWhole /\ KindSteps /\ NamesKept /\ Alone /\ LogKept

\* Nothing has been written in the beginning.
LEMMA InitInv == IOInit => Inv
<1> SUFFICES ASSUME IOInit PROVE Inv
  OBVIOUS
<1>1. Types
  BY OpsAssumption, EmptySeq DEF IOInit, Types, NoReader, Kinds, Pcs, Pieces, Readers, Whole, Paths
<1>2. Synced /\ NamesWhole /\ ReaderWhole /\ KindSteps
  BY DEF IOInit, Synced, NamesWhole, ReaderWhole, KindSteps, NoReader
<1>3. NamesKept /\ Alone /\ LogKept
  BY DEF IOInit, NamesKept, Alone, LogKept, Published
<1> QED
  BY <1>1, <1>2, <1>3 DEF Inv

-----------------------------------------------------------------------------
(* What a step does, in the terms of the invariants.                          *)

\* The program counters after a step of one operation.
LEMMA ProceedType ==
  ASSUME Types, NEW o \in Ops, NEW pc \in Pcs, Proceed(o, pc)
  PROVE  /\ ioPc' \in [Ops -> Pcs] /\ ioPc'[o] = pc
         /\ \A q \in Ops \ {o} : ioPc'[q] = ioPc[q]
BY DEF Types, Proceed

\* What a power loss leaves.
LEMMA PowerLossLeaves ==
  ASSUME Types, Synced, PowerLoss
  PROVE  /\ UNCHANGED ioKind /\ ioRead' = NoReader
         /\ \A o \in Ops : ioPc'[o] = IF Running(o) THEN "killed" ELSE ioPc[o]
         /\ ioPc' \in [Ops -> Pcs]
         /\ ioData' \in [Ops -> 0 .. Whole] /\ ioSynced' = ioData'
         /\ \A o \in Ops : ioSynced[o] = Whole => ioSynced'[o] = Whole
         /\ ioName' \in [Paths -> Ops \cup {NoOp}]
         /\ \A p \in Paths : ioName'[p] \in ioDurable[p] /\ ioDurable'[p] = {ioName'[p]}
         /\ ioDurable' \in [Paths -> SUBSET (Ops \cup {NoOp})]
<1> USE DEF Types
<1>1. UNCHANGED ioKind /\ ioRead' = NoReader
  BY DEF PowerLoss
<1>2. /\ \A o \in Ops : ioPc'[o] = IF Running(o) THEN "killed" ELSE ioPc[o]
      /\ ioPc' \in [Ops -> Pcs]
  BY DEF PowerLoss, Pcs
<1>3. /\ ioData' \in [Ops -> 0 .. Whole] /\ ioSynced' = ioData'
      /\ \A o \in Ops : ioSynced[o] = Whole => ioSynced'[o] = Whole
  <2>1. PICK lost \in SUBSET {o \in Ops : ioSynced[o] < ioData[o]} :
          ioData' = [o \in Ops |-> IF o \in lost THEN ioSynced[o] ELSE ioData[o]]
    BY DEF PowerLoss
  <2>2. ioSynced' = ioData'
    BY DEF PowerLoss
  <2>3. \A o \in Ops : ioSynced[o] \in 0 .. Whole /\ ioData[o] \in 0 .. Whole /\ ioSynced[o] <= ioData[o]
    BY DEF Synced
  <2> QED
    BY <2>1, <2>2, <2>3 DEF Whole
<1>4. /\ ioName' \in [Paths -> Ops \cup {NoOp}]
      /\ \A p \in Paths : ioName'[p] \in ioDurable[p] /\ ioDurable'[p] = {ioName'[p]}
      /\ ioDurable' \in [Paths -> SUBSET (Ops \cup {NoOp})]
  <2>1. PICK name \in [Paths -> Ops \cup {NoOp}] :
          /\ \A p \in Paths : name[p] \in ioDurable[p]
          /\ ioName' = name /\ ioDurable' = [p \in Paths |-> {name[p]}]
    BY DEF PowerLoss
  <2> QED
    BY <2>1
<1> QED
  BY <1>1, <1>2, <1>3, <1>4

\* What a power loss leaves of the log.
LEMMA PowerLossLog ==
  ASSUME Types, PowerLoss
  PROVE  /\ ioLog' \in Seq(Pieces) /\ ioLogged' \in 0 .. Len(ioLog')
         /\ ioLogged <= ioLogged' /\ ioLogged \in Nat /\ ioLogged' \in Nat
         /\ \A i \in 1 .. ioLogged : ioLog'[i] = ioLog[i]
<1>1. PICK kept \in ioLogged .. Len(ioLog) : ioLog' = SubSeq(ioLog, 1, kept) /\ ioLogged' = kept
  BY DEF PowerLoss
<1>2. Len(ioLog) \in Nat /\ ioLogged \in Nat /\ kept \in 0 .. Len(ioLog)
  BY DEF Types
<1>3. ioLog' \in Seq(Pieces) /\ Len(ioLog') = kept /\ \A i \in 1 .. kept : ioLog'[i] = ioLog[i]
  BY <1>1, <1>2, SubSeqProperties DEF Types
<1> QED
  BY <1>1, <1>2, <1>3

-----------------------------------------------------------------------------
(* The types.                                                                 *)

\* Every step keeps them.
LEMMA NextTypes == Types /\ Synced /\ ReaderWhole /\ [IONext]_ioVars => Types'
<1> SUFFICES ASSUME Types, Synced, ReaderWhole, [IONext]_ioVars PROVE Types'
  OBVIOUS
<1> USE DEF Types, ioFiles, ioLogs, IsAt
<1>1. ASSUME NEW o \in Ops, CreateTemp(o) \/ RefuseBundle(o) \/ RefusePublish(o) \/ UnlinkTemp(o)
                              \/ IOFail(o) \/ Cleanup(o) \/ AppendFail(o) \/ Kill(o)
      PROVE  Types'
  <2>1. UNCHANGED <<ioKind, ioData, ioSynced, ioName, ioDurable, ioLog, ioLogged, ioRead>>
    BY <1>1 DEF CreateTemp, RefuseBundle, RefusePublish, UnlinkTemp, IOFail, Cleanup, AppendFail, Kill
  <2>2. \E pc \in Pcs : Proceed(o, pc)
    BY <1>1 DEF CreateTemp, RefuseBundle, RefusePublish, UnlinkTemp, IOFail, Cleanup, AppendFail, Kill, Pcs
  <2> QED
    BY <2>1, <2>2, ProceedType
<1>2. ASSUME NEW o \in Ops, WriteChunk(o) PROVE Types'
  <2>1. ioData[o] \in 0 .. Whole /\ ioSynced[o] \in 0 .. Whole /\ ioSynced[o] <= ioData[o]
    BY DEF Synced
  <2>2. ioData' \in [Ops -> 0 .. Whole]
    BY <1>2, <2>1 DEF WriteChunk, Whole
  <2>3. ioSynced' \in [Ops -> 0 .. Whole]
    BY <1>2, <2>1 DEF WriteChunk, Whole
  <2> QED
    BY <1>2, <2>2, <2>3 DEF WriteChunk
<1>3. ASSUME NEW o \in Ops, Fsync(o) PROVE Types'
  BY <1>3 DEF Fsync, Proceed, Pcs, Whole
<1>4. ASSUME NEW o \in Ops, Publish(o) PROVE Types'
  <2>1. ioName' \in [Paths -> Ops \cup {NoOp}] /\ ioDurable' \in [Paths -> SUBSET (Ops \cup {NoOp})]
    BY <1>4 DEF Publish
  <2>2. ioPc' \in [Ops -> Pcs]
    BY <1>4 DEF Publish, Proceed, Pcs
  <2> QED
    BY <1>4, <2>1, <2>2 DEF Publish
<1>5. ASSUME NEW o \in Ops, SyncParent(o) PROVE Types'
  <2>1. PathOf(o) \in Paths
    BY DEF PathOf, Paths
  <2>2. ioDurable' \in [Paths -> SUBSET (Ops \cup {NoOp})]
    BY <1>5, <2>1 DEF SyncParent
  <2> QED
    BY <1>5, <2>2 DEF SyncParent, Proceed, Pcs
<1>6. ASSUME NEW o \in Ops, AppendLine(o) \/ AppendTail(o) PROVE Types'
  <2>1. PICK part \in {"line", "head", "tail"} : ioLog' = Append(ioLog, Piece(o, part))
    BY <1>6 DEF AppendLine, AppendTail
  <2>2. Piece(o, part) \in Pieces
    BY DEF Piece, Pieces
  <2>3. ioLog' \in Seq(Pieces) /\ Len(ioLog') = Len(ioLog) + 1
    BY <2>1, <2>2
  <2>4. ioPc' \in [Ops -> Pcs]
    BY <1>6 DEF AppendLine, AppendTail, Proceed, Pcs
  <2>5. UNCHANGED <<ioKind, ioData, ioSynced, ioName, ioDurable, ioLogged, ioRead>>
    BY <1>6 DEF AppendLine, AppendTail
  <2> QED
    BY <2>3, <2>4, <2>5
<1>7. ASSUME NEW o \in Ops, SyncLog(o) PROVE Types'
  BY <1>7 DEF SyncLog, Proceed, Pcs
<1>8. CASE OpenFile
  <2>1. ioName["file"] \in Ops \cup {NoOp}
    BY DEF Paths
  <2>2. ioRead' = [NoReader EXCEPT !.op = ioName["file"], !.at = "reading"]
    BY <1>8 DEF OpenFile
  <2>3. ioRead' = [op |-> ioName["file"], chunks |-> 0, from |-> {}, at |-> "reading"]
    BY <2>2 DEF NoReader
  <2>4. ioRead' \in Readers
    BY ONLY <2>1, <2>3, {} \subseteq Ops DEF Readers, Whole
  <2> QED
    BY <1>8, <2>4 DEF OpenFile
<1>9. CASE ReadChunk
  <2>1. ioRead.op \in Ops /\ ioData[ioRead.op] \in 0 .. 2 /\ ioRead \in Readers
    BY <1>9 DEF ReadChunk, ReadFrom, ReaderWhole, Whole
  <2>2. CASE ioRead.chunks < ioData[ioRead.op]
    <3>1. ioRead' = [ioRead EXCEPT !.chunks = @ + 1, !.from = @ \cup {ioRead.op}]
      BY <1>9, <2>2 DEF ReadChunk, ReadFrom
    <3>2. ioRead' = [op |-> ioRead.op, chunks |-> ioRead.chunks + 1, from |-> ioRead.from \cup {ioRead.op},
                     at |-> ioRead.at]
      BY <2>1, <3>1 DEF Readers
    <3>3. /\ ioRead.chunks + 1 \in 0 .. Whole /\ ioRead.from \cup {ioRead.op} \subseteq Ops
          /\ ioRead.at \in {"idle", "reading", "eof"}
      BY <2>1, <2>2 DEF Readers, Whole
    <3>4. ioRead' \in Readers
      BY ONLY <2>1, <3>2, <3>3 DEF Readers
    <3> QED
      BY <1>9, <3>4 DEF ReadChunk, ReadFrom
  <2>3. CASE ~(ioRead.chunks < ioData[ioRead.op])
    <3>1. ioRead' = [ioRead EXCEPT !.at = "eof"]
      BY <1>9, <2>3 DEF ReadChunk, ReadFrom
    <3>2. ioRead' \in Readers
      BY <2>1, <3>1 DEF Readers
    <3> QED
      BY <1>9, <3>2 DEF ReadChunk, ReadFrom
  <2> QED
    BY <2>2, <2>3
<1>10. CASE CloseFile
  BY <1>10 DEF CloseFile, NoReader, Readers, Whole
<1>11. CASE PowerLoss
  <2>1. ioRead' \in Readers
    BY <1>11 DEF PowerLoss, NoReader, Readers, Whole
  <2> QED
    BY <1>11, <2>1, PowerLossLeaves, PowerLossLog
<1>12. CASE UNCHANGED ioVars
  BY <1>12 DEF ioVars
<1> QED
  BY <1>1, <1>2, <1>3, <1>4, <1>5, <1>6, <1>7, <1>8, <1>9, <1>10, <1>11, <1>12 DEF IONext, IOStep

-----------------------------------------------------------------------------
(* Completeness.                                                              *)

\* Every step keeps what is on disk within what was written, and what has a
\* name complete.
LEMMA NextWhole ==
  Types /\ Synced /\ NamesWhole /\ KindSteps /\ [IONext]_ioVars => Synced' /\ NamesWhole' /\ KindSteps'
<1> SUFFICES ASSUME Types, Synced, NamesWhole, KindSteps, [IONext]_ioVars
             PROVE  Synced' /\ NamesWhole' /\ KindSteps'
  OBVIOUS
<1> USE DEF Types, ioFiles, ioLogs, IsAt, Synced, NamesWhole, KindSteps
<1>1. ASSUME NEW o \in Ops, CreateTemp(o) \/ RefuseBundle(o) \/ RefusePublish(o) \/ UnlinkTemp(o)
                              \/ IOFail(o) \/ Cleanup(o) \/ AppendFail(o) \/ Kill(o)
      PROVE  Synced' /\ NamesWhole' /\ KindSteps'
  <2>1. UNCHANGED <<ioKind, ioData, ioSynced, ioName, ioDurable>>
    BY <1>1 DEF CreateTemp, RefuseBundle, RefusePublish, UnlinkTemp, IOFail, Cleanup, AppendFail, Kill
  <2>2. PICK pc \in {"write", "raised", "cleanup", "syncdir", "killed"} :
          /\ Proceed(o, pc)
          /\ pc = "write" => ioKind[o] # "append"
          /\ pc = "syncdir" => ioPc[o] = "unlink"
    BY <1>1 DEF CreateTemp, RefuseBundle, RefusePublish, UnlinkTemp, IOFail, Cleanup, AppendFail, Kill
  <2>3. ioPc'[o] = pc /\ \A q \in Ops \ {o} : ioPc'[q] = ioPc[q]
    BY <2>2 DEF Proceed
  <2> QED
    BY <2>1, <2>2, <2>3
<1>2. ASSUME NEW o \in Ops, WriteChunk(o) PROVE Synced' /\ NamesWhole' /\ KindSteps'
  <2>1. UNCHANGED <<ioKind, ioPc, ioName, ioDurable>> /\ ioPc[o] = "write" /\ ioData[o] < Whole
    BY <1>2 DEF WriteChunk
  <2>2. /\ ioData'[o] = ioData[o] + 1 /\ \A q \in Ops \ {o} : ioData'[q] = ioData[q]
        /\ ioSynced'[o] \in {ioSynced[o], ioSynced[o] + 1} /\ \A q \in Ops \ {o} : ioSynced'[q] = ioSynced[q]
    BY <1>2 DEF WriteChunk
  <2>3. \A q \in Ops : ioSynced[q] \in 0 .. 2 /\ ioData[q] \in 0 .. 2
    BY DEF Whole
  <2>4. \A q \in Ops : ioSynced[q] = Whole => ioSynced'[q] = Whole
    BY <2>1, <2>2, <2>3 DEF Whole
  <2>5. Synced'
    <3>1. ASSUME NEW q \in Ops PROVE ioSynced'[q] <= ioData'[q]
      <4>1. ioSynced[q] <= ioData[q] /\ ioSynced[q] \in Int /\ ioData[q] \in Int
        BY <2>3
      <4>2. CASE q = o
        BY <1>2, <4>1, <4>2 DEF WriteChunk
      <4>3. CASE q # o
        BY ONLY <2>2, <4>1, <4>3, o \in Ops, q \in Ops
      <4> QED
        BY <4>2, <4>3
    <3>2. ASSUME NEW q \in Ops, ioPc'[q] \in {"publish", "unlink", "syncdir"} PROVE ioSynced'[q] = Whole
      BY <2>1, <2>4, <3>2
    <3> QED
      BY <3>1, <3>2
  <2> QED
    BY <2>1, <2>4, <2>5
<1>3. ASSUME NEW o \in Ops, Fsync(o) PROVE Synced' /\ NamesWhole' /\ KindSteps'
  <2>1. /\ UNCHANGED <<ioKind, ioData, ioName, ioDurable>>
        /\ ioPc[o] = "write" /\ ioData[o] = Whole
        /\ ioSynced'[o] = Whole /\ \A q \in Ops \ {o} : ioSynced'[q] = ioSynced[q]
        /\ ioPc'[o] = "publish" /\ \A q \in Ops \ {o} : ioPc'[q] = ioPc[q]
    BY <1>3 DEF Fsync, Proceed
  <2> QED
    BY <2>1 DEF Whole
<1>4. ASSUME NEW o \in Ops, Publish(o) PROVE Synced' /\ NamesWhole' /\ KindSteps'
  <2>1. /\ UNCHANGED <<ioKind, ioData, ioSynced>> /\ ioPc[o] = "publish"
        /\ ioName' = [ioName EXCEPT ![PathOf(o)] = o]
        /\ ioDurable' = [ioDurable EXCEPT ![PathOf(o)] = @ \cup {o}]
        /\ ioPc'[o] = (IF ioKind[o] = "create" THEN "unlink" ELSE "syncdir")
        /\ \A q \in Ops \ {o} : ioPc'[q] = ioPc[q]
    BY <1>4 DEF Publish, Proceed
  <2>2. ioSynced[o] = Whole /\ ioKind[o] # "append"
    BY <2>1
  <2>3. NamesWhole'
    BY <2>1, <2>2
  <2> QED
    BY <2>1, <2>2, <2>3
<1>5. ASSUME NEW o \in Ops, SyncParent(o) PROVE Synced' /\ NamesWhole' /\ KindSteps'
  <2>1. /\ UNCHANGED <<ioKind, ioData, ioSynced, ioName>>
        /\ ioDurable' = [ioDurable EXCEPT ![PathOf(o)] = {ioName[PathOf(o)]}]
        /\ ioPc'[o] = "returned" /\ \A q \in Ops \ {o} : ioPc'[q] = ioPc[q]
    BY <1>5 DEF SyncParent, Proceed
  <2>2. NamesWhole'
    BY <2>1
  <2> QED
    BY <2>1, <2>2
<1>6. ASSUME NEW o \in Ops, AppendLine(o) \/ AppendTail(o) \/ SyncLog(o)
      PROVE  Synced' /\ NamesWhole' /\ KindSteps'
  <2>1. UNCHANGED <<ioKind, ioData, ioSynced, ioName, ioDurable>>
    BY <1>6 DEF AppendLine, AppendTail, SyncLog
  <2>2. /\ ioPc'[o] \in {"tail", "logsync", "returned"} /\ \A q \in Ops \ {o} : ioPc'[q] = ioPc[q]
        /\ ioKind[o] = "append"
    BY <1>6 DEF AppendLine, AppendTail, SyncLog, Proceed
  <2> QED
    BY <2>1, <2>2
<1>7. CASE OpenFile \/ ReadChunk \/ CloseFile
  BY <1>7 DEF OpenFile, ReadChunk, ReadFrom, CloseFile
<1>8. CASE PowerLoss
  <2>1. /\ UNCHANGED ioKind /\ ioSynced' = ioData' /\ ioData' \in [Ops -> 0 .. Whole]
        /\ \A o \in Ops : ioPc'[o] = IF Running(o) THEN "killed" ELSE ioPc[o]
        /\ \A o \in Ops : ioSynced[o] = Whole => ioSynced'[o] = Whole
        /\ \A p \in Paths : ioName'[p] \in ioDurable[p] /\ ioDurable'[p] = {ioName'[p]}
    BY <1>8, PowerLossLeaves
  <2>2. Synced'
    <3>1. ASSUME NEW q \in Ops PROVE ioSynced'[q] <= ioData'[q]
      BY <2>1 DEF Whole
    <3>2. ASSUME NEW q \in Ops PROVE ioPc'[q] \notin {"publish", "unlink", "syncdir"}
      BY <2>1 DEF Running
    <3> QED
      BY <3>1, <3>2
  <2>3. NamesWhole'
    <3>1. ASSUME NEW p \in Paths, NEW d \in ioDurable'[p] \ {NoOp} PROVE ioSynced'[d] = Whole
      <4>1. d \in ioDurable[p] /\ d # NoOp
        BY ONLY <2>1, <3>1
      <4>2. d \in Ops /\ ioSynced[d] = Whole
        BY <4>1
      <4> QED
        BY <2>1, <4>2
    <3>2. \A p \in Paths : ioName'[p] \in ioDurable'[p]
      BY <2>1
    <3> QED
      BY <3>1, <3>2
  <2>4. KindSteps'
    BY <2>1 DEF Running
  <2> QED
    BY <2>2, <2>3, <2>4
<1>9. CASE UNCHANGED ioVars
  BY <1>9 DEF ioVars
<1> QED
  BY <1>1, <1>2, <1>3, <1>4, <1>5, <1>6, <1>7, <1>8, <1>9 DEF IONext, IOStep

\* What is complete on disk stays complete.
LEMMA WholeStays ==
  ASSUME Types, Synced, [IONext]_ioVars, NEW o \in Ops, ioSynced[o] = Whole
  PROVE  ioSynced'[o] = Whole
<1> USE DEF Types, ioFiles
<1>1. ASSUME NEW q \in Ops, WriteChunk(q) PROVE ioSynced'[o] = Whole
  BY <1>1 DEF WriteChunk, Synced, Whole
<1>2. ASSUME NEW q \in Ops, Fsync(q) PROVE ioSynced'[o] = Whole
  BY <1>2 DEF Fsync
<1>3. CASE PowerLoss
  BY <1>3, PowerLossLeaves
<1>4. ASSUME UNCHANGED ioSynced PROVE ioSynced'[o] = Whole
  BY <1>4
<1> QED
  BY <1>1, <1>2, <1>3, <1>4
     DEF IONext, IOStep, ioVars, CreateTemp, RefuseBundle, Publish, RefusePublish, UnlinkTemp, SyncParent,
         IOFail, Cleanup, AppendLine, AppendTail, SyncLog, AppendFail, Kill, OpenFile, ReadChunk, ReadFrom,
         CloseFile

\* Every step keeps a reader at one complete inode.
LEMMA NextReader ==
  Types /\ Synced /\ NamesWhole /\ ReaderWhole /\ [IONext]_ioVars => ReaderWhole'
<1> SUFFICES ASSUME Types, Synced, NamesWhole, ReaderWhole, [IONext]_ioVars PROVE ReaderWhole'
  OBVIOUS
<1> USE DEF ReaderWhole
<1>1. CASE OpenFile
  <2>1. ioName["file"] \in Ops /\ ioSynced[ioName["file"]] = Whole
    BY <1>1 DEF OpenFile, Types, NamesWhole, Paths
  <2>2. ioRead' = [op |-> ioName["file"], chunks |-> 0, from |-> {}, at |-> "reading"]
    BY <1>1 DEF OpenFile, NoReader
  <2>3. UNCHANGED ioSynced
    BY <1>1 DEF OpenFile, ioFiles
  <2> QED
    BY <2>1, <2>2, <2>3
<1>2. CASE ReadChunk
  <2>1. /\ ioRead \in Readers /\ ioRead.op \in Ops /\ ioSynced[ioRead.op] = Whole
        /\ ioRead.from \subseteq {ioRead.op} /\ UNCHANGED ioSynced
    BY <1>2 DEF ReadChunk, ReadFrom, Types, ioFiles
  <2>2. ioData[ioRead.op] = Whole
    BY <2>1 DEF Types, Synced, Whole
  <2>3. CASE ioRead.chunks < ioData[ioRead.op]
    <3>1. ioRead' = [ioRead EXCEPT !.chunks = @ + 1, !.from = @ \cup {ioRead.op}] /\ ioRead.at = "reading"
      BY <1>2, <2>3 DEF ReadChunk, ReadFrom
    <3>2. /\ ioRead'.op = ioRead.op /\ ioRead'.from = ioRead.from \cup {ioRead.op}
          /\ ioRead'.at = "reading"
      BY <2>1, <3>1 DEF Readers
    <3> QED
      BY <2>1, <3>2
  <2>4. CASE ~(ioRead.chunks < ioData[ioRead.op])
    <3>1. ioRead' = [ioRead EXCEPT !.at = "eof"] /\ ioRead.at = "reading"
      BY <1>2, <2>4 DEF ReadChunk, ReadFrom
    <3>2. ioRead.chunks = Whole
      BY <2>1, <2>2, <2>4 DEF Readers, Whole
    <3> QED
      BY <2>1, <3>1, <3>2 DEF Readers
  <2> QED
    BY <2>3, <2>4
<1>3. CASE CloseFile \/ PowerLoss
  BY <1>3 DEF CloseFile, PowerLoss, NoReader
<1>4. ASSUME UNCHANGED ioRead PROVE ReaderWhole'
  BY <1>4, WholeStays
<1> QED
  BY <1>1, <1>2, <1>3, <1>4
     DEF IONext, IOStep, ioVars, CreateTemp, RefuseBundle, WriteChunk, Fsync, Publish, RefusePublish,
         UnlinkTemp, SyncParent, IOFail, Cleanup, AppendLine, AppendTail, SyncLog, AppendFail, Kill

-----------------------------------------------------------------------------
(* Names.                                                                     *)

\* The steps that neither publish nor lose a name leave every operation that
\* has published where its name is.
LEMMA QuietStep ==
  ASSUME Types, KindSteps, UNCHANGED <<ioKind, ioName, ioDurable>>, NEW o \in Ops,
         NEW pc \in Pcs, Proceed(o, pc), Published(o)' => Published(o) /\ pc # "returned"
  PROVE  /\ NamesKept => NamesKept'
         /\ Alone => Alone'
<1>1. ioPc'[o] = pc /\ \A q \in Ops \ {o} : ioPc'[q] = ioPc[q]
  BY ProceedType
<1>2. \A q \in Ops : Published(q)' => Published(q)
  BY <1>1 DEF Published
<1>3. \A q \in Ops : ioPc'[q] = "returned" /\ Published(q)' => ioPc[q] = "returned"
  BY <1>1
<1>4. \A q \in Ops : PathOf(q)' = PathOf(q)
  BY DEF PathOf
<1>5. ASSUME NEW q \in Ops, NEW d, Owns(q, d) PROVE Owns(q, d)'
  BY <1>5 DEF Owns
<1>6. NamesKept => NamesKept'
  BY <1>2, <1>3, <1>4, <1>5 DEF NamesKept, Owns
<1> QED
  BY <1>2, <1>6 DEF Alone

\* Every step keeps them.
LEMMA NextNames ==
  Types /\ Synced /\ NamesWhole /\ KindSteps /\ NamesKept /\ Alone /\ [IONext]_ioVars => NamesKept' /\ Alone'
<1> SUFFICES ASSUME Types, Synced, NamesWhole, KindSteps, NamesKept, Alone, [IONext]_ioVars
             PROVE  NamesKept' /\ Alone'
  OBVIOUS
<1> USE DEF ioFiles, ioLogs, IsAt
<1>1. ASSUME NEW o \in Ops, CreateTemp(o) \/ RefuseBundle(o) \/ WriteChunk(o) \/ Fsync(o) \/ RefusePublish(o)
                              \/ UnlinkTemp(o) \/ IOFail(o) \/ Cleanup(o) \/ AppendLine(o) \/ AppendTail(o)
                              \/ SyncLog(o) \/ AppendFail(o) \/ Kill(o)
      PROVE  NamesKept' /\ Alone'
  <2>1. UNCHANGED <<ioKind, ioName, ioDurable>>
    BY <1>1 DEF CreateTemp, RefuseBundle, WriteChunk, Fsync, RefusePublish, UnlinkTemp, IOFail, Cleanup,
                AppendLine, AppendTail, SyncLog, AppendFail, Kill
  <2>2. PICK pc \in Pcs :
          /\ Proceed(o, pc)
          /\ pc \in {"unlink", "syncdir", "returned"} =>
               ioKind[o] = "append" \/ ioPc[o] = pc \/ (ioPc[o] = "unlink" /\ pc = "syncdir")
          /\ pc = "returned" => ioKind[o] = "append"
    <3>1. CASE WriteChunk(o)
      <4>1. ioPc' = ioPc /\ ioPc[o] = "write" /\ ioPc \in [Ops -> Pcs]
        BY <3>1 DEF WriteChunk, Types
      <4>2. Proceed(o, "write") /\ "write" \in Pcs
        BY <4>1 DEF Proceed, Pcs
      <4> QED
        BY <4>2
    <3>2. CASE SyncLog(o)
      BY <3>2 DEF SyncLog, KindSteps, Pcs
    <3> QED
      BY <1>1, <3>1, <3>2
         DEF CreateTemp, RefuseBundle, Fsync, RefusePublish, UnlinkTemp, IOFail, Cleanup,
             AppendLine, AppendTail, AppendFail, Kill, Pcs
  <2>3. ioPc'[o] = pc
    BY <2>2, ProceedType
  <2>4. Published(o)' => Published(o) /\ pc # "returned"
    BY <2>1, <2>2, <2>3 DEF Published
  <2> QED
    BY <2>1, <2>2, <2>4, QuietStep
<1>2. ASSUME NEW o \in Ops, Publish(o) PROVE NamesKept' /\ Alone'
  <2>1. /\ UNCHANGED ioKind /\ ioPc[o] = "publish" /\ ioKind[o] # "append" /\ o # NoOp /\ MayPublish(o)
        /\ PathOf(o) \in Paths
        /\ ioName'[PathOf(o)] = o /\ \A p \in Paths \ {PathOf(o)} : ioName'[p] = ioName[p]
        /\ ioDurable'[PathOf(o)] = ioDurable[PathOf(o)] \cup {o}
        /\ \A p \in Paths \ {PathOf(o)} : ioDurable'[p] = ioDurable[p]
        /\ ioPc'[o] \in {"unlink", "syncdir"} /\ \A q \in Ops \ {o} : ioPc'[q] = ioPc[q]
    BY <1>2, OpsAssumption DEF Publish, Proceed, KindSteps, Types, PathOf, Paths
  <2>2. \A q \in Ops : PathOf(q)' = PathOf(q) /\ PathOf(q) \in Paths
    BY <2>1 DEF PathOf, Paths
  <2>3. \A q \in Ops \ {o} : Published(q)' <=> Published(q)
    BY <2>1 DEF Published
  <2>4. ASSUME NEW q \in Ops \ {o}, Published(q), PathOf(q) = PathOf(o)
        PROVE  ioKind[o] = "replace"
    BY <2>1, <2>4 DEF MayPublish, NamesKept, Owns
  <2>5. ASSUME NEW q \in Ops, Published(q)'
        PROVE  /\ Owns(q, ioName[PathOf(q)])'
               /\ ioPc'[q] = "returned" => \A d \in ioDurable'[PathOf(q)'] : Owns(q, d)'
    <3>1. CASE q = o
      BY <2>1, <2>2, <3>1 DEF Owns
    <3>2. CASE q # o /\ PathOf(q) = PathOf(o)
      <4>1. ioKind[o] = "replace" /\ ioKind[q] # "bundle" /\ ioKind'[q] # "bundle"
        BY <2>1, <2>3, <2>4, <2>5, <3>2 DEF PathOf
      <4>2. ioPc'[q] = "returned" => \A d \in ioDurable[PathOf(q)] : d # NoOp
        BY <2>1, <2>3, <2>5, <3>2 DEF NamesKept, Owns
      <4> QED
        BY <2>1, <2>2, <3>2, <4>1, <4>2 DEF Owns
    <3>3. CASE q # o /\ PathOf(q) # PathOf(o)
      <4>1. /\ Published(q) /\ ioPc'[q] = ioPc[q] /\ PathOf(q)' = PathOf(q)
            /\ ioName'[PathOf(q)] = ioName[PathOf(q)] /\ ioDurable'[PathOf(q)] = ioDurable[PathOf(q)]
        BY <2>1, <2>2, <2>3, <2>5, <3>3
      <4> QED
        BY <2>1, <4>1 DEF NamesKept, Owns
    <3> QED
      BY <3>1, <3>2, <3>3
  <2>6. NamesKept'
    BY <2>5 DEF NamesKept
  <2>7. Alone'
    <3>1. ASSUME NEW q \in Ops \ {o}, Published(q), ioKind[q] = ioKind[o]
          PROVE  ioKind[o] \notin {"create", "bundle"}
      BY <2>4, <3>1 DEF PathOf
    <3> QED
      BY <2>1, <2>3, <3>1 DEF Alone
  <2> QED
    BY <2>6, <2>7
<1>3. ASSUME NEW o \in Ops, SyncParent(o) PROVE NamesKept' /\ Alone'
  <2>1. /\ UNCHANGED <<ioKind, ioName>> /\ ioPc[o] = "syncdir" /\ PathOf(o) \in Paths
        /\ ioDurable'[PathOf(o)] = {ioName[PathOf(o)]}
        /\ \A p \in Paths \ {PathOf(o)} : ioDurable'[p] = ioDurable[p]
        /\ ioPc'[o] = "returned" /\ \A q \in Ops \ {o} : ioPc'[q] = ioPc[q]
    BY <1>3 DEF SyncParent, Proceed, Types, PathOf, Paths
  <2>2. \A q \in Ops : PathOf(q)' = PathOf(q) /\ PathOf(q) \in Paths
    BY <2>1 DEF PathOf, Paths
  <2>3. \A q \in Ops : Published(q)' <=> Published(q)
    BY <2>1 DEF Published, KindSteps
  <2>4. \A p \in Paths : ioDurable'[p] \subseteq ioDurable[p]
    BY <2>1 DEF NamesWhole
  <2>5. ASSUME NEW q \in Ops, Published(q)'
        PROVE  /\ Owns(q, ioName[PathOf(q)])'
               /\ ioPc'[q] = "returned" => \A d \in ioDurable'[PathOf(q)'] : Owns(q, d)'
    <3>1. Owns(q, ioName[PathOf(q)])
      BY <2>3, <2>5 DEF NamesKept
    <3>2. Owns(q, ioName[PathOf(q)])'
      BY <2>1, <2>2, <3>1 DEF Owns
    <3>3. CASE q = o
      BY <2>1, <2>2, <3>1, <3>3 DEF Owns
    <3>4. CASE q # o
      BY <2>1, <2>2, <2>3, <2>4, <2>5, <3>2, <3>4 DEF NamesKept, Owns
    <3> QED
      BY <3>2, <3>3, <3>4
  <2> QED
    BY <2>1, <2>3, <2>5 DEF NamesKept, Alone
<1>4. CASE PowerLoss
  <2>1. /\ UNCHANGED ioKind
        /\ \A o \in Ops : ioPc'[o] = IF Running(o) THEN "killed" ELSE ioPc[o]
        /\ \A p \in Paths : ioName'[p] \in ioDurable[p] /\ ioDurable'[p] = {ioName'[p]}
    BY <1>4, PowerLossLeaves
  <2>2. \A q \in Ops : PathOf(q)' = PathOf(q) /\ PathOf(q) \in Paths
    BY <2>1 DEF PathOf, Paths
  <2>3. \A q \in Ops : Published(q)' => Published(q) /\ ioPc[q] = "returned"
    BY <2>1 DEF Published, Running
  <2>4. ASSUME NEW q \in Ops, Published(q)'
        PROVE  \A d \in ioDurable[PathOf(q)] : Owns(q, d)'
    BY <2>1, <2>3, <2>4 DEF NamesKept, Owns
  <2> QED
    BY <2>1, <2>2, <2>3, <2>4 DEF NamesKept, Alone
<1>5. CASE OpenFile \/ ReadChunk \/ CloseFile \/ UNCHANGED ioVars
  <2>1. UNCHANGED <<ioKind, ioPc, ioName, ioDurable>>
    BY <1>5 DEF OpenFile, ReadChunk, ReadFrom, CloseFile, ioVars
  <2> QED
    BY <2>1 DEF NamesKept, Alone, Published, Owns, PathOf
<1> QED
  BY <1>1, <1>2, <1>3, <1>4, <1>5 DEF IONext, IOStep

-----------------------------------------------------------------------------
(* The log.                                                                   *)

\* Every step keeps the lines of those that returned, and their ends.
LEMMA NextLog == Types /\ KindSteps /\ LogKept /\ [IONext]_ioVars => LogKept'
<1> SUFFICES ASSUME Types, KindSteps, LogKept, [IONext]_ioVars PROVE LogKept'
  OBVIOUS
<1> USE DEF ioFiles, ioLogs, IsAt
<1>0. Len(ioLog) \in Nat /\ ioLogged \in 0 .. Len(ioLog)
  BY DEF Types
<1>1. ASSUME NEW o \in Ops, CreateTemp(o) \/ RefuseBundle(o) \/ WriteChunk(o) \/ Fsync(o) \/ Publish(o)
                              \/ RefusePublish(o) \/ UnlinkTemp(o) \/ SyncParent(o) \/ IOFail(o) \/ Cleanup(o)
                              \/ AppendFail(o) \/ Kill(o)
      PROVE  LogKept'
  <2>1. UNCHANGED <<ioKind, ioLog, ioLogged>>
    BY <1>1 DEF CreateTemp, RefuseBundle, WriteChunk, Fsync, Publish, RefusePublish, UnlinkTemp, SyncParent,
                IOFail, Cleanup, AppendFail, Kill
  <2>2. /\ \A q \in Ops \ {o} : ioPc'[q] = ioPc[q]
        /\ ioPc'[o] # "logsync" /\ (ioPc'[o] = "returned" => ioKind[o] # "append")
    BY <1>1 DEF CreateTemp, RefuseBundle, WriteChunk, Fsync, Publish, RefusePublish, UnlinkTemp, SyncParent,
                IOFail, Cleanup, AppendFail, Kill, Proceed, Types, KindSteps
  <2> QED
    BY <2>1, <2>2 DEF LogKept
<1>2. ASSUME NEW o \in Ops, AppendLine(o) \/ AppendTail(o) PROVE LogKept'
  <2>1. PICK part \in {"line", "head", "tail"} : ioLog' = Append(ioLog, Piece(o, part))
    BY <1>2 DEF AppendLine, AppendTail
  <2>2. UNCHANGED <<ioKind, ioLogged>>
    BY <1>2 DEF AppendLine, AppendTail
  <2>3. \A q \in Ops \ {o} : ioPc'[q] = ioPc[q] /\ ioPc'[o] \in {"logsync", "tail"}
    BY <1>2 DEF AppendLine, AppendTail, Proceed, Types
  <2>4. ioPc'[o] \in {"logsync", "tail"}
    BY <1>2 DEF AppendLine, AppendTail, Proceed, Types
  <2>5. /\ Len(ioLog') = Len(ioLog) + 1 /\ ioLog'[Len(ioLog) + 1] = Piece(o, part)
        /\ \A i \in 1 .. Len(ioLog) : ioLog'[i] = ioLog[i]
    BY <2>1 DEF Types
  <2>6. ioLog'[Len(ioLog) + 1].op = o
    BY <2>5 DEF Piece
  <2> QED
    BY <1>0, <2>2, <2>3, <2>4, <2>5, <2>6 DEF LogKept
<1>3. ASSUME NEW o \in Ops, SyncLog(o) PROVE LogKept'
  <2>1. /\ UNCHANGED <<ioKind, ioLog>> /\ ioLogged' = Len(ioLog)
        /\ ioPc[o] = "logsync" /\ ioPc'[o] = "returned" /\ \A q \in Ops \ {o} : ioPc'[q] = ioPc[q]
    BY <1>3 DEF SyncLog, Proceed, Types
  <2> QED
    BY <1>0, <2>1 DEF LogKept
<1>4. CASE PowerLoss
  <2>1. /\ ioLogged <= ioLogged' /\ ioLogged \in Nat /\ ioLogged' \in Nat
        /\ \A i \in 1 .. ioLogged : ioLog'[i] = ioLog[i]
    BY <1>4, PowerLossLog
  <2>2. UNCHANGED ioKind
    BY <1>4 DEF PowerLoss
  <2>3. \A o \in Ops : ioPc'[o] # "logsync" /\ (ioPc'[o] = "returned" => ioPc[o] = "returned")
    BY <1>4 DEF PowerLoss, Running
  <2> QED
    BY <2>1, <2>2, <2>3 DEF LogKept
<1>5. CASE OpenFile \/ ReadChunk \/ CloseFile \/ UNCHANGED ioVars
  <2>1. UNCHANGED <<ioKind, ioPc, ioLog, ioLogged>>
    BY <1>5 DEF OpenFile, ReadChunk, ReadFrom, CloseFile, ioVars
  <2> QED
    BY <2>1 DEF LogKept
<1> QED
  BY <1>1, <1>2, <1>3, <1>4, <1>5 DEF IONext, IOStep

-----------------------------------------------------------------------------
(* The theorems.                                                              *)

\* Every step keeps all of the invariant.
LEMMA NextInv == Inv /\ [IONext]_ioVars => Inv'
BY NextTypes, NextWhole, NextReader, NextNames, NextLog DEF Inv

\* The invariant holds in every reachable state.
LEMMA Invariant == IOSpec => []Inv
BY InitInv, NextInv, PTL DEF IOSpec

\* Whatever fails, whoever is killed and even after a power loss, a published
\* name holds the complete data of one operation, and a reader that opened it
\* ends with all of one version (safe_io.py's _publish_bytes, _read): for any
\* operations on the name, however many.
THEOREM NothingIsTorn == IOSpec => []NeverTorn
<1>1. Inv => NeverTorn
  <2> SUFFICES ASSUME Inv PROVE NeverTorn
    OBVIOUS
  <2>1. ASSUME NEW p \in Paths, ioName[p] # NoOp PROVE ioData[ioName[p]] = Whole
    <3>1. ioName[p] \in Ops /\ ioSynced[ioName[p]] = Whole
      BY <2>1 DEF Inv, Types, NamesWhole
    <3>2. ioData[ioName[p]] \in 0 .. 2 /\ ioSynced[ioName[p]] <= ioData[ioName[p]]
      BY <3>1 DEF Inv, Types, Synced, Whole
    <3> QED
      BY <3>1, <3>2 DEF Whole
  <2>2. ioRead.at = "eof" => ioRead.chunks = Whole /\ ioRead.from = {ioRead.op}
    BY DEF Inv, ReaderWhole, Whole
  <2> QED
    BY <2>1, <2>2 DEF NeverTorn
<1> QED
  BY Invariant, <1>1, PTL

\* What returned to its caller is not undone, by no other writer and no loss of
\* power: the directory is synchronised before the return (safe_io.py's
\* _publish_bytes, atomic_create_bundle).
THEOREM ReturnedStays == IOSpec => []ReturnedIsDurable
<1>1. Inv => ReturnedIsDurable
  BY DEF Inv, NamesKept, Published, Owns, ReturnedIsDurable
<1> QED
  BY Invariant, <1>1, PTL

\* Of all exclusive creations of a file, or of a bundle, at most one returns
\* (safe_io.py's os.link, and the renaming of a directory).
THEOREM OneIsCreated == IOSpec => []OneCreator
<1>1. Inv => OneCreator
  BY DEF Inv, Alone, Published, OneCreator
<1> QED
  BY Invariant, <1>1, PTL

\* When any record of a log is visible, so is every record whose append
\* returned, however the other writes were cut short (safe_io.py's append_text,
\* jsonl_payloads).
THEOREM LogIsWhole == IOSpec => []LogAllOrNothing
<1>1. Inv => LogAllOrNothing
  <2> SUFFICES ASSUME Inv, Payloads # {}, NEW o \in Ops, ioKind[o] = "append", ioPc[o] = "returned"
               PROVE  o \in Payloads
    BY DEF LogAllOrNothing
  <2>1. Payloads = {ioLog[i].op : i \in DOMAIN ioLog}
    BY DEF Payloads
  <2>2. PICK i \in 1 .. ioLogged : ioLog[i].op = o
    BY DEF Inv, LogKept
  <2>3. i \in DOMAIN ioLog
    BY <2>2 DEF Inv, Types
  <2> QED
    BY <2>1, <2>2, <2>3
<1> QED
  BY Invariant, <1>1, PTL

-----------------------------------------------------------------------------
(* The refinement.  Nothing that has a name is torn, so what PublishedFiles   *)
(* sees of the files are the names as they are; and of an operation it sees   *)
(* its phase.                                                                 *)

Viewed == IF ioRead.at = "idle" THEN NoOp ELSE ioRead.op
AsSeen == FileNow = ioName /\ AfterNow = ioDurable /\ ViewNow = Viewed

\* Under the invariant the mapping shows no torn version.
LEMMA InvSeen == Inv => AsSeen
<1> SUFFICES ASSUME Inv PROVE AsSeen
  OBVIOUS
<1>1. ASSUME NEW p \in Paths, NEW d \in ioDurable[p]
      PROVE  Version(d, ioSynced) = d /\ Version(d, ioData) = d
  <2>1. CASE d = NoOp
    BY <2>1 DEF Version
  <2>2. CASE d # NoOp
    <3>1. d \in Ops /\ ioSynced[d] = Whole
      BY <1>1, <2>2 DEF Inv, Types, NamesWhole
    <3>2. ioData[d] = Whole
      BY <3>1 DEF Inv, Types, Synced, Whole
    <3> QED
      BY <3>1, <3>2 DEF Version
  <2> QED
    BY <2>1, <2>2
<1>2. FileNow = ioName
  <2>1. \A p \in Paths : Version(ioName[p], ioData) = ioName[p]
    BY <1>1 DEF Inv, NamesWhole
  <2> QED
    BY <2>1 DEF FileNow, Inv, Types
<1>3. AfterNow = ioDurable
  <2>1. \A p \in Paths : {Version(d, ioSynced) : d \in ioDurable[p]} = ioDurable[p]
    BY <1>1
  <2> QED
    BY <2>1 DEF AfterNow, Inv, Types
<1>4. ViewNow = Viewed
  <2>1. ioRead.at = "eof" => ioRead.chunks = Whole /\ ioRead.from = {ioRead.op}
    BY DEF Inv, ReaderWhole, Whole
  <2> QED
    BY <2>1 DEF ViewNow, Viewed
<1> QED
  BY <1>2, <1>3, <1>4 DEF AsSeen

\* The phase of an operation follows its program counter.
LEMMA Phases ==
  ASSUME NEW o \in Ops
  PROVE  /\ ioKind[o] = "append" => PhaseOf(o) = "idle"
         /\ ioKind[o] # "append" =>
              PhaseOf(o) = IF ioPc[o] = "idle" THEN "idle"
                           ELSE IF ioPc[o] \in {"write", "publish"} THEN "open"
                           ELSE IF ioPc[o] \in {"unlink", "syncdir"} THEN "published"
                           ELSE IF ioPc[o] = "returned" THEN "returned" ELSE "failed"
BY DEF PhaseOf

\* A step of one operation changes no other phase.
LEMMA PhaseStep ==
  ASSUME Types, UNCHANGED ioKind, NEW o \in Ops, NEW pc, Proceed(o, pc)
  PROVE  /\ PhaseNow[o] = PhaseOf(o)
         /\ PhaseNow' = [PhaseNow EXCEPT ![o] = PhaseOf(o)']
         /\ ioPc'[o] = pc
         /\ PhaseOf(o)' = PhaseOf(o) => PhaseNow' = PhaseNow
<1>1. ioPc'[o] = pc /\ \A q \in Ops \ {o} : ioPc'[q] = ioPc[q]
  BY DEF Proceed, Types
<1>2. \A q \in Ops \ {o} : PhaseOf(q)' = PhaseOf(q)
  BY <1>1 DEF PhaseOf
<1> QED
  BY <1>1, <1>2 DEF PhaseNow

\* A step that leaves the names and the reader alone fails, begins, or is not
\* seen.
LEMMA UnseenStep ==
  ASSUME Types, AsSeen, AsSeen', UNCHANGED <<ioKind, ioName, ioDurable, ioRead>>, NEW o \in Ops,
         \/ PhaseNow' = PhaseNow
         \/ /\ ioKind[o] # "append"
            /\ \/ PhaseNow[o] = "idle" /\ PhaseNow' = [PhaseNow EXCEPT ![o] = "open"]
               \/ /\ PhaseNow[o] \in {"idle", "open", "published"}
                  /\ PhaseNow' = [PhaseNow EXCEPT ![o] = "failed"]
  PROVE  [Outside!Next]_(Outside!vars)
<1>1. UNCHANGED <<ioKind, FileNow, AfterNow, ViewNow>>
  BY DEF AsSeen, Viewed
<1>2. CASE PhaseNow' = PhaseNow
  BY <1>1, <1>2 DEF Outside!vars
<1>3. CASE PhaseNow' # PhaseNow
  <2>1. o \in Outside!Publishers
    BY <1>3 DEF Outside!Publishers
  <2>2. Outside!Begin(o) \/ Outside!Fail(o)
    BY <1>1, <1>3 DEF Outside!Begin, Outside!Fail, Outside!Advance
  <2> QED
    BY <2>1, <2>2 DEF Outside!Next
<1> QED
  BY <1>2, <1>3

\* Every step is a step of PublishedFiles or leaves it where it is.
LEMMA NextSeen == Inv /\ Inv' /\ [IONext]_ioVars => [Outside!Next]_(Outside!vars)
<1> SUFFICES ASSUME Inv, Inv', [IONext]_ioVars PROVE [Outside!Next]_(Outside!vars)
  OBVIOUS
<1>0. Types /\ KindSteps /\ AsSeen /\ AsSeen'
  <2>1. Inv' => AsSeen'
    BY InvSeen, PTL
  <2> QED
    BY <2>1, InvSeen DEF Inv
<1> USE DEF ioFiles, ioLogs, IsAt
<1>1. ASSUME NEW o \in Ops, CreateTemp(o) \/ RefuseBundle(o) \/ Fsync(o) \/ RefusePublish(o)
                              \/ UnlinkTemp(o) \/ IOFail(o) \/ Cleanup(o) \/ AppendLine(o) \/ AppendTail(o)
                              \/ SyncLog(o) \/ AppendFail(o) \/ Kill(o)
      PROVE  [Outside!Next]_(Outside!vars)
  <2>1. UNCHANGED <<ioKind, ioName, ioDurable, ioRead>>
    BY <1>1 DEF CreateTemp, RefuseBundle, Fsync, RefusePublish, UnlinkTemp, IOFail, Cleanup,
                AppendLine, AppendTail, SyncLog, AppendFail, Kill
  <2>2. PICK pc \in Pcs :
          /\ Proceed(o, pc)
          /\ \/ ioKind[o] = "append"
             \/ ioPc[o] = "idle" /\ pc \in {"write", "raised"}
             \/ ioPc[o] = "write" /\ pc = "publish"
             \/ ioPc[o] = "unlink" /\ pc = "syncdir"
             \/ ioPc[o] \in {"write", "publish", "unlink", "syncdir"} /\ pc \in {"cleanup", "killed"}
             \/ ioPc[o] = "cleanup" /\ pc \in {"raised", "killed"}
    BY <1>0, <1>1 DEF CreateTemp, RefuseBundle, Fsync, RefusePublish, UnlinkTemp, IOFail, Cleanup,
                      AppendLine, AppendTail, SyncLog, AppendFail, Kill, Running, KindSteps, Types, Pcs
  <2>3. /\ PhaseNow[o] = PhaseOf(o) /\ PhaseNow' = [PhaseNow EXCEPT ![o] = PhaseOf(o)']
        /\ ioPc'[o] = pc /\ (PhaseOf(o)' = PhaseOf(o) => PhaseNow' = PhaseNow)
    BY <1>0, <2>1, <2>2, PhaseStep
  <2>4. \/ PhaseOf(o)' = PhaseOf(o)
        \/ /\ ioKind[o] # "append"
           /\ \/ PhaseOf(o) = "idle" /\ PhaseOf(o)' = "open"
              \/ PhaseOf(o) \in {"idle", "open", "published"} /\ PhaseOf(o)' = "failed"
    BY <2>1, <2>2, <2>3 DEF PhaseOf
  <2> QED
    BY <1>0, <2>1, <2>3, <2>4, UnseenStep
<1>2. ASSUME NEW o \in Ops, WriteChunk(o) PROVE [Outside!Next]_(Outside!vars)
  <2>1. UNCHANGED <<ioKind, ioPc, ioName, ioDurable, ioRead>>
    BY <1>2 DEF WriteChunk
  <2>2. PhaseNow' = PhaseNow
    BY <2>1 DEF PhaseNow, PhaseOf
  <2> QED
    BY <1>0, <2>1, <2>2, UnseenStep
<1>3. ASSUME NEW o \in Ops, Publish(o) PROVE [Outside!Next]_(Outside!vars)
  <2>1. /\ UNCHANGED <<ioKind, ioRead>> /\ ioPc[o] = "publish" /\ ioKind[o] # "append" /\ MayPublish(o)
        /\ ioName' = [ioName EXCEPT ![PathOf(o)] = o]
        /\ ioDurable' = [ioDurable EXCEPT ![PathOf(o)] = @ \cup {o}]
    BY <1>0, <1>3 DEF Publish, KindSteps
  <2>2. PICK pc \in {"unlink", "syncdir"} : Proceed(o, pc)
    BY <1>3 DEF Publish
  <2>3. PhaseNow[o] = PhaseOf(o) /\ PhaseNow' = [PhaseNow EXCEPT ![o] = PhaseOf(o)'] /\ ioPc'[o] = pc
    BY <1>0, <2>1, <2>2, PhaseStep
  <2>4. PhaseOf(o) = "open" /\ PhaseOf(o)' = "published"
    BY <2>1, <2>2, <2>3 DEF PhaseOf
  <2>5. Outside!NameOf(o) = PathOf(o)
    BY DEF PathOf, Outside!NameOf
  <2>6. ViewNow' = ViewNow
    BY <1>0, <2>1 DEF AsSeen, Viewed
  <2>7. Outside!Publish(o)
    BY <1>0, <2>1, <2>3, <2>4, <2>5, <2>6 DEF AsSeen, MayPublish, Outside!Publish, Outside!Advance
  <2> QED
    BY <2>1, <2>7 DEF Outside!Next, Outside!Publishers
<1>4. ASSUME NEW o \in Ops, SyncParent(o) PROVE [Outside!Next]_(Outside!vars)
  <2>1. /\ UNCHANGED <<ioKind, ioName, ioRead>> /\ ioPc[o] = "syncdir" /\ ioKind[o] # "append"
        /\ ioDurable' = [ioDurable EXCEPT ![PathOf(o)] = {ioName[PathOf(o)]}]
        /\ Proceed(o, "returned")
    BY <1>0, <1>4 DEF SyncParent, KindSteps
  <2>2. PhaseNow[o] = PhaseOf(o) /\ PhaseNow' = [PhaseNow EXCEPT ![o] = PhaseOf(o)'] /\ ioPc'[o] = "returned"
    BY <1>0, <2>1, PhaseStep
  <2>3. PhaseOf(o) = "published" /\ PhaseOf(o)' = "returned"
    BY <2>1, <2>2 DEF PhaseOf
  <2>4. Outside!NameOf(o) = PathOf(o)
    BY DEF PathOf, Outside!NameOf
  <2>5. FileNow' = FileNow /\ ViewNow' = ViewNow
    BY <1>0, <2>1 DEF AsSeen, Viewed
  <2>6. Outside!Return(o)
    BY <1>0, <2>1, <2>2, <2>3, <2>4, <2>5 DEF AsSeen, Outside!Return, Outside!Advance
  <2> QED
    BY <2>1, <2>6 DEF Outside!Next, Outside!Publishers
<1>5. CASE OpenFile \/ ReadChunk \/ CloseFile
  <2>1. UNCHANGED <<ioKind, ioPc, ioName, ioDurable>> /\ ioRead \in Readers
    BY <1>0, <1>5 DEF OpenFile, ReadChunk, ReadFrom, CloseFile, Types
  <2>2. UNCHANGED <<ioKind, PhaseNow, FileNow, AfterNow>>
    BY <1>0, <2>1 DEF AsSeen, PhaseNow, PhaseOf
  <2>3. CASE OpenFile
    <3>1. ViewNow = NoOp /\ FileNow["file"] # NoOp /\ ViewNow' = FileNow["file"]
      BY <1>0, <2>3 DEF OpenFile, AsSeen, Viewed, NoReader
    <3> QED
      BY <2>2, <3>1 DEF Outside!Next, Outside!Open
  <2>4. CASE ReadChunk
    <3>1. ioRead'.op = ioRead.op /\ ioRead.at = "reading" /\ ioRead'.at \in {"reading", "eof"}
      BY <2>1, <2>4 DEF ReadChunk, ReadFrom, Readers
    <3>2. ViewNow' = ViewNow
      BY <1>0, <3>1 DEF AsSeen, Viewed
    <3> QED
      BY <2>2, <3>2 DEF Outside!vars
  <2>5. CASE CloseFile
    <3>1. ioRead.op \in Ops /\ ioRead.op # NoOp
      BY <2>5, OpsAssumption DEF CloseFile, Inv, ReaderWhole
    <3>2. ViewNow # NoOp /\ ViewNow' = NoOp
      BY <1>0, <2>5, <3>1 DEF CloseFile, AsSeen, Viewed, NoReader
    <3> QED
      BY <2>2, <3>2 DEF Outside!Next, Outside!Close
  <2> QED
    BY <1>5, <2>3, <2>4, <2>5
<1>6. CASE PowerLoss
  <2>1. /\ UNCHANGED ioKind /\ ioRead' = NoReader
        /\ \A o \in Ops : ioPc'[o] = IF Running(o) THEN "killed" ELSE ioPc[o]
        /\ ioName' \in [Paths -> Ops \cup {NoOp}]
        /\ \A p \in Paths : ioName'[p] \in ioDurable[p] /\ ioDurable'[p] = {ioName'[p]}
        /\ ioDurable' \in [Paths -> SUBSET (Ops \cup {NoOp})]
    BY <1>6, PowerLossLeaves DEF Inv
  <2>2. PhaseNow' = [o \in Ops |-> IF PhaseNow[o] \in {"open", "published"} THEN "failed" ELSE PhaseNow[o]]
    <3>1. ASSUME NEW o \in Ops
          PROVE  PhaseOf(o)' = IF PhaseOf(o) \in {"open", "published"} THEN "failed" ELSE PhaseOf(o)
      BY <1>0, <2>1 DEF PhaseOf, Running, Types, Pcs
    <3> QED
      BY <3>1 DEF PhaseNow
  <2>3. ViewNow' = NoOp
    BY <1>0, <2>1 DEF AsSeen, Viewed, NoReader
  <2>4. /\ \A p \in Paths : FileNow'[p] \in AfterNow[p]
        /\ AfterNow' = [p \in Paths |-> {FileNow'[p]}]
    BY <1>0, <2>1 DEF AsSeen
  <2> QED
    BY <2>1, <2>2, <2>3, <2>4 DEF Outside!Next, Outside!PowerLoss, Outside!Names, Paths
<1>7. CASE UNCHANGED ioVars
  BY <1>7 DEF ioVars, Outside!vars, PhaseNow, PhaseOf, FileNow, AfterNow, ViewNow, Version
<1> QED
  BY <1>1, <1>2, <1>3, <1>4, <1>5, <1>6, <1>7 DEF IONext, IOStep

\* The initial states are those of PublishedFiles.
LEMMA InitSeen == IOInit => Outside!Init
<1> SUFFICES ASSUME IOInit PROVE Outside!Init
  OBVIOUS
<1>1. AsSeen
  BY InitInv, InvSeen
<1>2. ioKind \in [Ops -> Outside!Kinds]
  BY OpsAssumption DEF IOInit, Outside!Kinds
<1>3. PhaseNow = [o \in Ops |-> "idle"]
  BY DEF IOInit, PhaseNow, PhaseOf
<1> QED
  BY <1>1, <1>2, <1>3 DEF IOInit, AsSeen, Viewed, NoReader, Outside!Init, Outside!Names, Paths

\* To everybody but the operation itself a publication is one step, whatever
\* calls fail, processes die and power is lost in between: SafeIO implements
\* PublishedFiles (safe_io.py), for any number of operations on the two names.
THEOREM PublicationIsOneStep == IOSpec => FilesPublished
<1>1. IOInit /\ [][IONext]_ioVars => []Inv
  BY InitInv, NextInv, PTL
<1> QED
  BY <1>1, InitSeen, NextSeen, PTL DEF IOSpec, FilesPublished, Outside!Spec
==============================================================================
