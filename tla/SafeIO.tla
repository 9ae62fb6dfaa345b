-------------------------------- MODULE SafeIO --------------------------------
(***************************************************************************)
(* The file primitives every command writes with (safe_io.py): publication *)
(* by replacement, exclusive creation, creation of a directory bundle, and *)
(* appending to a JSON-lines log.  Several processes write the same name;  *)
(* any system call may fail, a process may be killed between two of them,  *)
(* and the machine may lose power.                                         *)
(*                                                                         *)
(* An operation writes its data in two chunks (two parts of a file, two    *)
(* files of a bundle) under a temporary name of its own, so the inode of an*)
(* operation is named after it.  Power loss keeps what fsync made durable  *)
(* and any part of the rest.                                               *)
(***************************************************************************)
EXTENDS Naturals, Sequences, FiniteSets, SequencesExt

CONSTANTS
  Ops,        \* the operations
  IOWork,     \* the assignments of kinds to operations to consider
  NoOp        \* the content of a name that does not exist

ASSUME OpsAssumption ==
  /\ NoOp \notin Ops
  /\ IOWork \subseteq [Ops -> {"replace", "create", "bundle", "append"}]

Whole == 2    \* chunks of a complete file or bundle
Paths == {"file", "bundle"}

VARIABLES
  ioKind,    \* what each operation is
  ioPc,      \* its next system call
  ioData,    \* chunks in its inode
  ioSynced,  \* chunks of them that survive a power loss
  ioTemp,    \* the operations whose temporary name exists
  ioName,    \* ioName[p]: the operation whose inode has the name p
  ioDurable, \* ioDurable[p]: what p may name after a power loss
  ioLog,     \* the pieces of lines in the log, in file order
  ioLogged,  \* the number of them that survive a power loss
  ioRead     \* an open descriptor: the inode and the chunks read

ioVars == <<ioKind, ioPc, ioData, ioSynced, ioTemp, ioName, ioDurable, ioLog, ioLogged, ioRead>>
ioFiles == <<ioData, ioSynced, ioTemp, ioName, ioDurable>>
ioLogs == <<ioLog, ioLogged>>

PathOf(o) == IF ioKind[o] = "bundle" THEN "bundle" ELSE "file"
NoReader  == [op |-> NoOp, chunks |-> 0, from |-> {}, at |-> "idle"]

IOInit ==
  /\ ioKind \in IOWork
  /\ ioPc = [o \in Ops |-> "idle"]
  /\ ioData = [o \in Ops |-> 0]
  /\ ioSynced = [o \in Ops |-> 0]
  /\ ioTemp = {}
  /\ ioName = [p \in Paths |-> NoOp]
  /\ ioDurable = [p \in Paths |-> {NoOp}]
  /\ ioLog = <<>>
  /\ ioLogged = 0
  /\ ioRead = NoReader

IsAt(o, pc) == ioPc[o] = pc
Proceed(o, pc) == ioPc' = [ioPc EXCEPT ![o] = pc]

-----------------------------------------------------------------------------
(* _publish_bytes and atomic_create_bundle                                 *)

\* A bundle is refused at once when the name exists; then the temporary file
\* or directory is created exclusively.
CreateTemp(o) ==
  /\ IsAt(o, "idle") /\ ioKind[o] # "append"
  /\ ioKind[o] = "bundle" => ioName["bundle"] = NoOp
  /\ ioTemp' = ioTemp \cup {o}
  /\ Proceed(o, "write")
  /\ UNCHANGED <<ioKind, ioData, ioSynced, ioName, ioDurable, ioLogs, ioRead>>

RefuseBundle(o) ==
  /\ IsAt(o, "idle") /\ ioKind[o] = "bundle" /\ ioName["bundle"] # NoOp
  /\ Proceed(o, "raised")
  /\ UNCHANGED <<ioKind, ioFiles, ioLogs, ioRead>>

\* _write_all; each file of a bundle is synchronised as soon as it is written.
WriteChunk(o) ==
  /\ IsAt(o, "write") /\ ioData[o] < Whole
  /\ ioData' = [ioData EXCEPT ![o] = @ + 1]
  /\ ioSynced' = IF ioKind[o] = "bundle" THEN [ioSynced EXCEPT ![o] = @ + 1] ELSE ioSynced
  /\ UNCHANGED <<ioKind, ioPc, ioTemp, ioName, ioDurable, ioLogs, ioRead>>

\* Mutant: the content is published before it is on disk.
SkipFsync(o) ==
  /\ IsAt(o, "write") /\ ioData[o] = Whole
  /\ Proceed(o, "publish")
  /\ UNCHANGED <<ioKind, ioFiles, ioLogs, ioRead>>

Fsync(o) ==
  /\ IsAt(o, "write") /\ ioData[o] = Whole
  /\ ioSynced' = [ioSynced EXCEPT ![o] = Whole]
  /\ Proceed(o, "publish")
  /\ UNCHANGED <<ioKind, ioData, ioTemp, ioName, ioDurable, ioLogs, ioRead>>

\* Mutant: exclusive creation publishes by renaming, too.
MayPublishAlways(o) == TRUE

\* os.link refuses an existing name, and so does renaming a directory to one
\* that is not empty.
MayPublish(o) == ioKind[o] = "replace" \/ ioName[PathOf(o)] = NoOp

\* os.replace moves the temporary name; os.link adds a second one.
Publish(o) ==
  /\ IsAt(o, "publish") /\ MayPublish(o)
  /\ ioName' = [ioName EXCEPT ![PathOf(o)] = o]
  /\ ioDurable' = [ioDurable EXCEPT ![PathOf(o)] = @ \cup {o}]
  /\ ioTemp' = IF ioKind[o] = "create" THEN ioTemp ELSE ioTemp \ {o}
  /\ Proceed(o, IF ioKind[o] = "create" THEN "unlink" ELSE "syncdir")
  /\ UNCHANGED <<ioKind, ioData, ioSynced, ioLogs, ioRead>>

RefusePublish(o) ==
  /\ IsAt(o, "publish") /\ ~ MayPublish(o)
  /\ Proceed(o, "cleanup")
  /\ UNCHANGED <<ioKind, ioFiles, ioLogs, ioRead>>

UnlinkTemp(o) ==
  /\ IsAt(o, "unlink")
  /\ ioTemp' = ioTemp \ {o}
  /\ Proceed(o, "syncdir")
  /\ UNCHANGED <<ioKind, ioData, ioSynced, ioName, ioDurable, ioLogs, ioRead>>

\* Mutant: the directory is not synchronised.
SkipSyncParent(o) ==
  /\ IsAt(o, "syncdir")
  /\ Proceed(o, "returned")
  /\ UNCHANGED <<ioKind, ioFiles, ioLogs, ioRead>>

\* os.fsync(parent): the present name is durable, whoever published it.
SyncParent(o) ==
  /\ IsAt(o, "syncdir")
  /\ ioDurable' = [ioDurable EXCEPT ![PathOf(o)] = {ioName[PathOf(o)]}]
  /\ Proceed(o, "returned")
  /\ UNCHANGED <<ioKind, ioData, ioSynced, ioTemp, ioName, ioLogs, ioRead>>

\* Any system call may raise instead.
IOFail(o) ==
  /\ ioPc[o] \in {"write", "publish", "unlink", "syncdir"}
  /\ Proceed(o, "cleanup")
  /\ UNCHANGED <<ioKind, ioFiles, ioLogs, ioRead>>

\* The finally clause.
Cleanup(o) ==
  /\ IsAt(o, "cleanup")
  /\ ioTemp' = ioTemp \ {o}
  /\ Proceed(o, "raised")
  /\ UNCHANGED <<ioKind, ioData, ioSynced, ioName, ioDurable, ioLogs, ioRead>>

-----------------------------------------------------------------------------
(* append_text and jsonl_payloads                                          *)

Piece(o, part) == [op |-> o, part |-> part]

\* One os.write takes the whole line, or a part of it only.
AppendLine(o) ==
  /\ IsAt(o, "idle") /\ ioKind[o] = "append"
  /\ \/ ioLog' = Append(ioLog, Piece(o, "line")) /\ Proceed(o, "logsync")
     \/ ioLog' = Append(ioLog, Piece(o, "head")) /\ Proceed(o, "tail")
  /\ UNCHANGED <<ioKind, ioFiles, ioLogged, ioRead>>

AppendTail(o) ==
  /\ IsAt(o, "tail")
  /\ ioLog' = Append(ioLog, Piece(o, "tail"))
  /\ Proceed(o, "logsync")
  /\ UNCHANGED <<ioKind, ioFiles, ioLogged, ioRead>>

SyncLog(o) ==
  /\ IsAt(o, "logsync")
  /\ ioLogged' = Len(ioLog)
  /\ Proceed(o, "returned")
  /\ UNCHANGED <<ioKind, ioFiles, ioLog, ioRead>>

AppendFail(o) ==
  /\ ioPc[o] \in {"tail", "logsync"}
  /\ Proceed(o, "raised")
  /\ UNCHANGED <<ioKind, ioFiles, ioLogs, ioRead>>

\* A head is parsed only together with the tail that follows it at once.
TornAt(i) ==
  \/ ioLog[i].part = "head" /\ (i = Len(ioLog) \/ ioLog[i + 1] # Piece(ioLog[i].op, "tail"))
  \/ ioLog[i].part = "tail" /\ (i = 1 \/ ioLog[i - 1] # Piece(ioLog[i].op, "head"))

\* A head that its tail does not follow spoils the line that follows instead.
BadLine(i) == TornAt(i) \/ (i > 1 /\ ioLog[i - 1].part = "head" /\ TornAt(i - 1))

RecordAt(i) == ioLog[i].part \in {"line", "tail"} /\ ~ BadLine(i)

\* Mutant: a reader skips the lines it cannot parse.
SkipBadLines == {ioLog[i].op : i \in {j \in DOMAIN ioLog : RecordAt(j)}}

\* jsonl_payloads: one line that is not JSON and the log counts as empty.
Payloads ==
  IF \E i \in DOMAIN ioLog : BadLine(i) THEN {} ELSE {ioLog[i].op : i \in DOMAIN ioLog}

-----------------------------------------------------------------------------
(* _read: open once, then read through the descriptor                      *)

OpenFile ==
  /\ ioRead.at = "idle" /\ ioName["file"] # NoOp
  /\ ioRead' = [NoReader EXCEPT !.op = ioName["file"], !.at = "reading"]
  /\ UNCHANGED <<ioKind, ioPc, ioFiles, ioLogs>>

ReadFrom(o) ==
  /\ ioRead.at = "reading"
  /\ ioRead' = IF ioRead.chunks < ioData[o]
                 THEN [ioRead EXCEPT !.chunks = @ + 1, !.from = @ \cup {o}]
                 ELSE [ioRead EXCEPT !.at = "eof"]
  /\ UNCHANGED <<ioKind, ioPc, ioFiles, ioLogs>>

ReadChunk == ReadFrom(ioRead.op)

CloseFile ==
  /\ ioRead.at = "eof"
  /\ ioRead' = NoReader
  /\ UNCHANGED <<ioKind, ioPc, ioFiles, ioLogs>>

-----------------------------------------------------------------------------
(* Faults                                                                  *)

Running(o) == ioPc[o] \notin {"idle", "returned", "raised", "killed"}

\* A killed process runs no finally clause.
Kill(o) ==
  /\ Running(o)
  /\ Proceed(o, "killed")
  /\ UNCHANGED <<ioKind, ioFiles, ioLogs, ioRead>>

PowerLoss ==
  /\ \E o \in Ops : ioPc[o] # "idle"
  /\ ioPc' = [o \in Ops |-> IF Running(o) THEN "killed" ELSE ioPc[o]]
  /\ \E name \in [Paths -> Ops \cup {NoOp}] :
       /\ \A p \in Paths : name[p] \in ioDurable[p]
       /\ ioName' = name
       /\ ioDurable' = [p \in Paths |-> {name[p]}]
  /\ \E lost \in SUBSET {o \in Ops : ioSynced[o] < ioData[o]} :
       ioData' = [o \in Ops |-> IF o \in lost THEN ioSynced[o] ELSE ioData[o]]
  /\ ioSynced' = ioData'
  /\ \E kept \in ioLogged .. Len(ioLog) :
       /\ ioLog' = SubSeq(ioLog, 1, kept)
       /\ ioLogged' = kept
  /\ ioRead' = NoReader
  /\ UNCHANGED <<ioKind, ioTemp>>

IOStep(o) ==
  \/ CreateTemp(o) \/ RefuseBundle(o) \/ WriteChunk(o) \/ Fsync(o)
  \/ Publish(o) \/ RefusePublish(o) \/ UnlinkTemp(o) \/ SyncParent(o)
  \/ IOFail(o) \/ Cleanup(o) \/ AppendLine(o) \/ AppendTail(o) \/ SyncLog(o) \/ AppendFail(o)
  \/ Kill(o)

IONext == (\E o \in Ops : IOStep(o)) \/ OpenFile \/ ReadChunk \/ CloseFile \/ PowerLoss

IOSpec == IOInit /\ [][IONext]_ioVars

-----------------------------------------------------------------------------
\* Whatever fails, whoever is killed and even after a power loss, a published
\* name holds the complete data of one operation, never a part of it; and a
\* reader ends with all of one version, although the name is replaced while it
\* reads.
NeverTorn ==
  /\ \A p \in Paths : ioName[p] # NoOp => ioData[ioName[p]] = Whole
  /\ ioRead.at = "eof" => ioRead.chunks = Whole /\ ioRead.from = {ioRead.op}

\* An operation that returned to its caller is not undone: its name exists for
\* ever after, with its data or with those of a later replacement.
ReturnedIsDurable ==
  \A o \in Ops : ioPc[o] = "returned" /\ ioKind[o] # "append" =>
    \A d \in ioDurable[PathOf(o)] : d # NoOp /\ (ioKind[o] = "bundle" => d = o)

\* Of all exclusive creations of one name at most one returns, and what it
\* published is replaced by nobody but a replacement.  Implied by what
\* FilesPublished says, below.
OneCreator ==
  \A o, q \in Ops :
    ioPc[o] = "returned" /\ ioPc[q] = "returned" /\ ioKind[o] = ioKind[q]
      /\ ioKind[o] \in {"create", "bundle"} => o = q

\* A log is read as a whole or not at all: when any record is visible, so is
\* every record whose append returned, however the others were cut short.
LogAllOrNothing ==
  Payloads # {} => {o \in Ops : ioKind[o] = "append" /\ ioPc[o] = "returned"} \subseteq Payloads

-----------------------------------------------------------------------------
(* Seen from outside, the primitives do what PublishedFiles says.          *)

\* An inode of which only a part is there is no operation's version.
Version(d, chunks) == IF d = NoOp \/ chunks[d] = Whole THEN d ELSE "torn"

PhaseOf(o) ==
  CASE ioKind[o] = "append" \/ ioPc[o] = "idle" -> "idle"
    [] ioKind[o] # "append" /\ ioPc[o] \in {"write", "publish"} -> "open"
    [] ioKind[o] # "append" /\ ioPc[o] \in {"unlink", "syncdir"} -> "published"
    [] ioKind[o] # "append" /\ ioPc[o] = "returned" -> "returned"
    [] OTHER -> "failed"

PhaseNow == [o \in Ops |-> PhaseOf(o)]
FileNow  == [p \in Paths |-> Version(ioName[p], ioData)]
AfterNow == [p \in Paths |-> {Version(d, ioSynced) : d \in ioDurable[p]}]
ViewNow  ==
  IF ioRead.at = "idle" THEN NoOp
  ELSE IF ioRead.at = "eof" /\ (ioRead.chunks # Whole \/ ioRead.from # {ioRead.op}) THEN "torn"
  ELSE ioRead.op

Outside == INSTANCE PublishedFiles WITH
  kind <- ioKind, phase <- PhaseNow, file <- FileNow, after <- AfterNow, view <- ViewNow

\* Whatever calls fail, processes die and power is lost between the system
\* calls, to everybody else a publication is one step: the name has the old
\* version or the new one, a failed operation does not touch it again, an
\* exclusive creation never takes a name that exists, and a return lasts.
FilesPublished == Outside!Spec
=============================================================================
