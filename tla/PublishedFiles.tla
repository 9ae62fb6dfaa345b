---------------------------- MODULE PublishedFiles ----------------------------
(***************************************************************************)
(* What the file primitives promise, seen from outside: a name changes in  *)
(* one step from one complete version to another, an operation that has    *)
(* failed changes nothing any more, and what has returned is not undone by *)
(* a loss of power.  There are no chunks, no temporary names and no system *)
(* calls, and a reader gets the version that the name had when it opened   *)
(* it.                                                                     *)
(***************************************************************************)
CONSTANTS
  Ops,   \* the operations; each publishes a version named after it
  NoOp   \* the version of a name that does not exist

Kinds == {"replace", "create", "bundle", "append"}
Names == {"file", "bundle"}

VARIABLES
  kind,   \* what each operation is
  phase,  \* idle, open, published, returned or failed
  file,   \* file[n]: the version the name n has
  after,  \* after[n]: the versions it may have after a power loss
  view    \* the version an open reader will get

vars == <<kind, phase, file, after, view>>

NameOf(o) == IF kind[o] = "bundle" THEN "bundle" ELSE "file"

Init ==
  /\ kind \in [Ops -> Kinds]
  /\ phase = [o \in Ops |-> "idle"]
  /\ file = [n \in Names |-> NoOp]
  /\ after = [n \in Names |-> {NoOp}]
  /\ view = NoOp

Advance(o, from, to) == phase[o] \in from /\ phase' = [phase EXCEPT ![o] = to]

Begin(o) ==
  /\ Advance(o, {"idle"}, "open")
  /\ UNCHANGED <<kind, file, after, view>>

\* Only a replacement publishes under a name that exists.
Publish(o) ==
  /\ Advance(o, {"open"}, "published")
  /\ kind[o] = "replace" \/ file[NameOf(o)] = NoOp
  /\ file' = [file EXCEPT ![NameOf(o)] = o]
  /\ after' = [after EXCEPT ![NameOf(o)] = @ \cup {o}]
  /\ UNCHANGED <<kind, view>>

\* From now on the present version is there for good, or a later one.
Return(o) ==
  /\ Advance(o, {"published"}, "returned")
  /\ after' = [after EXCEPT ![NameOf(o)] = {file[NameOf(o)]}]
  /\ UNCHANGED <<kind, file, view>>

\* A failure takes nothing back.
Fail(o) ==
  /\ Advance(o, {"idle", "open", "published"}, "failed")
  /\ UNCHANGED <<kind, file, after, view>>

Open ==
  /\ view = NoOp /\ file["file"] # NoOp
  /\ view' = file["file"]
  /\ UNCHANGED <<kind, phase, file, after>>

Close ==
  /\ view # NoOp
  /\ view' = NoOp
  /\ UNCHANGED <<kind, phase, file, after>>

\* Whatever is under way ends.
PowerLoss ==
  /\ phase' = [o \in Ops |-> IF phase[o] \in {"open", "published"} THEN "failed" ELSE phase[o]]
  /\ \A n \in Names : file'[n] \in after[n]
  /\ after' = [n \in Names |-> {file'[n]}]
  /\ view' = NoOp
  /\ UNCHANGED kind

\* An append publishes nothing.
Publishers == {o \in Ops : kind[o] # "append"}

Next == (\E o \in Publishers : Begin(o) \/ Publish(o) \/ Return(o) \/ Fail(o)) \/ Open \/ Close \/ PowerLoss

Spec == Init /\ [][Next]_vars
=============================================================================
