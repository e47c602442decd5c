-------------------------- MODULE ArtworkFileStore --------------------------
(***************************************************************************)
(* The Bridge's artwork directory (src/bridge/src/artwork-file-store.ts).   *)
(* Every operation is appended to one promise chain (#enqueue), so the      *)
(* operations run one at a time in call order.  An operation first takes    *)
(* its effect on the directory (a Perform action) and settles its promise   *)
(* in a later step, when its caller resumes; calls made in between only     *)
(* queue.  A file is named by a fresh UUID, so a name is never reused.      *)
(***************************************************************************)
EXTENDS Sequences

CONSTANTS Files,        \* the file names stage can produce
          NoFile,       \* an undefined path
          IOFaults      \* TRUE: an unlink, write or readdir may fail

VARIABLES disk,         \* the artwork files that exist
          currentPath,  \* #currentPath
          stagedPath,   \* #stagedPath
          queue,        \* the operations chained on #pending, oldest first
          progress      \* the oldest one: "waiting", "done" or "failed"

storeVars == <<disk, currentPath, stagedPath, queue, progress>>

Operation(kind, file) == [op |-> kind, file |-> file]
Operations == [op : {"stage", "commit", "discard"}, file : Files]
                \cup [op : {"clear"}, file : {NoFile}]

StoreTypeOK == /\ disk \subseteq Files
               /\ currentPath \in Files \cup {NoFile}
               /\ stagedPath \in Files \cup {NoFile}
               /\ queue \in Seq(Operations)
               /\ progress \in {"waiting", "done", "failed"}

(* open() clears whatever an earlier process left before it returns.       *)
StoreInit == /\ disk = {}
             /\ currentPath = NoFile
             /\ stagedPath = NoFile
             /\ queue = <<>>
             /\ progress = "waiting"

-----------------------------------------------------------------------------
(* Operations called for now: they run after those already chained.        *)
Call(ops) == /\ queue' = queue \o ops
             /\ UNCHANGED <<disk, currentPath, stagedPath, progress>>

Running(kind) == queue # <<>> /\ Head(queue).op = kind /\ progress = "waiting"

(* unlink of every file of `obsolete`: all go, or a fault leaves some. The *)
(* readdir of a commit or a clear may fail with nothing to remove.         *)
Remove(obsolete, dir) ==
  \/ disk' = dir \ obsolete /\ progress' = "done"
  \/ /\ IOFaults
     /\ \E kept \in SUBSET (dir \cap obsolete) : disk' = (dir \ obsolete) \cup kept
     /\ progress' = "failed"

(* The older staged file goes when a newer one is staged, unless it became *)
(* the current one.  A write that fails leaves the directory as it was; an *)
(* unlink that fails leaves the new file in place but not staged.          *)
PerformStage ==
  LET file  == Head(queue).file
      older == {stagedPath} \ {NoFile, currentPath, file}
  IN /\ Running("stage")
     /\ \/ /\ Remove(older, disk \cup {file})
           /\ older = {} => progress' = "done"
           /\ stagedPath' = IF progress' = "done" THEN file ELSE stagedPath
        \/ /\ IOFaults
           /\ progress' = "failed"
           /\ UNCHANGED <<disk, stagedPath>>
     /\ UNCHANGED <<currentPath, queue>>

(* commit makes the file current and removes every other artwork file.     *)
PerformCommit ==
  LET file == Head(queue).file
  IN /\ Running("commit")
     /\ currentPath' = file
     /\ stagedPath' = IF stagedPath = file THEN NoFile ELSE stagedPath
     /\ Remove(disk \ {file}, disk)
     /\ UNCHANGED queue

PerformDiscard ==
  LET file == Head(queue).file
  IN /\ Running("discard")
     /\ IF file = currentPath
        THEN progress' = "done" /\ UNCHANGED <<disk, stagedPath>>
        ELSE /\ stagedPath' = IF stagedPath = file THEN NoFile ELSE stagedPath
             /\ Remove({file}, disk)
     /\ UNCHANGED <<currentPath, queue>>

PerformClear ==
  /\ Running("clear")
  /\ currentPath' = NoFile
  /\ stagedPath' = NoFile
  /\ Remove(disk, disk)
  /\ UNCHANGED queue

Perform == PerformStage \/ PerformCommit \/ PerformDiscard \/ PerformClear

(* The oldest operation's promise settles; `more` are the operations its   *)
(* caller chains when it resumes.                                          *)
Settled == queue # <<>> /\ progress # "waiting"
Settle(more) == /\ Settled
                /\ queue' = Tail(queue) \o more
                /\ progress' = "waiting"
                /\ UNCHANGED <<disk, currentPath, stagedPath>>

=============================================================================
