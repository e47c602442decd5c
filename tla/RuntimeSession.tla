--------------------------- MODULE RuntimeSession ---------------------------
(***************************************************************************)
(* Ownership of the per-user runtime directory                              *)
(* (src/bridge/src/runtime-session.ts): concurrent launches, crashes at any *)
(* point, recovery of what a crashed launch left, and cleanup.              *)
(*                                                                          *)
(* A launch runs synchronous code, so its steps are single file-system      *)
(* calls: mkdir, write of session.json, rename, a read, an unlink, rmdir.   *)
(* rmSync lists a directory once, removes what it listed, then the          *)
(* directory, and throws if that is no longer empty.                        *)
(***************************************************************************)
EXTENDS Naturals, Sequences, FiniteSets

CONSTANTS Launches,        \* attempts to run RoonScape, each with its own token
          Absent, Empty,   \* no directory; a directory without session.json
          Overlaps         \* windows, of those below, that launches may meet in

ASSUME SessionAssumption == /\ Absent \notin Launches /\ Empty \notin Launches
                            /\ Absent # Empty
                            /\ Absent \notin [where : Nat, session : Launches \cup {Empty}]
                            /\ Overlaps \subseteq {"cleanup", "walk"}
                            /\ IsFiniteSet(Launches)

VARIABLES directory,  \* the runtime directory exists
          owner,      \* owner/: Absent, Empty, or the launch session.json names
          chain,      \* .recovering, .recovering/successor, ...: Empty or a launch
          candidate,  \* [launch -> Absent, or its candidate: where, session]
          artifacts,  \* launches whose socket or artwork is in the directory
          pc,         \* [launch -> next step]
          target,     \* [launch -> what it publishes: 0 owner, n the nth of chain]
          leaf,       \* [launch -> recovery leaf it acquired, 0 for none]
          removing    \* [launch -> entries rmSync has still to remove]

vars == <<directory, owner, chain, candidate, artifacts, pc, target, leaf, removing>>
tree == <<directory, owner, chain, candidate, artifacts>>

Live(p) == pc[p] \notin {"idle", "gone", "crashed"}
UnreclaimableUnreadable == {Empty}   \* mutant: the process is not looked up

Unreclaimable == {Empty} \cup {q \in Launches : Live(q)}   \* readRuntimeOwner throws, or it lives
Goto(p, step) == pc' = [pc EXCEPT ![p] = step]
Throw(p) == Goto(p, "gone")

(* The directory a target's candidate is made in: 0 the runtime directory, *)
(* n the nth directory of the chain.                                       *)
Parent(n) == IF n <= 1 THEN 0 ELSE n - 1
Exists(dir) == IF dir = 0 THEN directory ELSE dir <= Len(chain)
CandidatesIn(dir) == {q \in Launches : candidate[q] # Absent /\ candidate[q].where = dir}

(* What the code reads and what it then does of it are several calls apart, *)
(* and in two places nothing keeps other launches out of the window between *)
(* them.  A session that has found its name in owner/ removes the whole     *)
(* directory (:80), and with it what a launch beside it has published.      *)
CleanupWindow(p) == \/ pc[p] = "idle" /\ \E q \in Launches : pc[q] = "cleaning"
                    \/ pc[p] = "owning" /\ \E q \in Launches \ {p} : Live(q)

(* A launch that has read a dead recoverer goes on to publish below it      *)
(* (:226); if a whole recovery ended in between, that is below whoever      *)
(* publishes the recovery directory anew, and has not been read.            *)
WalkWindow(p) == target[p] > 0 /\ \E q \in Launches :
  pc[q] = "candidate" /\ target[q] = target[p] + 1

-----------------------------------------------------------------------------
(* acquireOwnership                                                        *)
Launch(p) == /\ pc[p] = "idle"
             /\ "cleanup" \in Overlaps \/ ~CleanupWindow(p)
             /\ directory' = TRUE
             /\ Goto(p, "check")
             /\ UNCHANGED <<owner, chain, candidate, artifacts, target, leaf, removing>>

CheckRecovery(p) == /\ pc[p] = "check"
                    /\ target' = [target EXCEPT ![p] = IF chain # <<>> THEN 1 ELSE 0]
                    /\ Goto(p, "candidate")
                    /\ UNCHANGED <<tree, leaf, removing>>

(* publishOwnedDirectory: mkdir a candidate, write session.json, rename.   *)
MakeCandidate(p) ==
  LET dir == Parent(target[p])
  IN /\ pc[p] = "candidate"
     /\ IF Exists(dir)
        THEN /\ candidate' = [candidate EXCEPT ![p] = [where |-> dir, session |-> Empty]]
             /\ Goto(p, "write")
        ELSE Throw(p) /\ UNCHANGED candidate
     /\ UNCHANGED <<directory, owner, chain, artifacts, target, leaf, removing>>

WriteOwner(p) == /\ pc[p] = "write"
                 /\ IF candidate[p] # Absent
                    THEN /\ candidate' = [candidate EXCEPT ![p].session = p]
                         /\ Goto(p, "rename")
                    ELSE Throw(p) /\ UNCHANGED candidate
                 /\ UNCHANGED <<directory, owner, chain, artifacts, target, leaf, removing>>

(* Candidates leave their names: no listing reaches them any more, and     *)
(* rmSync passes over a name that is missing.                              *)
Listed(gone) == {<<"candidate", q>> : q \in gone} \cup {<<"candidateDir", q>> : q \in gone}
CandidatesLeave(gone) ==
  /\ candidate' = [q \in Launches |-> IF q \in gone THEN Absent ELSE candidate[q]]
  /\ removing' = [q \in Launches |-> removing[q] \ Listed(gone)]
CandidateLeaves(p) == CandidatesLeave({p})

(* rename replaces a missing or an empty directory.                        *)
Vacant(n) ==
  IF n = 0 THEN owner \in {Absent, Empty}
  ELSE \/ Len(chain) = n - 1
       \/ Len(chain) = n /\ chain[n] = Empty /\ CandidatesIn(n) = {}

AfterPublishing(p) == IF target[p] > 0 THEN "recoveryScan"
                      ELSE IF leaf[p] > 0 THEN "sweep" ELSE "scan"

Rename(p) == /\ pc[p] = "rename"
             /\ candidate[p] # Absent
             /\ Vacant(target[p])
             /\ "walk" \in Overlaps \/ ~WalkWindow(p)
             /\ CandidateLeaves(p)
             /\ IF target[p] = 0
                THEN owner' = candidate[p].session /\ UNCHANGED <<chain, leaf>>
                ELSE /\ chain' = Append(SubSeq(chain, 1, target[p] - 1), candidate[p].session)
                     /\ leaf' = [leaf EXCEPT ![p] = target[p]]
                     /\ UNCHANGED owner
             /\ Goto(p, AfterPublishing(p))
             /\ UNCHANGED <<directory, artifacts, target>>

\* mutant: recovery goes on although another launch published owner/ first
AfterOccupiedAnyway(p) == IF target[p] > 0 THEN "walk"
                          ELSE IF leaf[p] > 0 THEN "sweep" ELSE "readOwner"

AfterOccupied(p) == IF target[p] > 0 THEN "walk"
                    ELSE IF leaf[p] > 0 THEN "gone" ELSE "readOwner"

RenameOccupied(p) == /\ pc[p] = "rename"
                     /\ candidate[p] # Absent
                     /\ ~Vacant(target[p])
                     /\ CandidateLeaves(p)
                     /\ Goto(p, AfterOccupied(p))
                     /\ UNCHANGED <<directory, owner, chain, artifacts, target, leaf>>

RenameMissing(p) == /\ pc[p] = "rename"
                    /\ candidate[p] = Absent
                    /\ Throw(p)
                    /\ UNCHANGED <<tree, target, leaf, removing>>

(* removeStaleCandidates: an unverifiable or a live candidate throws, a    *)
(* dead launch's is removed.                                               *)
Blocking(q) == candidate[q].session \in Unreclaimable

(* Another launch sweeping at the same time makes the read of a listed     *)
(* candidate fail.                                                         *)
ScanFails(p) == \/ \E q \in CandidatesIn(0) : Blocking(q)
                \/ \E q \in Launches \ {p} : Live(q)

Scan(p, passed, blocked) ==
  LET stale == {q \in CandidatesIn(0) : ~Blocking(q)}
  IN \E swept \in SUBSET stale :
       /\ CandidatesLeave(swept)
       /\ \/ swept = CandidatesIn(0) /\ Goto(p, passed)
          \/ swept # CandidatesIn(0) /\ ScanFails(p) /\ Goto(p, blocked)
       /\ UNCHANGED <<directory, owner, chain, artifacts, target, leaf>>

ScanCandidates(p) == pc[p] = "scan" /\ Scan(p, "artifacts", "release")

CheckArtifacts(p) == /\ pc[p] = "artifacts"
                     /\ Goto(p, IF artifacts = {} /\ CandidatesIn(0) = {}
                                THEN "owning" ELSE "release")
                     /\ UNCHANGED <<tree, target, leaf, removing>>

(* releaseOwnedDirectory, when the acquired owner/ has to be given up.     *)
Release(p) == /\ pc[p] = "release"
              /\ IF owner = p
                 THEN /\ removing' = [removing EXCEPT ![p] = {<<"owner", 0>>}]
                      /\ Goto(p, "releasing")
                 ELSE Throw(p) /\ UNCHANGED removing
              /\ UNCHANGED <<tree, target, leaf>>

\* mutant: a live owner is waited for
ReadOwnerAgain(p) ==
  /\ pc[p] = "readOwner"
  /\ IF owner = Absent \/ owner \in Unreclaimable THEN Goto(p, "check") /\ UNCHANGED target
     ELSE Goto(p, "candidate") /\ target' = [target EXCEPT ![p] = 1]
  /\ UNCHANGED <<tree, leaf, removing>>

(* owner/ is occupied: wait for nothing, refuse, or recover.               *)
ReadOwner(p) ==
  /\ pc[p] = "readOwner"
  /\ IF owner = Absent THEN Goto(p, "check") /\ UNCHANGED target
     ELSE IF owner \in Unreclaimable THEN Throw(p) /\ UNCHANGED target
     ELSE Goto(p, "candidate") /\ target' = [target EXCEPT ![p] = 1]
  /\ UNCHANGED <<tree, leaf, removing>>

-----------------------------------------------------------------------------
(* recoverOwnership                                                        *)

\* mutants: live recoverers are passed over; dead ones are not; a chain that
\* has been released is walked on
WalkChainUnchecked(p) ==
  LET n == target[p]
  IN /\ pc[p] = "walk"
     /\ IF n <= Len(chain)
        THEN Goto(p, "candidate") /\ target' = [target EXCEPT ![p] = n + 1]
        ELSE Throw(p) /\ UNCHANGED target
     /\ UNCHANGED <<tree, leaf, removing>>
WalkChainRefusing(p) == pc[p] = "walk" /\ Throw(p) /\ UNCHANGED <<tree, target, leaf, removing>>
WalkChainPastEnd(p) ==
  LET n == target[p]
  IN /\ pc[p] = "walk"
     /\ target' = [target EXCEPT ![p] = n + 1]
     /\ IF n <= Len(chain) THEN Goto(p, "candidate") ELSE Goto(p, "walk")
     /\ UNCHANGED <<tree, leaf, removing>>

(* acquireRecoveryLeaf: pass over the directories of dead recoverers.      *)
WalkChain(p) ==
  LET n == target[p]
  IN /\ pc[p] = "walk"
     /\ IF n <= Len(chain) /\ chain[n] \notin Unreclaimable
        THEN Goto(p, "candidate") /\ target' = [target EXCEPT ![p] = n + 1]
        ELSE Throw(p) /\ UNCHANGED target
     /\ UNCHANGED <<tree, leaf, removing>>

RecoveryScan(p) == pc[p] = "recoveryScan" /\ Scan(p, "reclaim", "gone")

\* mutant: the owner is not checked again under the leaf
ReclaimUnchecked(p) ==
  /\ pc[p] = "reclaim"
  /\ Goto(p, "reclaiming")
  /\ removing' = [removing EXCEPT ![p] = {<<"owner", 0>>}]
  /\ UNCHANGED <<tree, target, leaf>>

(* The owner is read again under the leaf, and removed if it is dead.      *)
Reclaim(p) ==
  /\ pc[p] = "reclaim"
  /\ IF owner = Absent
     THEN Goto(p, "candidate") /\ target' = [target EXCEPT ![p] = 0] /\ UNCHANGED removing
     ELSE IF owner \in Unreclaimable THEN Throw(p) /\ UNCHANGED <<target, removing>>
     ELSE /\ Goto(p, "reclaiming")
          /\ removing' = [removing EXCEPT ![p] = {<<"owner", 0>>}]
          /\ UNCHANGED target
  /\ UNCHANGED <<tree, leaf>>

\* mutant: only the candidates are swept
SweepCandidates(p) == /\ pc[p] = "sweep"
                      /\ removing' = [removing EXCEPT ![p] =
                                        {<<"candidate", q>> : q \in CandidatesIn(0)}]
                      /\ Goto(p, "sweeping")
                      /\ UNCHANGED <<tree, target, leaf>>

(* removeRuntimeArtifacts, once owner/ is published.                       *)
Sweep(p) == /\ pc[p] = "sweep"
            /\ removing' = [removing EXCEPT ![p] =
                              {<<"candidate", q>> : q \in CandidatesIn(0)}
                                \cup {<<"artifacts", 0>>}]
            /\ Goto(p, "sweeping")
            /\ UNCHANGED <<tree, target, leaf>>

(* A level that has lost its session.json is listed without it.            *)
Levels == {<<IF chain[n] = Empty THEN "bareLevel" ELSE "level", n>> : n \in DOMAIN chain}

ReleaseChain(p) == /\ pc[p] = "releaseChain"
                   /\ IF leaf[p] <= Len(chain) /\ chain[leaf[p]] = p
                      THEN /\ removing' = [removing EXCEPT ![p] = Levels]
                           /\ Goto(p, "releasingChain")
                      ELSE Throw(p) /\ UNCHANGED removing
                   /\ UNCHANGED <<tree, target, leaf>>

-----------------------------------------------------------------------------
(* The session itself, and cleanup once its children have stopped.         *)
Run(p) == /\ pc[p] = "owning"
          /\ artifacts' = artifacts \cup {p}
          /\ UNCHANGED <<directory, owner, chain, candidate, pc, target, leaf, removing>>

Cleanup(p) ==
  /\ pc[p] = "owning"
  /\ "cleanup" \in Overlaps \/ ~CleanupWindow(p)
  /\ IF owner = p
     THEN /\ removing' = [removing EXCEPT ![p] =
                            {<<"candidate", q>> : q \in CandidatesIn(0)}
                              \cup {<<"owner", 0>>} \cup Levels
                              \cup (IF artifacts = {} THEN {} ELSE {<<"artifacts", 0>>})]
          /\ Goto(p, "cleaning")
     ELSE Throw(p) /\ UNCHANGED removing
  /\ UNCHANGED <<tree, target, leaf>>

RemoveDirectory(p) ==
  /\ pc[p] = "cleaning" /\ removing[p] = {}
  /\ directory' = ~(owner = Absent /\ chain = <<>> /\ artifacts = {} /\ CandidatesIn(0) = {})
  /\ Throw(p)
  /\ UNCHANGED <<owner, chain, candidate, artifacts, target, leaf, removing>>

-----------------------------------------------------------------------------
(* rmSync: each listed directory loses its session.json, then goes itself; *)
(* rmdir of one that was filled in between throws.  A chain loses its      *)
(* records in any order, and its directories from the deepest up.          *)
Replace(p, entry, more) ==
  removing' = [removing EXCEPT ![p] = (@ \ {entry}) \cup more]

RemoveArtifacts(p) == /\ <<"artifacts", 0>> \in removing[p]
                      /\ artifacts' = {}
                      /\ Replace(p, <<"artifacts", 0>>, {})
                      /\ UNCHANGED <<directory, owner, chain, candidate, pc, target, leaf>>

UnlinkOwner(p) == /\ <<"owner", 0>> \in removing[p]
                  /\ owner' = IF owner = Absent THEN Absent ELSE Empty
                  /\ Replace(p, <<"owner", 0>>, {<<"ownerDir", 0>>})
                  /\ UNCHANGED <<directory, chain, candidate, artifacts, pc, target, leaf>>

RemoveOwner(p) == /\ <<"ownerDir", 0>> \in removing[p]
                  /\ IF owner \in {Empty, Absent}
                     THEN /\ owner' = Absent
                          /\ Replace(p, <<"ownerDir", 0>>, {})
                          /\ UNCHANGED pc
                     ELSE Throw(p) /\ UNCHANGED <<owner, removing>>
                  /\ UNCHANGED <<directory, chain, candidate, artifacts, target, leaf>>

UnlinkCandidate(p) == \E q \in Launches :
  /\ <<"candidate", q>> \in removing[p]
  /\ candidate' = [candidate EXCEPT ![q].session = Empty]
  /\ Replace(p, <<"candidate", q>>, {<<"candidateDir", q>>})
  /\ UNCHANGED <<directory, owner, chain, artifacts, pc, target, leaf>>

RemoveCandidate(p) == \E q \in Launches :
  /\ <<"candidateDir", q>> \in removing[p]
  /\ IF candidate[q].session = Empty
     THEN CandidateLeaves(q) /\ UNCHANGED pc
     ELSE Throw(p) /\ UNCHANGED <<candidate, removing>>
  /\ UNCHANGED <<directory, owner, chain, artifacts, target, leaf>>

(* Candidates made inside a recovery directory go with it if listed.       *)
UnlinkLevel(p) == \E n \in 1..Cardinality(Launches), kind \in {"level", "bareLevel"} :
  /\ <<kind, n>> \in removing[p]
  /\ chain' = IF kind = "level" /\ n <= Len(chain) THEN [chain EXCEPT ![n] = Empty] ELSE chain
  /\ \E listed \in SUBSET CandidatesIn(n) :
       candidate' = [q \in Launches |-> IF q \in listed THEN Absent ELSE candidate[q]]
  /\ Replace(p, <<kind, n>>, {<<"levelDir", n>>})
  /\ UNCHANGED <<directory, owner, artifacts, pc, target, leaf>>

Deepest(p, n) == \A m \in DOMAIN chain :
  m > n => {<<"level", m>>, <<"bareLevel", m>>, <<"levelDir", m>>} \cap removing[p] = {}

RemoveLevel(p) == \E n \in 1..Cardinality(Launches) :
  /\ <<"levelDir", n>> \in removing[p] /\ Deepest(p, n)
  /\ IF n > Len(chain) \/ (n = Len(chain) /\ chain[n] = Empty /\ CandidatesIn(n) = {})
     THEN /\ chain' = SubSeq(chain, 1, IF n > Len(chain) THEN Len(chain) ELSE n - 1)
          /\ Replace(p, <<"levelDir", n>>, {})
          /\ UNCHANGED pc
     ELSE Throw(p) /\ UNCHANGED <<chain, removing>>
  /\ UNCHANGED <<directory, owner, candidate, artifacts, target, leaf>>

Remove(p) == /\ Live(p)
             /\ \/ RemoveArtifacts(p) \/ UnlinkOwner(p) \/ RemoveOwner(p)
                \/ UnlinkCandidate(p) \/ RemoveCandidate(p)
                \/ UnlinkLevel(p) \/ RemoveLevel(p)

(* rmSync has returned.                                                    *)
Removed(p) == /\ removing[p] = {}
              /\ \/ pc[p] = "releasing" /\ Throw(p) /\ UNCHANGED target
                 \/ /\ pc[p] = "reclaiming"
                    /\ target' = [target EXCEPT ![p] = 0]
                    /\ Goto(p, "candidate")
                 \/ pc[p] = "sweeping" /\ Goto(p, "releaseChain") /\ UNCHANGED target
                 \/ pc[p] = "releasingChain" /\ Goto(p, "owning") /\ UNCHANGED target
              /\ UNCHANGED <<tree, leaf, removing>>

(* SIGKILL, or the machine taking the process down, at any point.          *)
Crash(p) == Live(p) /\ Goto(p, "crashed") /\ UNCHANGED <<tree, target, leaf, removing>>

-----------------------------------------------------------------------------
Init == /\ directory = FALSE
        /\ owner = Absent
        /\ chain = <<>>
        /\ candidate = [p \in Launches |-> Absent]
        /\ artifacts = {}
        /\ pc = [p \in Launches |-> "idle"]
        /\ target = [p \in Launches |-> 0]
        /\ leaf = [p \in Launches |-> 0]
        /\ removing = [p \in Launches |-> {}]

Acquire(p) == \/ CheckRecovery(p) \/ MakeCandidate(p) \/ WriteOwner(p) \/ Rename(p)
              \/ RenameOccupied(p) \/ RenameMissing(p) \/ ScanCandidates(p)
              \/ CheckArtifacts(p) \/ Release(p) \/ ReadOwner(p)
Recover(p) == \/ WalkChain(p) \/ RecoveryScan(p) \/ Reclaim(p) \/ Sweep(p) \/ ReleaseChain(p)
Step(p) == Acquire(p) \/ Recover(p) \/ Remove(p) \/ Removed(p) \/ RemoveDirectory(p)

Next == \E p \in Launches : Launch(p) \/ Step(p) \/ Run(p) \/ Cleanup(p) \/ Crash(p)

Spec == Init /\ [][Next]_vars

-----------------------------------------------------------------------------
Steps == {"idle", "check", "candidate", "write", "rename", "scan", "artifacts", "release",
          "releasing", "readOwner", "walk", "recoveryScan", "reclaim", "reclaiming",
          "sweep", "sweeping", "releaseChain", "releasingChain", "owning", "cleaning",
          "gone", "crashed"}
Records == Launches \cup {Empty}
Depth == Cardinality(Launches)
Entries == ({"candidate", "candidateDir"} \times Launches)
             \cup ({"owner", "ownerDir", "artifacts"} \times {0})
             \cup ({"level", "bareLevel", "levelDir"} \times (1..Depth))

(* Every variable stays in its range; the recovery chain is never longer   *)
(* than the number of launches.                                            *)
TypeOK == /\ directory \in BOOLEAN
          /\ owner \in Records \cup {Absent}
          /\ chain \in Seq(Records) /\ Len(chain) <= Depth
          /\ candidate \in [Launches ->
                              [where : 0..Depth, session : Records] \cup {Absent}]
          /\ artifacts \subseteq Launches
          /\ pc \in [Launches -> Steps]
          /\ target \in [Launches -> 0..Depth + 1]
          /\ leaf \in [Launches -> 0..Depth]
          /\ removing \in [Launches -> SUBSET Entries]

(* At most one session runs for the user: a launch that finds a live owner *)
(* gives up, whatever crashed before it and whoever recovers beside it.    *)
(* So it is outside CleanupWindow and WalkWindow.                          *)
OneSession == \A p, q \in Launches : pc[p] = "owning" /\ pc[q] = "owning" => p = q

(* A running session's name stands in owner/session.json, so that its own  *)
(* cleanup accepts it and every later launch sees it.                      *)
SessionIsRecorded == \A p \in Launches : pc[p] = "owning" => owner = p

(* At most one live launch at a time recovers: from the moment its recovery *)
(* leaf is published until it starts to remove the chain, no other launch   *)
(* reads, removes or replaces stale ownership under a leaf of its own.      *)
(* So it is outside WalkWindow; within it five launches are enough for two. *)
Recovering(p) ==
  leaf[p] > 0 /\ Live(p) /\ pc[p] \notin {"releasingChain", "owning", "cleaning"}
OneRecovery == \A p, q \in Launches : Recovering(p) /\ Recovering(q) => p = q

(* Ownership is what the directory says: a session's own record, and one   *)
(* live recoverer of a dead one.                                           *)
OwnershipIsRecorded == SessionIsRecorded /\ OneRecovery

(* A session starts in a directory without artifacts of an earlier one:    *)
(* a socket or an artwork file left by a crash is gone by then.            *)
SessionStartsClean ==
  [][\A p \in Launches : pc[p] # "owning" /\ pc'[p] = "owning" => artifacts' = {}]_vars

(* While a session runs, nobody removes its socket or its artwork.         *)
SessionArtifactsKept ==
  [][\A p \in artifacts : pc[p] = "owning" /\ pc'[p] = "owning" => p \in artifacts']_vars

(* A session's artifacts are its own, from its first moment to its last.   *)
ArtifactsOfTheSession == SessionStartsClean /\ SessionArtifactsKept

(* The record of a live owner is removed or replaced by that owner only.   *)
LiveOwnerKept ==
  [][\A p \in Launches : owner = p /\ Live(p) /\ owner' # p
        => <<"owner", 0>> \in removing[p]]_vars

(* What a crash left is recoverable: every record in the directory can be  *)
(* read, and artifacts have an owner or a recovery directory beside them.  *)
Verifiable == /\ owner # Empty
              /\ \A n \in DOMAIN chain : chain[n] # Empty
              /\ \A q \in CandidatesIn(0) : candidate[q].session # Empty
              /\ owner = Absent /\ chain = <<>> => artifacts = {}

(* The last launch, alone in a directory it can verify, becomes the        *)
(* session unless it is killed.                                            *)
Alone(p) == \A q \in Launches \ {p} : pc[q] \in {"gone", "crashed"}
LastLaunchOwns == \A p \in Launches :
  (pc[p] = "check" /\ Alone(p) /\ Verifiable) ~> pc[p] \in {"owning", "cleaning", "crashed"}

(* Every launch ends its acquisition: it owns the directory or gives up.   *)
LaunchesDecide == \A p \in Launches :
  Live(p) ~> pc[p] \in {"owning", "cleaning", "gone", "crashed"}

(* No launch waits for ever, and what crashed does not block the last one. *)
LaunchesFinish == LastLaunchOwns /\ LaunchesDecide
=============================================================================
