----------------------- MODULE RoonScapeCommand_proofs -----------------------
(***************************************************************************)
(* The runtime directory keeps its shape, and one session owns it, for any  *)
(* finite number of launches that crash between any two file-system calls;  *)
(* a session cleans up behind its children, for any number of sessions that *)
(* run children; and what holds of the runtime directory holds of the       *)
(* command that owns it.                                                    *)
(*                                                                          *)
(* The first part is unconditional: each level of the recovery chain is led *)
(* by a launch of its own, so the chain is no longer than the launches are  *)
(* many, and what is listed for removal is there.                           *)
(*                                                                          *)
(* The second is of ownership outside the two windows in which nothing      *)
(* keeps launches apart (Outside): candidates stand below dead recoverers   *)
(* only, so that whoever recovers leads the last level and is alone         *)
(* (ChainInv); a launch's place says that owner/ bears its name (HeldInv);  *)
(* only its holder, or a recoverer of one that is over (ReclaimInv), gives  *)
(* it up; and a candidate whose record was swept away is never what is      *)
(* published (EmptiedInv).                                                  *)
(*                                                                          *)
(* The third, of the command: once the shutdown settles, whatever has not   *)
(* ended was told to, and is waited for until it ends or is given up; who   *)
(* gives up fails.                                                          *)
(***************************************************************************)
EXTENDS RoonScapeCommand, FiniteSetTheorems, TLAPS

-----------------------------------------------------------------------------
(* The runtime directory                                                   *)

Preparing == {"idle", "check", "readOwner", "walk"}
Publishing == {"candidate", "write", "rename"}

(* Every level of the chain is led by a launch, which has published it; a  *)
(* launch that looks for a leaf has none.                                  *)
Led == \A n \in DOMAIN chain : \E p \in Launches : leaf[p] = n
Unled == \A p \in Launches :
  pc[p] \in Preparing \/ (pc[p] \in Publishing /\ target[p] > 0) => leaf[p] = 0

(* A candidate belongs to a launch that is publishing it, or that is over; *)
(* what is listed of candidates stands in the runtime directory.           *)
OwnCandidate == \A p \in Launches :
  candidate[p] # Absent => pc[p] \in {"write", "rename", "gone", "crashed"}
InRuntime(q) == candidate[q] # Absent /\ candidate[q].where = 0
ListedCandidates == \A p, q \in Launches :
  <<"candidate", q>> \in removing[p] \/ <<"candidateDir", q>> \in removing[p] => InRuntime(q)

TInv == TypeOK /\ Led /\ Unled /\ OwnCandidate /\ ListedCandidates

(* The bound of the chain. *)
LEMMA DepthNat == Depth \in Nat
BY FS_CardinalityType, SessionAssumption DEF Depth

(* n launches that lead the levels of a chain, each its own. *)
LEMMA LevelsFit ==
  ASSUME NEW n \in Nat, NEW f \in [Launches -> Nat], \A m \in 1..n : \E p \in Launches : f[p] = m
  PROVE  n <= Depth
<1>1. DEFINE S == {p \in Launches : f[p] \in 1..n}
<1>2. IsFiniteSet(S) /\ Cardinality(S) <= Depth
  BY FS_Subset, SessionAssumption DEF Depth
<1>3. DEFINE g == [p \in S |-> f[p]]
<1>4. g \in Surjection(S, 1..n)
  BY DEF Surjection
<1>5. Cardinality(1..n) <= Cardinality(S)
  BY <1>2, <1>4, FS_Surjection DEF ExistsSurjection
<1>6. Cardinality(1..n) = n
  BY FS_Interval
<1>7. QED  BY <1>2, <1>5, <1>6, DepthNat, FS_CardinalityType

(* What rmSync may list is an entry.                                         *)
LEMMA EntriesTyped ==
  /\ \A q \in Launches : <<"candidate", q>> \in Entries /\ <<"candidateDir", q>> \in Entries
  /\ <<"owner", 0>> \in Entries /\ <<"ownerDir", 0>> \in Entries /\ <<"artifacts", 0>> \in Entries
  /\ \A n \in 1..Depth :
       <<"level", n>> \in Entries /\ <<"bareLevel", n>> \in Entries /\ <<"levelDir", n>> \in Entries
BY DepthNat DEF Entries

(* Before any launch nothing stands in the directory.                        *)
LEMMA InitTInv == Init => TInv
<1> SUFFICES ASSUME Init PROVE TInv
  OBVIOUS
<1>1. chain \in Seq(Records) /\ Len(chain) = 0
  BY DEF Init
<1>2. chain \in Seq(Records) /\ Len(chain) <= Depth
  BY <1>1, DepthNat
<1>3. candidate \in [Launches -> [where : 0..Depth, session : Records] \cup {Absent}]
      /\ removing \in [Launches -> SUBSET Entries] /\ pc \in [Launches -> Steps]
  BY DEF Init, Steps
<1>4. target \in [Launches -> 0..Depth + 1] /\ leaf \in [Launches -> 0..Depth]
  BY DepthNat DEF Init
<1>5. TypeOK
  BY <1>2, <1>3, <1>4 DEF Init, TypeOK
<1>6. QED  BY <1>5 DEF Init, TInv, Led, Unled, OwnCandidate, ListedCandidates

(* A launch goes on to a step, with the directories it has. *)
LEMMA MoveKeeps ==
  ASSUME TInv, NEW p \in Launches, NEW step \in Steps, NEW t \in 0..Depth + 1,
         pc' = [pc EXCEPT ![p] = step], target' = [target EXCEPT ![p] = t],
         UNCHANGED <<chain, candidate, leaf>>,
         directory' \in BOOLEAN, owner' \in Records \cup {Absent}, artifacts' \subseteq Launches,
         removing' \in [Launches -> SUBSET Entries],
         \A q, r \in Launches :
           <<"candidate", r>> \in removing'[q] \/ <<"candidateDir", r>> \in removing'[q] => InRuntime(r),
         candidate[p] # Absent => step \in {"write", "rename", "gone", "crashed"},
         step \in Preparing \/ (step \in Publishing /\ t > 0) => leaf[p] = 0
  PROVE  TInv'
<1>1. TypeOK'
  BY DEF TInv, TypeOK
<1>2. OwnCandidate' /\ ListedCandidates'
  BY DEF TInv, TypeOK, OwnCandidate, ListedCandidates, InRuntime
<1>3. Led' /\ Unled'
  BY DEF TInv, TypeOK, Led, Unled
<1>4. QED  BY <1>1, <1>2, <1>3 DEF TInv

(* ... having listed nothing more. *)
LEMMA PlainKeeps ==
  ASSUME TInv, NEW p \in Launches, NEW step \in Steps, NEW t \in 0..Depth + 1,
         pc' = [pc EXCEPT ![p] = step], target' = [target EXCEPT ![p] = t],
         UNCHANGED <<chain, candidate, leaf, removing>>,
         directory' \in BOOLEAN, owner' \in Records \cup {Absent}, artifacts' \subseteq Launches,
         candidate[p] # Absent => step \in {"write", "rename", "gone", "crashed"},
         step \in Preparing \/ (step \in Publishing /\ t > 0) => leaf[p] = 0
  PROVE  TInv'
<1>1. removing' \in [Launches -> SUBSET Entries]
  BY DEF TInv, TypeOK
<1>2. \A q, r \in Launches :
        <<"candidate", r>> \in removing'[q] \/ <<"candidateDir", r>> \in removing'[q] => InRuntime(r)
  BY DEF TInv, ListedCandidates
<1>3. QED  BY <1>1, <1>2, MoveKeeps

(* A launch begins: what it finds of a recovery decides where it publishes.  *)
LEMMA LaunchKeeps == ASSUME TInv, NEW p \in Launches, Launch(p) \/ CheckRecovery(p) PROVE TInv'
<1>1. PICK step \in {"check", "candidate"} : pc' = [pc EXCEPT ![p] = step]
  BY DEF Launch, CheckRecovery, Goto
<1>2. PICK t \in 0..Depth + 1 : target' = [target EXCEPT ![p] = t]
  BY DepthNat DEF Launch, CheckRecovery, TInv, TypeOK
<1>3. UNCHANGED <<owner, chain, candidate, artifacts, leaf, removing>> /\ directory' \in BOOLEAN
  BY DEF Launch, CheckRecovery, tree, TInv, TypeOK
<1>4. candidate[p] = Absent /\ leaf[p] = 0 /\ step \in Steps
  BY DEF Launch, CheckRecovery, TInv, OwnCandidate, Unled, Preparing, Steps
<1>5. owner' \in Records \cup {Absent} /\ artifacts' \subseteq Launches
  BY <1>3 DEF TInv, TypeOK
<1>6. QED  BY <1>1, <1>2, <1>3, <1>4, <1>5, PlainKeeps

(* A launch reads, is killed or runs: it changes no record but its place.    *)
LEMMA ReadKeeps ==
  ASSUME TInv, NEW p \in Launches,
         CheckArtifacts(p) \/ ReadOwner(p) \/ WalkChain(p) \/ RenameMissing(p) \/ Crash(p) \/ Run(p)
           \/ RemoveDirectory(p)
  PROVE  TInv'
<1>1. PICK step \in Steps : pc' = [pc EXCEPT ![p] = step]
  BY DEF CheckArtifacts, ReadOwner, WalkChain, RenameMissing, Crash, Run, RemoveDirectory, Goto, Throw, Steps, TInv, TypeOK
<1>2. PICK t \in 0..Depth + 1 : target' = [target EXCEPT ![p] = t]
  BY DepthNat DEF CheckArtifacts, ReadOwner, WalkChain, RenameMissing, Crash, Run, RemoveDirectory, TInv, TypeOK
<1>3. UNCHANGED <<owner, chain, candidate, leaf, removing>> /\ directory' \in BOOLEAN
      /\ artifacts' \subseteq Launches
  BY DEF CheckArtifacts, ReadOwner, WalkChain, RenameMissing, Crash, Run, RemoveDirectory, tree, TInv, TypeOK
<1>4. candidate[p] # Absent => step \in {"write", "rename", "gone", "crashed"}
  BY <1>1 DEF CheckArtifacts, ReadOwner, WalkChain, RenameMissing, Crash, Run, RemoveDirectory, Goto, Throw, TInv, OwnCandidate, TypeOK
<1>5. step \in Preparing \cup Publishing => leaf[p] = 0
  BY <1>1 DEF CheckArtifacts, ReadOwner, WalkChain, RenameMissing, Crash, Run, RemoveDirectory, Goto, Throw, TInv, Unled, TypeOK, Preparing, Publishing
<1>6. owner' \in Records \cup {Absent}
  BY <1>3 DEF TInv, TypeOK
<1>7. QED  BY <1>1, <1>2, <1>3, <1>4, <1>5, <1>6, PlainKeeps

(* A removal that lists directories of its own. *)
LEMMA ListKeeps ==
  ASSUME TInv, NEW p \in Launches,
         Release(p) \/ Reclaim(p) \/ Sweep(p) \/ ReleaseChain(p) \/ Cleanup(p) \/ Removed(p)
  PROVE  TInv'
<1>1. PICK step \in Steps : pc' = [pc EXCEPT ![p] = step]
  BY DEF Release, Reclaim, Sweep, ReleaseChain, Cleanup, Removed, Goto, Throw, Steps
<1>2. PICK t \in 0..Depth + 1 : target' = [target EXCEPT ![p] = t]
  BY DepthNat DEF Release, Reclaim, Sweep, ReleaseChain, Cleanup, Removed, TInv, TypeOK
<1>3. UNCHANGED <<directory, owner, chain, candidate, artifacts, leaf>>
  BY DEF Release, Reclaim, Sweep, ReleaseChain, Cleanup, Removed, tree
<1>4. candidate[p] # Absent => step \in {"write", "rename", "gone", "crashed"}
  BY <1>1 DEF Release, Reclaim, Sweep, ReleaseChain, Cleanup, Removed, Goto, Throw, TInv, OwnCandidate, TypeOK
<1>5. step \in Preparing \/ (step \in Publishing /\ t > 0) => leaf[p] = 0
  BY <1>1, <1>2 DEF Release, Reclaim, Sweep, ReleaseChain, Cleanup, Removed, Goto, Throw, TInv, TypeOK, Preparing, Publishing
<1>6. Levels \subseteq Entries /\ \A q \in Launches : <<"candidate", q>> \notin Levels /\ <<"candidateDir", q>> \notin Levels
  <2>1. DOMAIN chain \subseteq 1..Depth
    BY DepthNat DEF TInv, TypeOK
  <2>2. QED  BY <2>1, EntriesTyped DEF Levels
<1>7. PICK listed : removing' = [removing EXCEPT ![p] = listed]
  BY DEF Release, Reclaim, Sweep, ReleaseChain, Cleanup, Removed, TInv, TypeOK
<1>8. listed \in SUBSET Entries
  <2>1. removing[p] \in SUBSET Entries /\ CandidatesIn(0) \subseteq Launches
    BY DEF TInv, TypeOK, CandidatesIn
  <2>2. \A c \in SUBSET Launches : {<<"candidate", q>> : q \in c} \in SUBSET Entries
    BY EntriesTyped
  <2>3. CASE Release(p) \/ Reclaim(p) \/ ReleaseChain(p) \/ Removed(p)
    <3>1. listed \in {removing[p], Levels, {<<"owner", 0>>}}
      BY <1>7, <2>3 DEF Release, Reclaim, ReleaseChain, Removed, TInv, TypeOK
    <3>2. QED  BY <1>6, <2>1, <3>1, EntriesTyped
  <2>4. CASE Sweep(p)
    <3>1. listed = {<<"candidate", q>> : q \in CandidatesIn(0)} \cup {<<"artifacts", 0>>}
      BY <1>7, <2>4 DEF Sweep, TInv, TypeOK
    <3>2. QED  BY <2>1, <2>2, <3>1, EntriesTyped
  <2>5. CASE Cleanup(p)
    <3>1. \/ listed = removing[p]
          \/ listed = {<<"candidate", q>> : q \in CandidatesIn(0)}
                       \cup {<<"owner", 0>>} \cup Levels
                       \cup (IF artifacts = {} THEN {} ELSE {<<"artifacts", 0>>})
      BY <1>7, <2>5 DEF Cleanup, TInv, TypeOK
    <3>2. QED  BY <1>6, <2>1, <2>2, <3>1, EntriesTyped
  <2>6. QED  BY <2>3, <2>4, <2>5
<1>9. \A r \in Launches : <<"candidate", r>> \in listed \/ <<"candidateDir", r>> \in listed => InRuntime(r)
  BY <1>6, <1>7 DEF Release, Reclaim, Sweep, ReleaseChain, Cleanup, Removed, TInv, TypeOK, CandidatesIn, InRuntime, ListedCandidates
<1>10. owner' \in Records \cup {Absent} /\ artifacts' \subseteq Launches /\ directory' \in BOOLEAN
  BY <1>3 DEF TInv, TypeOK
<1>11. removing' \in [Launches -> SUBSET Entries]
  BY <1>7, <1>8 DEF TInv, TypeOK
<1>12. \A q, r \in Launches :
        <<"candidate", r>> \in removing'[q] \/ <<"candidateDir", r>> \in removing'[q] => InRuntime(r)
  BY <1>7, <1>9 DEF TInv, TypeOK, ListedCandidates
<1>13. QED  BY <1>1, <1>2, <1>3, <1>4, <1>5, <1>10, <1>11, <1>12, MoveKeeps

(* One entry of a removal is done, others may follow from it. *)
LEMMA UnlinkKeeps ==
  ASSUME TInv, NEW p \in Launches, RemoveArtifacts(p) \/ UnlinkOwner(p) \/ RemoveOwner(p)
  PROVE  TInv'
<1>1. PICK step \in {pc[p], "gone"} : pc' = [pc EXCEPT ![p] = step]
  BY DEF RemoveArtifacts, UnlinkOwner, RemoveOwner, Throw, Goto, TInv, TypeOK
<1>2. UNCHANGED <<directory, chain, candidate, target, leaf>>
  BY DEF RemoveArtifacts, UnlinkOwner, RemoveOwner
<1>3. PICK listed : removing' = [removing EXCEPT ![p] = listed]
  BY DEF RemoveArtifacts, UnlinkOwner, RemoveOwner, Replace, TInv, TypeOK
<1>4. listed \in SUBSET Entries
      /\ \A r \in Launches : /\ <<"candidate", r>> \in listed => <<"candidate", r>> \in removing[p]
                             /\ <<"candidateDir", r>> \in listed => <<"candidateDir", r>> \in removing[p]
  <2>1. removing[p] \in SUBSET Entries /\ <<"ownerDir", 0>> \in Entries
    BY EntriesTyped DEF TInv, TypeOK
  <2>2. listed \subseteq removing[p] \cup {<<"ownerDir", 0>>}
    BY <1>3 DEF RemoveArtifacts, UnlinkOwner, RemoveOwner, Replace, TInv, TypeOK
  <2>3. QED  BY <2>1, <2>2
<1>5. owner' \in Records \cup {Absent} /\ artifacts' \subseteq Launches /\ directory' \in BOOLEAN
  BY <1>2 DEF RemoveArtifacts, UnlinkOwner, RemoveOwner, Records, TInv, TypeOK
<1>6. PICK t \in 0..Depth + 1 : target' = [target EXCEPT ![p] = t] /\ t = target[p]
  BY <1>2 DEF TInv, TypeOK
<1>7. candidate[p] # Absent => step \in {"write", "rename", "gone", "crashed"}
  BY <1>1 DEF TInv, OwnCandidate
<1>8. step \in Preparing \/ (step \in Publishing /\ t > 0) => leaf[p] = 0
  BY <1>1, <1>6 DEF TInv, Unled, Preparing, Publishing
<1>9. removing' \in [Launches -> SUBSET Entries]
  BY <1>3, <1>4 DEF TInv, TypeOK
<1>10. \A q, r \in Launches :
         <<"candidate", r>> \in removing'[q] \/ <<"candidateDir", r>> \in removing'[q] => InRuntime(r)
  BY <1>3, <1>4 DEF TInv, TypeOK, ListedCandidates
<1>11. step \in Steps
  BY <1>1 DEF TInv, TypeOK, Steps
<1>12. QED  BY <1>1, <1>2, <1>5, <1>6, <1>7, <1>8, <1>9, <1>10, <1>11, MoveKeeps

(* A launch goes on to a step, whatever became of the directories. *)
LEMMA StepKeeps ==
  ASSUME TInv, NEW p \in Launches, NEW step \in Steps, NEW t \in 0..Depth + 1,
         pc' = [pc EXCEPT ![p] = step], target' = [target EXCEPT ![p] = t],
         directory' \in BOOLEAN, owner' \in Records \cup {Absent}, artifacts' \subseteq Launches,
         chain' \in Seq(Records), Len(chain') <= Depth, Led',
         candidate' \in [Launches -> [where : 0..Depth, session : Records] \cup {Absent}],
         removing' \in [Launches -> SUBSET Entries], ListedCandidates',
         leaf' \in [Launches -> 0..Depth],
         \A q \in Launches \ {p} : leaf'[q] = leaf[q] /\ (candidate'[q] # Absent => candidate[q] # Absent),
         candidate'[p] # Absent => step \in {"write", "rename", "gone", "crashed"},
         step \in Preparing \/ (step \in Publishing /\ t > 0) => leaf'[p] = 0
  PROVE  TInv'
<1>1. TypeOK'
  BY DEF TInv, TypeOK
<1>2. OwnCandidate' /\ Unled'
  BY DEF TInv, TypeOK, OwnCandidate, Unled
<1>3. QED  BY <1>1, <1>2 DEF TInv

(* Candidates that leave take their names with them. *)
LEMMA LeavingKeeps ==
  ASSUME TInv, NEW gone \in SUBSET Launches, CandidatesLeave(gone)
  PROVE  /\ candidate' \in [Launches -> [where : 0..Depth, session : Records] \cup {Absent}]
         /\ removing' \in [Launches -> SUBSET Entries]
         /\ \A q \in Launches : candidate'[q] = IF q \in gone THEN Absent ELSE candidate[q]
         /\ ListedCandidates'
<1>1. candidate' \in [Launches -> [where : 0..Depth, session : Records] \cup {Absent}]
  BY DEF CandidatesLeave, TInv, TypeOK
<1>2. removing' \in [Launches -> SUBSET Entries]
  BY DEF CandidatesLeave, TInv, TypeOK
<1>3. \A q \in Launches : candidate'[q] = IF q \in gone THEN Absent ELSE candidate[q]
  BY DEF CandidatesLeave
<1>4. \A p \in Launches : removing'[p] = removing[p] \ Listed(gone)
  BY DEF CandidatesLeave
<1>5. \A q \in gone : <<"candidate", q>> \in Listed(gone) /\ <<"candidateDir", q>> \in Listed(gone)
  BY DEF Listed
<1>6. ListedCandidates'
  BY <1>3, <1>4, <1>5 DEF TInv, ListedCandidates, InRuntime
<1>7. QED  BY <1>1, <1>2, <1>3, <1>6

(* A candidate is made beside its target, in a directory that exists.        *)
LEMMA MakeKeeps == ASSUME TInv, NEW p \in Launches, MakeCandidate(p) PROVE TInv'
<1> DEFINE dir == Parent(target[p])
<1>0. pc[p] = "candidate" /\ candidate[p] = Absent /\ pc[p] \in Steps /\ target[p] \in 0..Depth + 1
  BY DEF MakeCandidate, TInv, OwnCandidate, TypeOK
<1>1. PICK step \in {"write", "gone"} : pc' = [pc EXCEPT ![p] = step]
  BY DEF MakeCandidate, Goto, Throw
<1>2. PICK t \in 0..Depth + 1 : target' = [target EXCEPT ![p] = t] /\ t = target[p]
  BY DEF MakeCandidate, TInv, TypeOK
<1>3. UNCHANGED <<directory, owner, chain, artifacts, leaf, removing>>
  BY DEF MakeCandidate
<1>4. PICK c \in [where : 0..Depth, session : Records] \cup {Absent} :
        candidate' = [candidate EXCEPT ![p] = c] /\ (c # Absent => step = "write")
  <2>1. CASE Exists(dir)
    <3>1. dir \in 0..Depth
      BY <1>0, <2>1, DepthNat DEF Exists, Parent, TInv, TypeOK
    <3>2. [where |-> dir, session |-> Empty] \in [where : 0..Depth, session : Records]
      BY <3>1 DEF Records
    <3>3. candidate' = [candidate EXCEPT ![p] = [where |-> dir, session |-> Empty]] /\ step = "write"
      BY <1>1, <2>1 DEF MakeCandidate, Goto, TInv, TypeOK
    <3>4. QED  BY <3>2, <3>3
  <2>2. CASE ~Exists(dir)
    <3>1. UNCHANGED candidate
      BY <2>2 DEF MakeCandidate
    <3>2. QED  BY <1>0, <3>1 DEF TInv, TypeOK
  <2>3. QED  BY <2>1, <2>2
<1>5. ListedCandidates'
  BY <1>0, <1>3, <1>4 DEF TInv, TypeOK, ListedCandidates, InRuntime
<1>6. /\ candidate' \in [Launches -> [where : 0..Depth, session : Records] \cup {Absent}]
      /\ \A q \in Launches \ {p} : candidate'[q] = candidate[q]
      /\ candidate'[p] # Absent => step = "write"
  BY <1>4 DEF TInv, TypeOK
<1>7. /\ directory' \in BOOLEAN /\ owner' \in Records \cup {Absent} /\ artifacts' \subseteq Launches
      /\ chain' \in Seq(Records) /\ Len(chain') <= Depth
      /\ removing' \in [Launches -> SUBSET Entries] /\ leaf' \in [Launches -> 0..Depth]
  BY <1>3 DEF TInv, TypeOK
<1>8. Led'
  BY <1>3 DEF TInv, Led
<1>9. step \in Preparing \/ (step \in Publishing /\ t > 0) => leaf'[p] = 0
  BY <1>0, <1>1, <1>2, <1>3 DEF TInv, Unled, Preparing, Publishing
<1>10. step \in Steps
  BY <1>1 DEF Steps
<1>11. QED  BY <1>1, <1>2, <1>3, <1>5, <1>6, <1>7, <1>8, <1>9, <1>10, StepKeeps

(* The candidate gets its session.json.                                      *)
LEMMA WriteKeeps == ASSUME TInv, NEW p \in Launches, WriteOwner(p) PROVE TInv'
<1>0. pc[p] = "write" /\ target[p] \in 0..Depth + 1
  BY DEF WriteOwner, TInv, TypeOK
<1>1. PICK step \in {"rename", "gone"} : pc' = [pc EXCEPT ![p] = step]
  BY DEF WriteOwner, Goto, Throw
<1>2. PICK t \in 0..Depth + 1 : target' = [target EXCEPT ![p] = t] /\ t = target[p]
  BY DEF WriteOwner, TInv, TypeOK
<1>3. UNCHANGED <<directory, owner, chain, artifacts, leaf, removing>>
  BY DEF WriteOwner
<1>4. PICK c \in [where : 0..Depth, session : Records] \cup {Absent} :
        /\ candidate' = [candidate EXCEPT ![p] = c]
        /\ c # Absent <=> candidate[p] # Absent
        /\ c # Absent => c.where = candidate[p].where
  <2>1. CASE candidate[p] # Absent
    <3>1. candidate[p] \in [where : 0..Depth, session : Records]
      BY <2>1 DEF TInv, TypeOK
    <3>2. PICK c : c = [candidate[p] EXCEPT !.session = p]
      OBVIOUS
    <3>3. c \in [where : 0..Depth, session : Records] /\ c.where = candidate[p].where
      BY <3>1, <3>2 DEF Records
    <3>4. candidate' = [candidate EXCEPT ![p] = c]
      BY <2>1, <3>2 DEF WriteOwner
    <3>5. c # Absent
      BY <3>1, <3>3, SessionAssumption, DepthNat DEF Records
    <3>6. QED  BY <2>1, <3>3, <3>4, <3>5
  <2>2. CASE candidate[p] = Absent
    BY <2>2 DEF WriteOwner, TInv, TypeOK
  <2>3. QED  BY <2>1, <2>2
<1>5. ListedCandidates'
  BY <1>0, <1>3, <1>4 DEF TInv, TypeOK, ListedCandidates, InRuntime
<1>6. /\ candidate' \in [Launches -> [where : 0..Depth, session : Records] \cup {Absent}]
      /\ \A q \in Launches \ {p} : candidate'[q] = candidate[q]
  BY <1>4 DEF TInv, TypeOK
<1>7. /\ directory' \in BOOLEAN /\ owner' \in Records \cup {Absent} /\ artifacts' \subseteq Launches
      /\ chain' \in Seq(Records) /\ Len(chain') <= Depth
      /\ removing' \in [Launches -> SUBSET Entries] /\ leaf' \in [Launches -> 0..Depth]
  BY <1>3 DEF TInv, TypeOK
<1>8. Led'
  BY <1>3 DEF TInv, Led
<1>9. step \in Preparing \/ (step \in Publishing /\ t > 0) => leaf'[p] = 0
  BY <1>0, <1>1, <1>2, <1>3 DEF TInv, Unled, Preparing, Publishing
<1>10. step \in Steps
  BY <1>1 DEF Steps
<1>11. QED  BY <1>1, <1>2, <1>3, <1>5, <1>6, <1>7, <1>8, <1>9, <1>10, StepKeeps

(* Sequences: what a chain becomes when a level is put on it, or taken off. *)
LEMMA LevelPut ==
  ASSUME NEW c \in Seq(Records), NEW n \in 1..Len(c) + 1, NEW r \in Records
  PROVE  /\ Append(SubSeq(c, 1, n - 1), r) \in Seq(Records)
         /\ Len(Append(SubSeq(c, 1, n - 1), r)) = n
<1>1. SubSeq(c, 1, n - 1) \in Seq(Records) /\ Len(SubSeq(c, 1, n - 1)) = n - 1
  OBVIOUS
<1>2. QED  BY <1>1

(* A leaf published on the chain: each level has a launch of its own. *)
LEMMA LeafKeeps ==
  ASSUME TInv, NEW p \in Launches, NEW n \in 1..Depth + 1, NEW r \in Records,
         Len(chain) \in {n - 1, n}, leaf[p] = 0,
         chain' = Append(SubSeq(chain, 1, n - 1), r), leaf' = [leaf EXCEPT ![p] = n]
  PROVE  /\ chain' \in Seq(Records) /\ Len(chain') <= Depth
         /\ leaf' \in [Launches -> 0..Depth] /\ Led'
<1>1. chain \in Seq(Records) /\ leaf \in [Launches -> 0..Depth] /\ n \in Nat /\ Depth \in Nat
  BY DepthNat DEF TInv, TypeOK
<1>2. chain' \in Seq(Records) /\ Len(chain') = n
  BY <1>1, LevelPut
<1>3. \A m \in 1..n : \E q \in Launches : leaf'[q] = m
  <2>1. SUFFICES ASSUME NEW m \in 1..n, m # n PROVE \E q \in Launches : leaf'[q] = m
    BY <1>1
  <2>2. m \in DOMAIN chain
    BY <1>1, <2>1
  <2>3. PICK q \in Launches : leaf[q] = m
    BY <2>2 DEF TInv, Led
  <2>4. q # p
    BY <2>1, <2>3
  <2>5. QED  BY <1>1, <2>3, <2>4
<1>4. leaf' \in [Launches -> Nat]
  BY <1>1
<1>5. n <= Depth
  BY <1>1, <1>3, <1>4, LevelsFit
<1>6. leaf' \in [Launches -> 0..Depth]
  BY <1>1, <1>5
<1>7. DOMAIN chain' = 1..n
  BY <1>2
<1>8. QED  BY <1>2, <1>3, <1>5, <1>6, <1>7 DEF Led

(* Publication: a leaf is the new end of the chain, and the launch leads it. *)
LEMMA RenameKeeps ==
  ASSUME TInv, NEW p \in Launches, Rename(p) \/ RenameOccupied(p)
  PROVE  TInv'
<1>0. /\ pc[p] = "rename" /\ target[p] \in 0..Depth + 1
      /\ candidate[p] \in [where : 0..Depth, session : Records]
      /\ chain \in Seq(Records) /\ Len(chain) \in Nat /\ leaf \in [Launches -> 0..Depth] /\ pc \in [Launches -> Steps]
  BY DEF Rename, RenameOccupied, TInv, TypeOK
<1>1. PICK step \in {"recoveryScan", "sweep", "scan", "walk", "gone", "readOwner"} :
        /\ pc' = [pc EXCEPT ![p] = step]
        /\ step = "walk" => target[p] > 0
        /\ step = "readOwner" => leaf[p] = 0
        /\ Rename(p) => step \in {"recoveryScan", "sweep", "scan"}
  <2>1. CASE Rename(p)
    <3>1. AfterPublishing(p) \in {"recoveryScan", "sweep", "scan"}
      BY DEF AfterPublishing
    <3>2. QED  BY <2>1, <3>1 DEF Rename, Goto
  <2>2. CASE RenameOccupied(p)
    <3>1. AfterOccupied(p) \in {"walk", "gone", "readOwner"}
      BY DEF AfterOccupied
    <3>2. AfterOccupied(p) = "walk" => target[p] > 0
      BY <1>0 DEF AfterOccupied
    <3>3. AfterOccupied(p) = "readOwner" => leaf[p] = 0
      BY <1>0, DepthNat DEF AfterOccupied
    <3>4. ~Rename(p)
      BY <2>2 DEF Rename, RenameOccupied
    <3>5. QED  BY <2>2, <3>1, <3>2, <3>3, <3>4 DEF RenameOccupied, Goto
  <2>3. QED  BY <2>1, <2>2
<1>2. PICK t \in 0..Depth + 1 : target' = [target EXCEPT ![p] = t] /\ t = target[p]
  BY DEF Rename, RenameOccupied, TInv, TypeOK
<1>3. CandidatesLeave({p}) /\ UNCHANGED <<directory, artifacts>>
  BY DEF Rename, RenameOccupied, CandidateLeaves
<1>4. /\ candidate' \in [Launches -> [where : 0..Depth, session : Records] \cup {Absent}]
      /\ removing' \in [Launches -> SUBSET Entries]
      /\ \A q \in Launches : candidate'[q] = IF q = p THEN Absent ELSE candidate[q]
      /\ ListedCandidates'
  BY <1>3, LeavingKeeps
<1>5. /\ owner' \in Records \cup {Absent}
      /\ chain' \in Seq(Records) /\ Len(chain') <= Depth
      /\ leaf' \in [Launches -> 0..Depth] /\ Led'
      /\ \A q \in Launches \ {p} : leaf'[q] = leaf[q]
      /\ ~Rename(p) => leaf'[p] = leaf[p]
  <2>1. CASE Rename(p) /\ target[p] > 0
    <3>1. leaf[p] = 0
      BY <1>0, <2>1 DEF TInv, Unled, Publishing
    <3>2. target[p] \in 1..Depth + 1 /\ Len(chain) \in {target[p] - 1, target[p]}
      BY <1>0, <2>1, DepthNat DEF Rename, Vacant
    <3>3. /\ chain' = Append(SubSeq(chain, 1, target[p] - 1), candidate[p].session)
          /\ leaf' = [leaf EXCEPT ![p] = target[p]] /\ owner' = owner
      <4>1. target[p] # 0
        BY <2>1, <3>2
      <4>2. QED  BY <2>1, <4>1, Zenon DEF Rename
    <3>4. candidate[p].session \in Records
      BY <1>0
    <3>5. /\ chain' \in Seq(Records) /\ Len(chain') <= Depth
          /\ leaf' \in [Launches -> 0..Depth] /\ Led'
      BY <3>1, <3>2, <3>3, <3>4, LeafKeeps
    <3>6. QED  BY <1>0, <2>1, <3>3, <3>5 DEF TInv, TypeOK
  <2>2. CASE RenameOccupied(p) \/ (Rename(p) /\ target[p] = 0)
    <3>1. UNCHANGED <<chain, leaf>> /\ owner' \in {owner, candidate[p].session}
      BY <2>2 DEF Rename, RenameOccupied
    <3>2. QED  BY <1>0, <3>1 DEF TInv, TypeOK, Led
  <2>3. QED  BY <1>0, <2>1, <2>2, DepthNat
<1>6. step \in Preparing \/ (step \in Publishing /\ t > 0) => leaf'[p] = 0
  BY <1>0, <1>1, <1>5 DEF TInv, Unled, Preparing, Publishing
<1>7. step \in Steps /\ directory' \in BOOLEAN /\ artifacts' \subseteq Launches
  BY <1>1, <1>3 DEF Steps, TInv, TypeOK
<1>8. QED  BY <1>1, <1>2, <1>4, <1>5, <1>6, <1>7, StepKeeps

(* A scan takes stale candidates of the runtime directory, and what was     *)
(* listed of them.                                                          *)
LEMMA ScanKeeps ==
  ASSUME TInv, NEW p \in Launches, ScanCandidates(p) \/ RecoveryScan(p)
  PROVE  TInv'
<1>1. PICK step \in {"artifacts", "release", "reclaim", "gone"} : pc' = [pc EXCEPT ![p] = step]
  BY DEF ScanCandidates, RecoveryScan, Scan, Goto
<1>2. PICK gone \in SUBSET Launches : CandidatesLeave(gone)
  BY DEF ScanCandidates, RecoveryScan, Scan, CandidatesIn
<1>3. UNCHANGED <<directory, owner, chain, artifacts, target, leaf>>
  BY DEF ScanCandidates, RecoveryScan, Scan
<1>4. /\ candidate' \in [Launches -> [where : 0..Depth, session : Records] \cup {Absent}]
      /\ removing' \in [Launches -> SUBSET Entries]
      /\ \A q \in Launches : candidate'[q] = IF q \in gone THEN Absent ELSE candidate[q]
      /\ ListedCandidates'
  BY <1>2, LeavingKeeps
<1>5. candidate[p] = Absent
  BY DEF ScanCandidates, RecoveryScan, TInv, OwnCandidate
<1>6. PICK t \in 0..Depth + 1 : target' = [target EXCEPT ![p] = t]
  BY <1>3 DEF TInv, TypeOK
<1>7. /\ directory' \in BOOLEAN /\ owner' \in Records \cup {Absent} /\ artifacts' \subseteq Launches
      /\ chain' \in Seq(Records) /\ Len(chain') <= Depth /\ leaf' \in [Launches -> 0..Depth]
      /\ Led'
  BY <1>3 DEF TInv, TypeOK, Led
<1>8. step \in Steps /\ step \notin Preparing /\ step \notin Publishing
  BY <1>1 DEF Steps, Preparing, Publishing
<1>9. \A q \in Launches \ {p} : leaf'[q] = leaf[q] /\ (candidate'[q] # Absent => candidate[q] # Absent)
  BY <1>3, <1>4
<1>10. candidate'[p] = Absent
  BY <1>4, <1>5
<1>11. QED  BY <1>1, <1>4, <1>6, <1>7, <1>8, <1>9, <1>10, StepKeeps

(* A step of rmSync that leaves the chain alone: what is listed afterwards. *)
LEMMA ReplacedKeeps ==
  ASSUME TInv, NEW p \in Launches, NEW e, NEW more \in SUBSET Entries, Replace(p, e, more)
  PROVE  /\ removing' \in [Launches -> SUBSET Entries]
         /\ removing'[p] \subseteq removing[p] \cup more
         /\ \A q \in Launches \ {p} : removing'[q] = removing[q]
<1>1. removing \in [Launches -> SUBSET Entries]
  BY DEF TInv, TypeOK
<1>2. removing' = [removing EXCEPT ![p] = (removing[p] \ {e}) \cup more]
  BY DEF Replace
<1>3. QED  BY <1>1, <1>2

(* A listed candidate loses its session.json ...                             *)
LEMMA UnlinkCandidateKeeps == ASSUME TInv, NEW p \in Launches, UnlinkCandidate(p) PROVE TInv'
<1>1. PICK q \in Launches :
        /\ <<"candidate", q>> \in removing[p]
        /\ candidate' = [candidate EXCEPT ![q].session = Empty]
        /\ Replace(p, <<"candidate", q>>, {<<"candidateDir", q>>})
        /\ UNCHANGED <<directory, owner, chain, artifacts, pc, target, leaf>>
  BY DEF UnlinkCandidate
<1>2. candidate[q] \in [where : 0..Depth, session : Records] /\ candidate[q].where = 0
  BY <1>1 DEF TInv, TypeOK, ListedCandidates, InRuntime
<1>3. PICK c : c = [candidate[q] EXCEPT !.session = Empty]
  OBVIOUS
<1>4. c \in [where : 0..Depth, session : Records] /\ c.where = 0 /\ c # Absent
  <2>1. c \in [where : 0..Depth, session : Records] /\ c.where = 0
    BY <1>2, <1>3 DEF Records
  <2>2. QED  BY <2>1, SessionAssumption, DepthNat DEF Records
<1>5. candidate' = [candidate EXCEPT ![q] = c]
  BY <1>1, <1>3
<1>6. /\ candidate' \in [Launches -> [where : 0..Depth, session : Records] \cup {Absent}]
      /\ \A r \in Launches : candidate'[r] # Absent <=> candidate[r] # Absent
      /\ \A r \in Launches : InRuntime(r) => candidate'[r] # Absent /\ candidate'[r].where = 0
  <2>1. candidate[q] # Absent
    BY <1>1 DEF TInv, ListedCandidates, InRuntime
  <2>2. QED  BY <1>4, <1>5, <2>1 DEF TInv, TypeOK, InRuntime
<1>7. /\ removing' \in [Launches -> SUBSET Entries]
      /\ removing'[p] \subseteq removing[p] \cup {<<"candidateDir", q>>}
      /\ \A r \in Launches \ {p} : removing'[r] = removing[r]
  <2>1. {<<"candidateDir", q>>} \in SUBSET Entries
    BY EntriesTyped
  <2>2. QED  BY <1>1, <2>1, ReplacedKeeps
<1>8. ListedCandidates'
  <2>1. SUFFICES ASSUME NEW s \in Launches, NEW r \in Launches,
                        <<"candidate", r>> \in removing'[s] \/ <<"candidateDir", r>> \in removing'[s]
                 PROVE  InRuntime(r)
    BY <1>6 DEF ListedCandidates, InRuntime
  <2>2. CASE <<"candidate", r>> \in removing[s] \/ <<"candidateDir", r>> \in removing[s]
    BY <2>2 DEF TInv, ListedCandidates
  <2>3. CASE r = q
    BY <1>1, <2>3 DEF TInv, ListedCandidates
  <2>4. QED  BY <1>7, <2>1, <2>2, <2>3
<1>9. TypeOK' /\ Led' /\ Unled'
  BY <1>1, <1>6, <1>7 DEF TInv, TypeOK, Led, Unled
<1>10. OwnCandidate'
  BY <1>1, <1>6 DEF TInv, OwnCandidate
<1>11. QED  BY <1>8, <1>9, <1>10 DEF TInv

(* ... and goes, for everyone who listed it.                                 *)
LEMMA RemoveCandidateKeeps == ASSUME TInv, NEW p \in Launches, RemoveCandidate(p) PROVE TInv'
<1>1. PICK step \in {pc[p], "gone"} : pc' = [pc EXCEPT ![p] = step]
  BY DEF RemoveCandidate, Throw, Goto, TInv, TypeOK
<1>2. PICK gone \in SUBSET Launches : CandidatesLeave(gone)
  <2>1. PICK q \in Launches : CandidatesLeave({q}) \/ UNCHANGED <<candidate, removing>>
    BY DEF RemoveCandidate, CandidateLeaves
  <2>2. UNCHANGED <<candidate, removing>> => CandidatesLeave({})
    BY DEF CandidatesLeave, Listed, TInv, TypeOK
  <2>3. QED  BY <2>1, <2>2
<1>3. UNCHANGED <<directory, owner, chain, artifacts, target, leaf>>
  BY DEF RemoveCandidate
<1>4. /\ candidate' \in [Launches -> [where : 0..Depth, session : Records] \cup {Absent}]
      /\ removing' \in [Launches -> SUBSET Entries]
      /\ \A q \in Launches : candidate'[q] = IF q \in gone THEN Absent ELSE candidate[q]
      /\ ListedCandidates'
  BY <1>2, LeavingKeeps
<1>5. PICK t \in 0..Depth + 1 : target' = [target EXCEPT ![p] = t] /\ t = target[p]
  BY <1>3 DEF TInv, TypeOK
<1>6. /\ directory' \in BOOLEAN /\ owner' \in Records \cup {Absent} /\ artifacts' \subseteq Launches
      /\ chain' \in Seq(Records) /\ Len(chain') <= Depth /\ leaf' \in [Launches -> 0..Depth]
      /\ Led'
  BY <1>3 DEF TInv, TypeOK, Led
<1>7. step \in Steps
  BY <1>1 DEF Steps, TInv, TypeOK
<1>8. \A q \in Launches : leaf'[q] = leaf[q] /\ (candidate'[q] # Absent => candidate[q] # Absent)
  BY <1>3, <1>4
<1>9. candidate'[p] # Absent => step \in {"write", "rename", "gone", "crashed"}
  BY <1>1, <1>8 DEF TInv, OwnCandidate
<1>10. step \in Preparing \/ (step \in Publishing /\ t > 0) => leaf'[p] = 0
  BY <1>1, <1>5, <1>8 DEF TInv, Unled, Preparing, Publishing
<1>11. QED  BY <1>1, <1>4, <1>5, <1>6, <1>7, <1>8, <1>9, <1>10, StepKeeps

(* A directory of the chain loses its session.json and listed candidates ... *)
LEMMA UnlinkLevelKeeps == ASSUME TInv, NEW p \in Launches, UnlinkLevel(p) PROVE TInv'
<1>1. PICK n \in 1..Depth, kind \in {"level", "bareLevel"} :
        /\ chain' = IF kind = "level" /\ n <= Len(chain) THEN [chain EXCEPT ![n] = Empty] ELSE chain
        /\ \E listed \in SUBSET CandidatesIn(n) :
             candidate' = [q \in Launches |-> IF q \in listed THEN Absent ELSE candidate[q]]
        /\ Replace(p, <<kind, n>>, {<<"levelDir", n>>})
        /\ UNCHANGED <<directory, owner, artifacts, pc, target, leaf>>
  BY DEF UnlinkLevel, Depth
<1>2. chain \in Seq(Records) /\ Len(chain) <= Depth /\ Empty \in Records
  BY DEF TInv, TypeOK, Records
<1>3. chain' \in Seq(Records) /\ Len(chain') = Len(chain)
  BY <1>1, <1>2
<1>4. PICK listed \in SUBSET CandidatesIn(n) :
        candidate' = [q \in Launches |-> IF q \in listed THEN Absent ELSE candidate[q]]
  BY <1>1
<1>5. \A q \in listed : ~InRuntime(q)
  BY DepthNat DEF CandidatesIn, InRuntime
<1>6. /\ candidate' \in [Launches -> [where : 0..Depth, session : Records] \cup {Absent}]
      /\ \A q \in Launches : candidate'[q] # Absent => candidate[q] # Absent
      /\ \A q \in Launches : InRuntime(q) => candidate'[q] = candidate[q]
  BY <1>4, <1>5 DEF TInv, TypeOK
<1>7. /\ removing' \in [Launches -> SUBSET Entries]
      /\ removing'[p] \subseteq removing[p] \cup {<<"levelDir", n>>}
      /\ \A r \in Launches \ {p} : removing'[r] = removing[r]
  <2>1. {<<"levelDir", n>>} \in SUBSET Entries
    BY EntriesTyped
  <2>2. QED  BY <1>1, <2>1, ReplacedKeeps
<1>8. ListedCandidates'
  <2>1. SUFFICES ASSUME NEW s \in Launches, NEW r \in Launches,
                        <<"candidate", r>> \in removing'[s] \/ <<"candidateDir", r>> \in removing'[s]
                 PROVE  InRuntime(r)
    BY <1>6 DEF ListedCandidates, InRuntime
  <2>2. <<"candidate", r>> \in removing[s] \/ <<"candidateDir", r>> \in removing[s]
    BY <1>7, <2>1
  <2>3. QED  BY <2>2 DEF TInv, ListedCandidates
<1>9. TypeOK'
  BY <1>1, <1>2, <1>3, <1>6, <1>7 DEF TInv, TypeOK
<1>10. Led'
  BY <1>1, <1>2, <1>3 DEF TInv, Led
<1>11. OwnCandidate' /\ Unled'
  BY <1>1, <1>6 DEF TInv, OwnCandidate, Unled
<1>12. QED  BY <1>8, <1>9, <1>10, <1>11 DEF TInv

(* ... and goes, if it is the end of the chain: the levels before it stay led. *)
LEMMA RemoveLevelKeeps == ASSUME TInv, NEW p \in Launches, RemoveLevel(p) PROVE TInv'
<1>1. PICK n \in 1..Depth :
        /\ IF n > Len(chain) \/ (n = Len(chain) /\ chain[n] = Empty /\ CandidatesIn(n) = {})
           THEN /\ chain' = SubSeq(chain, 1, IF n > Len(chain) THEN Len(chain) ELSE n - 1)
                /\ Replace(p, <<"levelDir", n>>, {})
                /\ UNCHANGED pc
           ELSE Throw(p) /\ UNCHANGED <<chain, removing>>
        /\ UNCHANGED <<directory, owner, candidate, artifacts, target, leaf>>
  BY DEF RemoveLevel, Depth
<1>2. chain \in Seq(Records) /\ Len(chain) <= Depth /\ Len(chain) \in Nat
  BY DEF TInv, TypeOK
<1>3. PICK step \in {pc[p], "gone"} : pc' = [pc EXCEPT ![p] = step]
  BY <1>1 DEF Throw, Goto, TInv, TypeOK
<1>4. PICK k \in 0..Len(chain) : chain' = SubSeq(chain, 1, k)
  BY <1>1, <1>2
<1>5. chain' \in Seq(Records) /\ Len(chain') = k
  BY <1>2, <1>4
<1>6. removing' \in [Launches -> SUBSET Entries]
      /\ \A q \in Launches : removing'[q] \subseteq removing[q]
  <2>1. CASE Replace(p, <<"levelDir", n>>, {})
    BY <2>1, ReplacedKeeps
  <2>2. CASE UNCHANGED removing
    BY <2>2 DEF TInv, TypeOK
  <2>3. QED  BY <1>1, <2>1, <2>2
<1>7. Led'
  <2>1. DOMAIN chain' \subseteq DOMAIN chain
    BY <1>2, <1>5
  <2>2. QED  BY <1>1, <2>1 DEF TInv, Led
<1>8. ListedCandidates'
  BY <1>1, <1>6 DEF TInv, ListedCandidates, InRuntime
<1>9. PICK t \in 0..Depth + 1 : target' = [target EXCEPT ![p] = t] /\ t = target[p]
  BY <1>1 DEF TInv, TypeOK
<1>10. /\ directory' \in BOOLEAN /\ owner' \in Records \cup {Absent} /\ artifacts' \subseteq Launches
       /\ candidate' \in [Launches -> [where : 0..Depth, session : Records] \cup {Absent}]
       /\ leaf' \in [Launches -> 0..Depth]
       /\ \A q \in Launches : leaf'[q] = leaf[q] /\ candidate'[q] = candidate[q]
  BY <1>1 DEF TInv, TypeOK
<1>11. candidate'[p] # Absent => step \in {"write", "rename", "gone", "crashed"}
  BY <1>3, <1>10 DEF TInv, OwnCandidate
<1>12. step \in Preparing \/ (step \in Publishing /\ t > 0) => leaf'[p] = 0
  BY <1>3, <1>9, <1>10 DEF TInv, Unled, Preparing, Publishing
<1>13. step \in Steps
  BY <1>3 DEF Steps, TInv, TypeOK
<1>14. Len(chain') <= Depth
  BY <1>2, <1>5, DepthNat
<1>15. QED
  BY <1>3, <1>5, <1>6, <1>7, <1>8, <1>9, <1>10, <1>11, <1>12, <1>13, <1>14, StepKeeps

(* Every step of every launch keeps the invariant.                           *)
LEMMA TInvNext == TInv /\ [Next]_vars => TInv'
<1> SUFFICES ASSUME TInv, [Next]_vars PROVE TInv'
  OBVIOUS
<1>1. CASE UNCHANGED vars
  BY <1>1 DEF vars, TInv, TypeOK, Led, Unled, OwnCandidate, ListedCandidates, InRuntime
<1>2. ASSUME NEW p \in Launches, Launch(p) \/ Run(p) \/ Cleanup(p) \/ Crash(p) PROVE TInv'
  BY <1>2, LaunchKeeps, ReadKeeps, ListKeeps
<1>3. ASSUME NEW p \in Launches, Acquire(p) PROVE TInv'
  BY <1>3, LaunchKeeps, ReadKeeps, ListKeeps, MakeKeeps, WriteKeeps, RenameKeeps, ScanKeeps DEF Acquire
<1>4. ASSUME NEW p \in Launches, Recover(p) PROVE TInv'
  BY <1>4, ReadKeeps, ListKeeps, ScanKeeps DEF Recover
<1>5. ASSUME NEW p \in Launches, Remove(p) PROVE TInv'
  BY <1>5, UnlinkKeeps, UnlinkCandidateKeeps, RemoveCandidateKeeps, UnlinkLevelKeeps, RemoveLevelKeeps DEF Remove
<1>6. ASSUME NEW p \in Launches, Removed(p) \/ RemoveDirectory(p) PROVE TInv'
  BY <1>6, ReadKeeps, ListKeeps
<1>7. QED  BY <1>1, <1>2, <1>3, <1>4, <1>5, <1>6 DEF Next, Step

(* Every variable keeps its range for any finite number of launches, however *)
(* they crash and recover; the recovery chain is never longer than their number. *)
THEOREM TypeCorrect == Spec => []TypeOK
<1>1. TInv => TypeOK
  BY DEF TInv
<1>2. QED  BY InitTInv, TInvNext, <1>1, PTL DEF Spec

-----------------------------------------------------------------------------
Owner == <<"owner", 0>>
Artifacts == <<"artifacts", 0>>
Over == {"gone", "crashed"}
Levelled(S) == \E n \in 1..Depth : {<<"level", n>>, <<"bareLevel", n>>, <<"levelDir", n>>} \cap S # {}

(* Only candidates that leave are taken from what a launch lists. *)
Forgets(q) == /\ removing'[q] \subseteq removing[q]
              /\ \A e \in removing[q] \ removing'[q] :
                   \E r \in Launches : e \in Listed({r}) /\ candidate'[r] = Absent

(* A step of p alone: the others keep their places and what they lead.     *)
Untouched(p) ==
  /\ \E step \in Steps : pc' = [pc EXCEPT ![p] = step]
  /\ \A q \in Launches \ {p} :
       target'[q] = target[q] /\ leaf'[q] = leaf[q] /\ Forgets(q)

(* A launch's steps, by what they change besides its place.                *)
Quiet(p) == \/ Launch(p) \/ CheckRecovery(p) \/ CheckArtifacts(p) \/ ReadOwner(p) \/ WalkChain(p)
            \/ RenameMissing(p) \/ Crash(p) \/ Run(p) \/ RemoveDirectory(p)
Lists(p) == \/ Release(p) \/ Reclaim(p) \/ Sweep(p) \/ ReleaseChain(p) \/ Cleanup(p) \/ Removed(p)
Makes(p) == MakeCandidate(p) \/ WriteOwner(p)
Renames(p) == Rename(p) \/ RenameOccupied(p)
Scans(p) == ScanCandidates(p) \/ RecoveryScan(p)

(* The steps of a launch, by what they change.                               *)
LEMMA StepsOf ==
  ASSUME NEW p \in Launches, Launch(p) \/ Step(p) \/ Run(p) \/ Cleanup(p) \/ Crash(p)
  PROVE  Quiet(p) \/ Lists(p) \/ Makes(p) \/ Renames(p) \/ Scans(p) \/ Remove(p)
BY DEF Step, Acquire, Recover, Quiet, Lists, Makes, Renames, Scans

(* A step that changes its own place only, or runs the session.              *)
LEMMA QuietStep ==
  ASSUME TInv, NEW p \in Launches, Quiet(p)
  PROVE  /\ Untouched(p) /\ UNCHANGED <<owner, candidate, removing, leaf>>
         /\ Run(p) \/ UNCHANGED artifacts
<1>1. UNCHANGED <<owner, candidate, removing, leaf>>
  BY DEF Quiet, Launch, CheckRecovery, CheckArtifacts, ReadOwner, WalkChain, RenameMissing, Crash, Run, RemoveDirectory, tree
<1>2. Run(p) \/ UNCHANGED artifacts
  BY DEF Quiet, Launch, CheckRecovery, CheckArtifacts, ReadOwner, WalkChain, RenameMissing, Crash, RemoveDirectory, tree
<1>3. \E step \in Steps : pc' = [pc EXCEPT ![p] = step]
  BY DEF Quiet, Launch, CheckRecovery, CheckArtifacts, ReadOwner, WalkChain, RenameMissing, Crash, Run, RemoveDirectory, Goto, Throw, Steps, TInv, TypeOK
<1>4. \A q \in Launches \ {p} : target'[q] = target[q]
  BY DEF Quiet, Launch, CheckRecovery, CheckArtifacts, ReadOwner, WalkChain, RenameMissing, Crash, Run, RemoveDirectory, TInv, TypeOK
<1>5. QED  BY <1>1, <1>2, <1>3, <1>4 DEF Untouched, Forgets

(* A step that lists what is to be removed, or ends a removal.               *)
LEMMA ListsStep ==
  ASSUME TInv, NEW p \in Launches, Lists(p)
  PROVE  Untouched(p) /\ UNCHANGED <<owner, candidate, artifacts, leaf>>
<1>1. UNCHANGED <<owner, candidate, artifacts, leaf>>
  BY DEF Lists, Release, Reclaim, Sweep, ReleaseChain, Cleanup, Removed, tree
<1>2. \E step \in Steps : pc' = [pc EXCEPT ![p] = step]
  BY DEF Lists, Release, Reclaim, Sweep, ReleaseChain, Cleanup, Removed, Goto, Throw, Steps
<1>3. \A q \in Launches \ {p} : target'[q] = target[q]
  BY DEF Lists, Release, Reclaim, Sweep, ReleaseChain, Cleanup, Removed, TInv, TypeOK
<1>4. \A q \in Launches \ {p} : removing'[q] = removing[q]
  BY DEF Lists, Release, Reclaim, Sweep, ReleaseChain, Cleanup, Removed, TInv, TypeOK
<1>5. QED  BY <1>1, <1>2, <1>3, <1>4 DEF Untouched, Forgets

(* A step that makes its own candidate.                                      *)
LEMMA MakesStep ==
  ASSUME TInv, NEW p \in Launches, Makes(p)
  PROVE  /\ Untouched(p) /\ UNCHANGED <<owner, artifacts, target, leaf, removing>>
         /\ \A q \in Launches \ {p} : candidate'[q] = candidate[q]
<1>1. UNCHANGED <<owner, artifacts, target, leaf, removing>>
  BY DEF Makes, MakeCandidate, WriteOwner
<1>2. \E step \in Steps : pc' = [pc EXCEPT ![p] = step]
  BY DEF Makes, MakeCandidate, WriteOwner, Goto, Throw, Steps
<1>3. \A q \in Launches \ {p} : candidate'[q] = candidate[q]
  BY DEF Makes, MakeCandidate, WriteOwner, TInv, TypeOK
<1>4. QED  BY <1>1, <1>2, <1>3 DEF Untouched, Forgets

(* What leaves its name is taken from every list.                            *)
LEMMA LeavingStep ==
  ASSUME TInv, NEW gone \in SUBSET Launches, CandidatesLeave(gone)
  PROVE  \A q \in Launches : /\ candidate'[q] = IF q \in gone THEN Absent ELSE candidate[q]
                             /\ removing'[q] = removing[q] \ Listed(gone)
                             /\ Forgets(q)
<1>1. \A e \in Listed(gone) : \E r \in gone : e \in Listed({r})
  BY DEF Listed
<1>2. QED  BY <1>1 DEF CandidatesLeave, Forgets

(* A rename takes the candidate of its own launch.                           *)
LEMMA RenamesStep ==
  ASSUME TInv, NEW p \in Launches, Renames(p)
  PROVE  /\ Untouched(p) /\ UNCHANGED <<artifacts, target>>
         /\ CandidatesLeave({p})
         /\ pc[p] = "rename" /\ candidate[p] # Absent
<1>1. UNCHANGED <<artifacts, target>> /\ CandidatesLeave({p}) /\ pc[p] = "rename" /\ candidate[p] # Absent
  BY DEF Renames, Rename, RenameOccupied, CandidateLeaves
<1>2. \E step \in Steps : pc' = [pc EXCEPT ![p] = step]
  BY DEF Renames, Rename, RenameOccupied, Goto, Steps, AfterPublishing, AfterOccupied
<1>3. \A q \in Launches \ {p} : leaf'[q] = leaf[q]
  BY DEF Renames, Rename, RenameOccupied, TInv, TypeOK
<1>4. \A q \in Launches : Forgets(q)
  BY <1>1, LeavingStep
<1>5. QED  BY <1>1, <1>2, <1>3, <1>4 DEF Untouched

(* A scan takes candidates of the runtime directory.                         *)
LEMMA ScansStep ==
  ASSUME TInv, NEW p \in Launches, Scans(p)
  PROVE  /\ Untouched(p) /\ UNCHANGED <<owner, artifacts, target, leaf>>
         /\ \E gone \in SUBSET CandidatesIn(0) : CandidatesLeave(gone)
<1>1. UNCHANGED <<owner, artifacts, target, leaf>>
  BY DEF Scans, ScanCandidates, RecoveryScan, Scan
<1>2. \E step \in Steps : pc' = [pc EXCEPT ![p] = step]
  BY DEF Scans, ScanCandidates, RecoveryScan, Scan, Goto, Steps
<1>3. PICK gone \in SUBSET CandidatesIn(0) : CandidatesLeave(gone)
  BY DEF Scans, ScanCandidates, RecoveryScan, Scan
<1>4. gone \in SUBSET Launches
  BY DEF CandidatesIn
<1>5. \A q \in Launches : Forgets(q)
  BY <1>3, <1>4, LeavingStep
<1>6. QED  BY <1>1, <1>2, <1>3, <1>5 DEF Untouched

(* p's rmSync unlinks the session.json of q's candidate.                   *)
Emptied(p, q) == /\ UNCHANGED <<pc, owner>>
                 /\ <<"candidate", q>> \in removing[p] /\ <<"candidateDir", q>> \in removing'[p]
                 /\ candidate'[q].session = Empty /\ candidate'[q].where = candidate[q].where

(* A step of rmSync: one entry, and what it stands for. *)
Removal(p) ==
  /\ Live(p) /\ removing[p] # {} /\ UNCHANGED <<target, leaf>>
  /\ UNCHANGED pc \/ Throw(p)
  /\ owner' \in {owner, Empty, Absent}
  /\ \/ owner' = owner
     \/ owner \in {Empty, Absent} /\ owner' = Absent
     \/ Owner \in removing[p] /\ Owner \notin removing'[p]
  /\ Owner \in removing'[p] => Owner \in removing[p]
  /\ Artifacts \in removing'[p] => Artifacts \in removing[p]
  /\ Artifacts \in removing[p] /\ Artifacts \notin removing'[p] => artifacts' = {}
  /\ artifacts' = artifacts \/ (Artifacts \in removing[p] /\ artifacts' = {})
  /\ \A q \in Launches :
       /\ candidate'[q] = candidate[q] \/ candidate'[q] = Absent \/ Emptied(p, q)
       /\ \A e \in Listed({q}) : e \in removing'[p] => \E f \in Listed({q}) : f \in removing[p]
       /\ \A r \in Launches : <<"candidateDir", q>> \in removing[r] \ removing'[r] => candidate'[q] = Absent
       /\ q # p => Forgets(q)

(* rmSync goes from one entry to the next.                                   *)
LEMMA ReplaceStep ==
  ASSUME TInv, NEW p \in Launches, NEW e, NEW more, Replace(p, e, more)
  PROVE  /\ removing'[p] = (removing[p] \ {e}) \cup more
         /\ \A q \in Launches \ {p} : removing'[q] = removing[q]
BY DEF Replace, TInv, TypeOK

(* One step of rmSync changes what its entry stands for and nothing else.    *)
LEMMA RemoveStep ==
  ASSUME TInv, NEW p \in Launches, Remove(p)
  PROVE  Removal(p)
<1>1. CASE RemoveArtifacts(p)
  <2>1. /\ removing'[p] = removing[p] \ {Artifacts}
        /\ \A q \in Launches \ {p} : removing'[q] = removing[q]
    BY <1>1, ReplaceStep DEF RemoveArtifacts, Artifacts
  <2>2. QED  BY <1>1, <2>1 DEF RemoveArtifacts, Removal, Remove, Owner, Artifacts, Listed, Forgets
<1>2. CASE UnlinkOwner(p)
  <2>1. /\ removing'[p] = (removing[p] \ {Owner}) \cup {<<"ownerDir", 0>>}
        /\ \A q \in Launches \ {p} : removing'[q] = removing[q]
    BY <1>2, ReplaceStep DEF UnlinkOwner, Owner
  <2>2. QED  BY <1>2, <2>1 DEF UnlinkOwner, Removal, Remove, Owner, Artifacts, Listed, Forgets
<1>3. CASE RemoveOwner(p)
  <2>1. \A q \in Launches : removing'[q] = removing[q] \/ (q = p /\ removing'[q] = removing[q] \ {<<"ownerDir", 0>>})
    BY <1>3, ReplaceStep DEF RemoveOwner
  <2>2. QED  BY <1>3, <2>1 DEF RemoveOwner, Removal, Remove, Owner, Artifacts, Listed, Forgets
<1>4. CASE UnlinkCandidate(p)
  <2>1. PICK q \in Launches :
          /\ <<"candidate", q>> \in removing[p]
          /\ candidate' = [candidate EXCEPT ![q].session = Empty]
          /\ Replace(p, <<"candidate", q>>, {<<"candidateDir", q>>})
          /\ UNCHANGED <<directory, owner, chain, artifacts, pc, target, leaf>>
    BY <1>4 DEF UnlinkCandidate
  <2>2. /\ removing'[p] = (removing[p] \ {<<"candidate", q>>}) \cup {<<"candidateDir", q>>}
        /\ \A r \in Launches \ {p} : removing'[r] = removing[r]
    BY <2>1, ReplaceStep
  <2>3. candidate[q] \in [where : 0..Depth, session : Records]
    BY <2>1 DEF TInv, TypeOK, ListedCandidates, InRuntime
  <2>4. /\ candidate'[q].session = Empty /\ candidate'[q].where = candidate[q].where
        /\ \A r \in Launches \ {q} : candidate'[r] = candidate[r]
    BY <2>1, <2>3 DEF TInv, TypeOK
  <2>5. Emptied(p, q)
    BY <2>1, <2>2, <2>4 DEF Emptied
  <2>6. \A r \in Launches : candidate'[r] = candidate[r] \/ Emptied(p, r)
    BY <2>4, <2>5
  <2>7. \A r \in Launches : \A e \in Listed({r}) : e \in removing'[p] => \E f \in Listed({r}) : f \in removing[p]
    BY <2>1, <2>2 DEF Listed
  <2>8. \A r, w \in Launches : <<"candidateDir", r>> \in removing[w] => <<"candidateDir", r>> \in removing'[w]
    BY <2>2
  <2>9. QED  BY <1>4, <2>1, <2>2, <2>6, <2>7, <2>8 DEF Removal, Remove, Owner, Artifacts, Forgets
<1>5. CASE RemoveCandidate(p)
  <2>1. PICK q \in Launches :
          /\ <<"candidateDir", q>> \in removing[p]
          /\ \/ CandidatesLeave({q}) /\ UNCHANGED pc
             \/ Throw(p) /\ UNCHANGED <<candidate, removing>>
          /\ UNCHANGED <<directory, owner, chain, artifacts, target, leaf>>
    BY <1>5 DEF RemoveCandidate, CandidateLeaves
  <2>2. CASE UNCHANGED <<candidate, removing>> /\ Throw(p)
    BY <1>5, <2>1, <2>2 DEF Removal, Remove, Forgets
  <2>3. CASE CandidatesLeave({q}) /\ UNCHANGED pc
    <3>1. \A r \in Launches : /\ candidate'[r] = IF r = q THEN Absent ELSE candidate[r]
                              /\ removing'[r] = removing[r] \ Listed({q})
                              /\ Forgets(r)
      BY <2>3, LeavingStep
    <3>2. Listed({q}) = {<<"candidate", q>>, <<"candidateDir", q>>}
      BY DEF Listed
    <3>3. QED  BY <1>5, <2>1, <2>3, <3>1, <3>2 DEF Removal, Remove, Owner, Artifacts
  <2>4. QED  BY <2>1, <2>2, <2>3
<1>6. CASE UnlinkLevel(p)
  <2>1. PICK n \in 1..Cardinality(Launches), kind \in {"level", "bareLevel"} :
          /\ <<kind, n>> \in removing[p]
          /\ \E listed \in SUBSET CandidatesIn(n) :
               candidate' = [q \in Launches |-> IF q \in listed THEN Absent ELSE candidate[q]]
          /\ Replace(p, <<kind, n>>, {<<"levelDir", n>>})
          /\ UNCHANGED <<directory, owner, artifacts, pc, target, leaf>>
    BY <1>6 DEF UnlinkLevel
  <2>2. /\ removing'[p] = (removing[p] \ {<<kind, n>>}) \cup {<<"levelDir", n>>}
        /\ \A r \in Launches \ {p} : removing'[r] = removing[r]
    BY <2>1, ReplaceStep
  <2>3. \A q \in Launches : candidate'[q] = candidate[q] \/ candidate'[q] = Absent
    BY <2>1
  <2>4. \A r \in Launches : \A e \in Listed({r}) : e \in removing'[p] => e \in removing[p]
    BY <2>2 DEF Listed
  <2>5. QED  BY <1>6, <2>1, <2>2, <2>3, <2>4 DEF Removal, Remove, Owner, Artifacts, Forgets
<1>7. CASE RemoveLevel(p)
  <2>1. PICK n \in 1..Cardinality(Launches) :
          /\ <<"levelDir", n>> \in removing[p]
          /\ \/ Replace(p, <<"levelDir", n>>, {}) /\ UNCHANGED pc
             \/ Throw(p) /\ UNCHANGED removing
          /\ UNCHANGED <<directory, owner, candidate, artifacts, target, leaf>>
    BY <1>7 DEF RemoveLevel
  <2>2. \A q \in Launches : removing'[q] = removing[q] \/ (q = p /\ removing'[q] = removing[q] \ {<<"levelDir", n>>})
    BY <2>1, ReplaceStep
  <2>3. QED  BY <1>7, <2>1, <2>2 DEF Removal, Remove, Owner, Artifacts, Listed, Forgets
<1>8. QED  BY <1>1, <1>2, <1>3, <1>4, <1>5, <1>6, <1>7 DEF Remove

(* What stands for no level.                                                 *)
LEMMA Unlevelled ==
  /\ ~Levelled({}) /\ ~Levelled({Owner})
  /\ \A c \in SUBSET Launches : ~Levelled({<<"candidate", q>> : q \in c} \cup {Artifacts})
  /\ \A S, T : S \subseteq T /\ Levelled(S) => Levelled(T)
BY DEF Levelled, Owner, Artifacts

(* A level's directory is removed where a level was listed.                  *)
LEMMA LevelledStep ==
  ASSUME TInv, NEW p \in Launches, Remove(p), Levelled(removing'[p])
  PROVE  Levelled(removing[p])
<1>1. CASE UnlinkLevel(p) \/ RemoveLevel(p)
  BY <1>1 DEF UnlinkLevel, RemoveLevel, Levelled, Depth
<1>2. CASE RemoveCandidate(p)
  <2>1. removing'[p] \subseteq removing[p]
    BY <1>2 DEF RemoveCandidate, CandidateLeaves, CandidatesLeave
  <2>2. QED  BY <2>1, Unlevelled
<1>3. CASE RemoveArtifacts(p) \/ UnlinkOwner(p) \/ RemoveOwner(p) \/ UnlinkCandidate(p)
  <2>1. CASE RemoveArtifacts(p) \/ UnlinkOwner(p) \/ RemoveOwner(p)
    <3>1. removing'[p] \subseteq removing[p] \cup {<<"ownerDir", 0>>}
      BY <2>1, ReplaceStep DEF RemoveArtifacts, UnlinkOwner, RemoveOwner, Replace, TInv, TypeOK
    <3>2. QED  BY <3>1 DEF Levelled
  <2>2. CASE UnlinkCandidate(p)
    <3>1. PICK q \in Launches : Replace(p, <<"candidate", q>>, {<<"candidateDir", q>>})
      BY <2>2 DEF UnlinkCandidate
    <3>2. removing'[p] \subseteq removing[p] \cup {<<"candidateDir", q>>}
      BY <3>1, ReplaceStep
    <3>3. QED  BY <3>2 DEF Levelled
  <2>3. QED  BY <1>3, <2>1, <2>2
<1>4. QED  BY <1>1, <1>2, <1>3 DEF Remove

-----------------------------------------------------------------------------
Any(p) == Launch(p) \/ Step(p) \/ Run(p) \/ Cleanup(p) \/ Crash(p)

(* No step of a launch moves another one.                                    *)
LEMMA AnyUntouched ==
  ASSUME TInv, NEW p \in Launches, Any(p)
  PROVE  Untouched(p)
<1>1. CASE Remove(p)
  <2>1. Removal(p)
    BY <1>1, RemoveStep
  <2>2. \E step \in Steps : pc' = [pc EXCEPT ![p] = step]
    BY <2>1 DEF Removal, Throw, Goto, Steps, TInv, TypeOK
  <2>3. QED  BY <2>1, <2>2 DEF Removal, Untouched
<1>2. QED  BY <1>1, StepsOf, QuietStep, ListsStep, MakesStep, RenamesStep, ScansStep DEF Any

(* The steps at which a launch recovers.                                   *)
Leading == {"recoveryScan", "reclaim", "reclaiming", "sweep", "sweeping", "releaseChain"}
LedInv == \A p \in Launches : pc[p] \in Leading => leaf[p] > 0

(* A launch recovers under a leaf of its own only.                           *)
LEMMA LedKeeps ==
  ASSUME TInv, LedInv, NEW p \in Launches, Any(p)
  PROVE  LedInv'
<1>1. Untouched(p)
  BY AnyUntouched
<1>2. pc \in [Launches -> Steps] /\ leaf \in [Launches -> 0..Depth] /\ target \in [Launches -> 0..Depth + 1]
  BY DEF TInv, TypeOK
<1>3. pc'[p] \in Leading => leaf'[p] > 0
  <2>1. CASE Quiet(p)
    BY <1>2, <2>1 DEF Quiet, Launch, CheckRecovery, CheckArtifacts, ReadOwner, WalkChain, RenameMissing, Crash, Run,
       RemoveDirectory, Goto, Throw, Leading
  <2>2. CASE Lists(p)
    BY <1>2, <2>2 DEF Lists, Release, Reclaim, Sweep, ReleaseChain, Cleanup, Removed, Goto, Throw, Leading, LedInv
  <2>3. CASE Makes(p)
    BY <1>2, <2>3 DEF Makes, MakeCandidate, WriteOwner, Goto, Throw, Leading
  <2>4. CASE Renames(p)
    <3>1. CASE Rename(p) /\ target[p] > 0
      BY <1>2, <3>1, DepthNat DEF Rename
    <3>2. CASE Rename(p) /\ target[p] = 0
      BY <1>2, <3>2, DepthNat DEF Rename, AfterPublishing, Goto, Leading
    <3>3. CASE RenameOccupied(p)
      BY <1>2, <3>3 DEF RenameOccupied, AfterOccupied, Goto, Leading
    <3>4. QED  BY <1>2, <2>4, <3>1, <3>2, <3>3, DepthNat DEF Renames
  <2>5. CASE Scans(p)
    BY <1>2, <2>5 DEF Scans, ScanCandidates, RecoveryScan, Scan, Goto, Leading, LedInv
  <2>6. CASE Remove(p)
    BY <1>2, <2>6, RemoveStep DEF Removal, Throw, Goto, Leading, LedInv
  <2>7. QED  BY <2>1, <2>2, <2>3, <2>4, <2>5, <2>6, StepsOf DEF Any
<1>4. QED  BY <1>1, <1>2, <1>3 DEF Untouched, LedInv

(* Entries by step: what is being removed. *)
RemovingInv == \A p \in Launches :
  /\ pc[p] \notin {"releasing", "reclaiming", "sweeping", "releasingChain", "cleaning"} \cup Over => removing[p] = {}
  /\ Owner \in removing[p] => pc[p] \in {"releasing", "reclaiming", "cleaning"} \cup Over
  /\ Artifacts \in removing[p] => pc[p] \in {"sweeping", "cleaning"} \cup Over
  /\ \A q \in Launches : Listed({q}) \cap removing[p] # {} => pc[p] \in {"sweeping", "cleaning"} \cup Over
  /\ Levelled(removing[p]) => pc[p] \in {"releasingChain", "cleaning"} \cup Over

(* A launch removes what its place says, and nothing once it is over.        *)
LEMMA RemovingKeeps ==
  ASSUME TInv, RemovingInv, NEW p \in Launches, Any(p)
  PROVE  RemovingInv'
<1>1. Untouched(p)
  BY AnyUntouched
<1>2. pc \in [Launches -> Steps] /\ removing \in [Launches -> SUBSET Entries]
  BY DEF TInv, TypeOK
<1> DEFINE R(S, step) ==
      /\ step \notin {"releasing", "reclaiming", "sweeping", "releasingChain", "cleaning"} \cup Over => S = {}
      /\ Owner \in S => step \in {"releasing", "reclaiming", "cleaning"} \cup Over
      /\ Artifacts \in S => step \in {"sweeping", "cleaning"} \cup Over
      /\ \A q \in Launches : Listed({q}) \cap S # {} => step \in {"sweeping", "cleaning"} \cup Over
      /\ Levelled(S) => step \in {"releasingChain", "cleaning"} \cup Over
<1>3. \A q \in Launches : Listed({q}) = {<<"candidate", q>>, <<"candidateDir", q>>}
  BY DEF Listed
<1>4. R(removing[p], pc[p])
  BY DEF RemovingInv
<1>5. R(removing'[p], pc'[p])
  <2>1. CASE Quiet(p)
    <3>1. removing'[p] = removing[p]
      BY <2>1, QuietStep
    <3>2. pc'[p] \in {pc[p]} \cup Over \/ removing[p] = {}
      BY <1>2, <1>4, <2>1 DEF Quiet, Launch, CheckRecovery, CheckArtifacts, ReadOwner, WalkChain, RenameMissing, Crash, Run,
         RemoveDirectory, Goto, Throw, Over
    <3>3. QED  BY <1>3, <1>4, <3>1, <3>2, Unlevelled
  <2>2. CASE Lists(p)
    <3>1. CASE Release(p)
      <4>1. removing[p] = {}
        BY <1>4, <3>1 DEF Release, Over
      <4>2. removing'[p] = {} \/ (removing'[p] = {Owner} /\ pc'[p] = "releasing")
        BY <1>2, <3>1, <4>1 DEF Release, Goto, Throw, Owner
      <4>3. QED  BY <1>3, <4>2, Unlevelled DEF Owner, Artifacts
    <3>2. CASE Reclaim(p)
      <4>1. removing[p] = {}
        BY <1>4, <3>2 DEF Reclaim, Over
      <4>2. removing'[p] = {} \/ (removing'[p] = {Owner} /\ pc'[p] = "reclaiming")
        BY <1>2, <3>2, <4>1 DEF Reclaim, Goto, Throw, Owner
      <4>3. QED  BY <1>3, <4>2, Unlevelled DEF Owner, Artifacts
    <3>3. CASE Sweep(p)
      <4>1. removing'[p] = {<<"candidate", q>> : q \in CandidatesIn(0)} \cup {Artifacts} /\ pc'[p] = "sweeping"
        BY <1>2, <3>3 DEF Sweep, Goto, Artifacts
      <4>2. ~Levelled(removing'[p])
        BY <4>1, Unlevelled DEF CandidatesIn
      <4>3. QED  BY <4>1, <4>2 DEF Owner, Artifacts
    <3>4. CASE ReleaseChain(p)
      <4>1. \A e \in Levels : e # Owner /\ e # Artifacts /\ \A q \in Launches : e \notin Listed({q})
        BY <1>3 DEF Levels, Owner, Artifacts
      <4>2. \/ removing'[p] = Levels /\ pc'[p] = "releasingChain"
            \/ removing'[p] = removing[p] /\ pc'[p] = "gone"
        BY <1>2, <3>4 DEF ReleaseChain, Goto, Throw
      <4>3. QED  BY <1>4, <3>4, <4>1, <4>2 DEF Over, ReleaseChain
    <3>5. CASE Cleanup(p)
      <4>1. removing[p] = {}
        BY <1>4, <3>5 DEF Cleanup, Over
      <4>2. pc'[p] = "cleaning" \/ removing'[p] = {}
        BY <1>2, <3>5, <4>1 DEF Cleanup, Goto
      <4>3. QED  BY <4>2, Unlevelled
    <3>6. CASE Removed(p)
      BY <3>6, Unlevelled DEF Removed
    <3>7. QED  BY <2>2, <3>1, <3>2, <3>3, <3>4, <3>5, <3>6 DEF Lists
  <2>3. CASE Makes(p)
    <3>1. removing'[p] = removing[p] /\ removing[p] = {}
      BY <1>4, <2>3, MakesStep DEF Makes, MakeCandidate, WriteOwner, Over
    <3>2. QED  BY <3>1, Unlevelled
  <2>4. CASE Renames(p)
    <3>1. removing[p] = {} /\ removing'[p] = {}
      BY <1>2, <1>4, <2>4, RenamesStep, LeavingStep DEF Over
    <3>2. QED  BY <3>1, Unlevelled
  <2>5. CASE Scans(p)
    <3>1. removing[p] = {}
      BY <1>4, <2>5 DEF Scans, ScanCandidates, RecoveryScan, Over
    <3>2. removing'[p] \subseteq removing[p]
      <4>1. PICK gone \in SUBSET CandidatesIn(0) : CandidatesLeave(gone)
        BY <2>5, ScansStep
      <4>2. gone \in SUBSET Launches
        BY DEF CandidatesIn
      <4>3. QED  BY <4>1, <4>2, LeavingStep
    <3>3. QED  BY <3>1, <3>2, Unlevelled
  <2>6. CASE Remove(p)
    <3>1. Removal(p)
      BY <2>6, RemoveStep
    <3>2. pc'[p] \in {pc[p]} \cup Over
      BY <1>2, <3>1 DEF Removal, Throw, Goto, Over
    <3>3. pc[p] \in {"releasing", "reclaiming", "sweeping", "releasingChain", "cleaning"} \cup Over
      BY <1>4, <3>1 DEF Removal
    <3>4. Levelled(removing'[p]) => Levelled(removing[p])
      BY <2>6, LevelledStep
    <3>5. QED  BY <1>3, <1>4, <3>1, <3>2, <3>3, <3>4 DEF Removal
  <2>7. QED  BY <2>1, <2>2, <2>3, <2>4, <2>5, <2>6, StepsOf DEF Any
<1>6. \A q \in Launches \ {p} : R(removing'[q], pc'[q])
  BY <1>1, <1>2, Unlevelled DEF RemovingInv, Untouched, Forgets
<1>7. QED  BY <1>5, <1>6 DEF RemovingInv

(* A launch that cleans up is alone. *)
AloneInv == \A p, q \in Launches : pc[p] = "cleaning" /\ Live(q) => p = q

(* No launch meets another in the windows that nothing keeps it out of.     *)
Outside == \A p \in Launches : /\ Launch(p) \/ Cleanup(p) => ~CleanupWindow(p)
                               /\ Rename(p) => ~WalkWindow(p)

(* Cleanup starts alone, and no launch starts beside it.                     *)
LEMMA AloneKeeps ==
  ASSUME TInv, AloneInv, Outside, NEW p \in Launches, Any(p)
  PROVE  AloneInv'
<1>1. Untouched(p)
  BY AnyUntouched
<1>2. pc \in [Launches -> Steps]
  BY DEF TInv, TypeOK
<1>3. \A q \in Launches \ {p} : pc'[q] = pc[q]
  BY <1>1, <1>2 DEF Untouched
<1>4. Live(p)' => Live(p) \/ \A q \in Launches : pc[q] # "cleaning"
  <2>1. CASE Launch(p)
    BY <2>1 DEF Launch, Outside, CleanupWindow
  <2>2. CASE Live(p)
    BY <2>2
  <2>3. CASE ~Live(p) /\ ~Launch(p)
    <3>1. ~Remove(p) /\ ~RemoveDirectory(p) /\ ~Removed(p)
      BY <2>3 DEF Remove, RemoveDirectory, Removed, Live
    <3>2. ~Acquire(p) /\ ~Recover(p)
      BY <2>3 DEF Acquire, Recover, Live, CheckRecovery, MakeCandidate, WriteOwner, Rename, RenameOccupied, RenameMissing,
         ScanCandidates, CheckArtifacts, Release, ReadOwner, WalkChain, RecoveryScan, Reclaim, Sweep, ReleaseChain
    <3>3. QED  BY <2>3, <3>1, <3>2 DEF Any, Step, Live, Run, Cleanup, Crash
  <2>4. QED  BY <2>1, <2>2, <2>3
<1>5. pc'[p] = "cleaning" => pc[p] = "cleaning" \/ \A q \in Launches \ {p} : ~Live(q)
  <2>1. CASE Quiet(p)
    BY <1>2, <2>1 DEF Quiet, Launch, CheckRecovery, CheckArtifacts, ReadOwner, WalkChain, RenameMissing, Crash, Run,
       RemoveDirectory, Goto, Throw
  <2>2. CASE Lists(p)
    <3>1. Cleanup(p) => \A q \in Launches \ {p} : ~Live(q)
      BY DEF Cleanup, Outside, CleanupWindow
    <3>2. CASE ~Cleanup(p)
      BY <1>2, <2>2, <3>2 DEF Lists, Release, Reclaim, Sweep, ReleaseChain, Removed, Goto, Throw
    <3>3. QED  BY <3>1, <3>2
  <2>3. CASE Makes(p)
    BY <1>2, <2>3 DEF Makes, MakeCandidate, WriteOwner, Goto, Throw
  <2>4. CASE Renames(p)
    BY <1>2, <2>4 DEF Renames, Rename, RenameOccupied, AfterPublishing, AfterOccupied, Goto
  <2>5. CASE Scans(p)
    BY <1>2, <2>5 DEF Scans, ScanCandidates, RecoveryScan, Scan, Goto
  <2>6. CASE Remove(p)
    BY <1>2, <2>6, RemoveStep DEF Removal, Throw, Goto
  <2>7. QED  BY <2>1, <2>2, <2>3, <2>4, <2>5, <2>6, StepsOf DEF Any
<1>6. \A q \in Launches \ {p} : Live(q)' <=> Live(q)
  BY <1>3 DEF Live
<1>7. QED  BY <1>3, <1>4, <1>5, <1>6 DEF AloneInv, Live

(* A candidate stands beside its target, and bears its own name or none. *)
NamedInv == \A p \in Launches : candidate[p] # Absent =>
  /\ pc[p] \in {"write", "rename"} => candidate[p].where = Parent(target[p])
  /\ pc[p] = "rename" => candidate[p].session \in {p, Empty}

(* Nobody but its launch writes a candidate, or says where it stands.        *)
LEMMA NamedKeeps ==
  ASSUME TInv, NamedInv, NEW p \in Launches, Any(p)
  PROVE  NamedInv'
<1>1. Untouched(p)
  BY AnyUntouched
<1>2. pc \in [Launches -> Steps] /\ target \in [Launches -> 0..Depth + 1]
      /\ candidate \in [Launches -> [where : 0..Depth, session : Records] \cup {Absent}]
  BY DEF TInv, TypeOK
<1>3. \A q \in Launches \ {p} : pc'[q] = pc[q] /\ target'[q] = target[q]
  BY <1>1, <1>2 DEF Untouched
<1>4. ASSUME NEW q \in Launches, q # p \/ (pc'[p] = pc[p] /\ target'[p] = target[p]), candidate'[q] # Absent,
             candidate'[q] = candidate[q]
                \/ (candidate[q] # Absent /\ candidate'[q].session = Empty /\ candidate'[q].where = candidate[q].where)
      PROVE  /\ pc'[q] \in {"write", "rename"} => candidate'[q].where = Parent(target'[q])
             /\ pc'[q] = "rename" => candidate'[q].session \in {q, Empty}
  BY <1>3, <1>4 DEF NamedInv, Parent
<1>5. CASE Quiet(p) \/ Lists(p)
  <2>1. UNCHANGED candidate
    BY <1>5, QuietStep, ListsStep
  <2>2. pc'[p] \notin {"write", "rename"} \/ (pc'[p] = pc[p] /\ target'[p] = target[p])
    BY <1>2, <1>5 DEF Quiet, Launch, CheckRecovery, CheckArtifacts, ReadOwner, WalkChain, RenameMissing, Crash, Run,
       RemoveDirectory, Lists, Release, Reclaim, Sweep, ReleaseChain, Cleanup, Removed, Goto, Throw
  <2>3. QED  BY <1>4, <2>1, <2>2 DEF NamedInv
<1>6. CASE Makes(p)
  <2>1. \A q \in Launches \ {p} : candidate'[q] = candidate[q]
    BY <1>6, MakesStep
  <2>2. CASE MakeCandidate(p) /\ Exists(Parent(target[p]))
    BY <1>2, <1>4, <2>1, <2>2 DEF MakeCandidate, Goto, NamedInv
  <2>3. CASE WriteOwner(p) /\ candidate[p] # Absent
    <3>1. PICK c : c = [candidate[p] EXCEPT !.session = p]
      OBVIOUS
    <3>2. candidate' = [candidate EXCEPT ![p] = c] /\ pc' = [pc EXCEPT ![p] = "rename"] /\ target' = target /\ pc[p] = "write"
      BY <2>3, <3>1 DEF WriteOwner, Goto
    <3>3. c.session = p /\ c.where = candidate[p].where
      BY <1>2, <2>3, <3>1
    <3>4. candidate[p].where = Parent(target[p])
      BY <2>3, <3>2 DEF NamedInv
    <3>5. QED  BY <1>2, <1>4, <2>1, <3>2, <3>3, <3>4 DEF NamedInv
  <2>4. CASE Throw(p) /\ UNCHANGED candidate
    BY <1>2, <1>4, <2>4 DEF NamedInv, Throw, Goto
  <2>5. QED  BY <1>6, <2>2, <2>3, <2>4 DEF Makes, MakeCandidate, WriteOwner
<1>7. CASE Renames(p)
  <2>1. \A q \in Launches : candidate'[q] = IF q = p THEN Absent ELSE candidate[q]
    <3>1. CandidatesLeave({p}) /\ {p} \in SUBSET Launches
      BY <1>7, RenamesStep
    <3>2. QED  BY <3>1, LeavingStep
  <2>2. QED  BY <1>4, <2>1 DEF NamedInv
<1>8. CASE Scans(p)
  <2>1. PICK gone \in SUBSET CandidatesIn(0) : CandidatesLeave(gone)
    BY <1>8, ScansStep
  <2>2. gone \in SUBSET Launches
    BY DEF CandidatesIn
  <2>3. \A q \in Launches : candidate'[q] = IF q \in gone THEN Absent ELSE candidate[q]
    BY <2>1, <2>2, LeavingStep
  <2>4. candidate[p] = Absent
    BY <1>8 DEF Scans, ScanCandidates, RecoveryScan, TInv, OwnCandidate
  <2>5. QED  BY <1>4, <2>3, <2>4 DEF NamedInv
<1>9. CASE Remove(p)
  <2>1. Removal(p)
    BY <1>9, RemoveStep
  <2>2. \A q \in Launches : candidate'[q] # Absent =>
          candidate'[q] = candidate[q]
            \/ (candidate[q] # Absent /\ candidate'[q].session = Empty /\ candidate'[q].where = candidate[q].where)
    BY <2>1 DEF Removal, Emptied, TInv, ListedCandidates, InRuntime
  <2>3. pc'[p] = "gone" \/ (pc'[p] = pc[p] /\ target'[p] = target[p])
    BY <1>2, <2>1 DEF Removal, Throw, Goto
  <2>4. QED  BY <1>4, <2>2, <2>3 DEF NamedInv
<1>10. QED  BY <1>5, <1>6, <1>7, <1>8, <1>9, StepsOf DEF Any

-----------------------------------------------------------------------------
(* A launch that gave up or was killed takes no step.                        *)
LEMMA ActorNotOver ==
  ASSUME NEW p \in Launches, Any(p)
  PROVE  pc[p] \notin Over
<1>1. CASE Remove(p)
  BY <1>1 DEF Remove, Live, Over
<1>2. CASE Launch(p) \/ Run(p) \/ Cleanup(p) \/ Crash(p) \/ Removed(p) \/ RemoveDirectory(p)
  BY <1>2 DEF Launch, Run, Cleanup, Crash, Removed, RemoveDirectory, Live, Over
<1>3. CASE Acquire(p) \/ Recover(p)
  BY <1>3 DEF Acquire, Recover, Over, CheckRecovery, MakeCandidate, WriteOwner, Rename, RenameOccupied, RenameMissing,
     ScanCandidates, CheckArtifacts, Release, ReadOwner, WalkChain, RecoveryScan, Reclaim, Sweep, ReleaseChain
<1>4. QED  BY <1>1, <1>2, <1>3 DEF Any, Step

(* Holding: the steps at which a launch's own record is in owner/. *)
Holding == {"scan", "artifacts", "release", "sweep", "sweeping", "releaseChain", "releasingChain", "owning"}
Holds(p) == pc[p] \in Holding \/ (pc[p] \in {"releasing", "cleaning"} /\ Owner \in removing[p])
HeldInv == \A p \in Launches : Holds(p) => owner = p

(* What is reclaimed belongs to a launch that is over.                     *)
DeadOwner == owner \in Launches /\ pc[owner] \in Over
ReclaimInv == \A p \in Launches : pc[p] = "reclaiming" /\ Owner \in removing[p] => DeadOwner
StartedInv == \A p \in Launches : owner = p => pc[p] # "idle"

(* The chain: no candidate stands below a live recoverer, nor will one that  *)
(* is made where its launch has walked to; who recovers leads the last level, *)
(* and those above it are dead; who removes a level is alone with it.       *)
LiveLevel(n) == chain[n] \in Launches /\ Live(chain[n])
Last == chain[Len(chain)]
BelowDead == \A q \in Launches : candidate[q] # Absent /\ candidate[q].where # 0 =>
  candidate[q].where \in DOMAIN chain /\ ~LiveLevel(candidate[q].where)
WalkedDead == \A p \in Launches : pc[p] = "candidate" /\ target[p] > 1 =>
  (target[p] - 1 \in DOMAIN chain => ~LiveLevel(target[p] - 1))
LeafLast == \A p \in Launches : Recovering(p) => leaf[p] = Len(chain) /\ Last = p
OnlyLast == \A n \in DOMAIN chain : n # Len(chain) => ~LiveLevel(n)
StartedLevels == \A n \in DOMAIN chain : \A p \in Launches : chain[n] = p => pc[p] # "idle"
ListedLevels == \A p \in Launches : Live(p) => \A n \in Nat : <<"level", n>> \in removing[p] =>
  n \in DOMAIN chain /\ chain[n] \in Launches /\ (chain[n] = p \/ ~Live(chain[n]))
ChainInv == BelowDead /\ WalkedDead /\ LeafLast /\ OnlyLast /\ StartedLevels /\ ListedLevels

(* A candidate that lost its record is in a live sweep, or behind a dead    *)
(* owner nobody reclaims, beside a chain that ends in a record.             *)
Bare(p) == pc[p] = "rename" /\ candidate[p] # Absent /\ candidate[p].session = Empty
SweptBy(e, p) == pc[e] = "sweeping" /\ owner = e /\ <<"candidateDir", p>> \in removing[e]
NoReclaim == \A q \in Launches : pc[q] \notin {"reclaim", "reclaiming"}
Abandoned == DeadOwner /\ NoReclaim /\ Len(chain) > 0 /\ Last # Empty
EmptiedInv == \A p \in Launches :
  Bare(p) => candidate[p].where = 0 /\ ((\E e \in Launches : SweptBy(e, p)) \/ Abandoned)

(* Past the sweep of the artifacts there are none.                         *)
Swept(p) == pc[p] \in {"releaseChain", "releasingChain"} \/ (pc[p] = "sweeping" /\ Artifacts \notin removing[p])
CleanInv == \A p \in Launches : Swept(p) => artifacts = {}

SInv == /\ TInv /\ LedInv /\ RemovingInv /\ AloneInv /\ NamedInv
        /\ StartedInv /\ HeldInv /\ ReclaimInv /\ ChainInv /\ EmptiedInv /\ CleanInv

(* A published owner/ changes only where rmSync unlinks its session.json ... *)
LEMMA OwnerStep ==
  ASSUME TInv, RemovingInv, NEW p \in Launches, Any(p), owner \in Launches, owner' # owner
  PROVE  /\ Removal(p) /\ Owner \in removing[p] /\ Owner \notin removing'[p]
         /\ pc[p] \in {"releasing", "reclaiming", "cleaning"}
<1>1. owner # Absent /\ owner # Empty
  BY SessionAssumption
<1>2. ~Renames(p)
  BY <1>1 DEF Renames, Rename, RenameOccupied, Vacant
<1>3. Remove(p)
  BY <1>2, StepsOf, QuietStep, ListsStep, MakesStep, ScansStep DEF Any
<1>4. Removal(p)
  BY <1>3, RemoveStep
<1>5. Owner \in removing[p] /\ Owner \notin removing'[p]
  BY <1>1, <1>4 DEF Removal
<1>6. pc[p] \notin Over
  BY <1>4 DEF Removal, Live, Over
<1>7. QED  BY <1>4, <1>5, <1>6 DEF RemovingInv

(* ... which is the owner releasing it, or a recoverer of one that is over.  *)
LEMMA OwnerGivenUp ==
  ASSUME TInv, RemovingInv, HeldInv, ReclaimInv, NEW p \in Launches, Any(p), owner \in Launches, owner' # owner
  PROVE  owner = p \/ (pc[p] = "reclaiming" /\ pc[owner] \in Over)
BY OwnerStep DEF HeldInv, Holds, ReclaimInv, DeadOwner

(* A launch's place, target, leaf and list are changed by itself only; candidates *)
(* that have left are taken from its list.                                   *)
LEMMA Others ==
  ASSUME TInv, NEW p \in Launches, Any(p), NEW q \in Launches \ {p}
  PROVE  /\ pc'[q] = pc[q] /\ target'[q] = target[q] /\ leaf'[q] = leaf[q] /\ removing'[q] \subseteq removing[q]
         /\ \A r \in Launches : <<"candidateDir", r>> \in removing[q] \ removing'[q] => candidate'[r] = Absent
         /\ Artifacts \in removing[q] => Artifacts \in removing'[q]
<1>1. pc \in [Launches -> Steps]
  BY DEF TInv, TypeOK
<1>2. Untouched(p)
  BY AnyUntouched
<1>3. \A r \in Launches : Listed({r}) = {<<"candidate", r>>, <<"candidateDir", r>>}
  BY DEF Listed
<1>4. Forgets(q) /\ pc'[q] = pc[q] /\ target'[q] = target[q] /\ leaf'[q] = leaf[q]
  BY <1>1, <1>2 DEF Untouched
<1>5. \A r, w \in Launches : /\ Artifacts \notin Listed({r})
                             /\ <<"candidateDir", r>> \in Listed({w}) => w = r
  BY <1>3 DEF Artifacts
<1>6. Artifacts \in removing[q] => Artifacts \in removing'[q]
  BY <1>4, <1>5 DEF Forgets
<1>7. \A r \in Launches : <<"candidateDir", r>> \in removing[q] \ removing'[q] => candidate'[r] = Absent
  BY <1>4, <1>5 DEF Forgets
<1>8. QED  BY <1>4, <1>6, <1>7 DEF Forgets

(* A launch that takes a step from its place has been launched.              *)
LEMMA NeverIdle ==
  ASSUME TInv, NEW p \in Launches, Any(p)
  PROVE  pc'[p] # "idle"
<1>1. pc \in [Launches -> Steps]
  BY DEF TInv, TypeOK
<1>2. CASE Quiet(p)
  BY <1>1, <1>2 DEF Quiet, Launch, CheckRecovery, CheckArtifacts, ReadOwner, WalkChain, RenameMissing, Crash, Run,
     RemoveDirectory, Goto, Throw
<1>3. CASE Lists(p)
  BY <1>1, <1>3 DEF Lists, Release, Reclaim, Sweep, ReleaseChain, Cleanup, Removed, Goto, Throw
<1>4. CASE Makes(p)
  BY <1>1, <1>4 DEF Makes, MakeCandidate, WriteOwner, Goto, Throw
<1>5. CASE Renames(p)
  BY <1>1, <1>5 DEF Renames, Rename, RenameOccupied, AfterPublishing, AfterOccupied, Goto
<1>6. CASE Scans(p)
  BY <1>1, <1>6 DEF Scans, ScanCandidates, RecoveryScan, Scan, Goto
<1>7. CASE Remove(p)
  BY <1>1, <1>7, RemoveStep DEF Removal, Throw, Goto, Live
<1>8. QED  BY <1>2, <1>3, <1>4, <1>5, <1>6, <1>7, StepsOf DEF Any

(* Who is live after a step was so before, or has just been launched.        *)
LEMMA LiveBefore ==
  ASSUME TInv, NEW p \in Launches, Any(p), NEW q \in Launches, Live(q)'
  PROVE  Live(q) \/ (q = p /\ pc[q] = "idle")
<1>1. CASE q = p
  BY <1>1, ActorNotOver DEF Live, Over
<1>2. CASE q # p
  BY <1>2, Others DEF Live
<1>3. QED  BY <1>1, <1>2

(* A level of the chain whose recoverer is dead stays so while its record does. *)
LEMMA LevelStaysDead ==
  ASSUME TInv, StartedLevels, NEW p \in Launches, Any(p), NEW n \in DOMAIN chain,
         chain'[n] \in {chain[n], Empty}, ~LiveLevel(n)
  PROVE  ~LiveLevel(n)'
<1>1. CASE chain'[n] = Empty
  BY <1>1, SessionAssumption DEF LiveLevel
<1>2. CASE chain'[n] = chain[n]
  BY <1>2, LiveBefore DEF LiveLevel, StartedLevels
<1>3. QED  BY <1>1, <1>2

(* A rename puts its launch at the end of the chain, below dead recoverers:  *)
(* the candidate bears its name, and stood below none that lives.            *)
Published(p, n) ==
  /\ pc[p] = "rename" /\ pc'[p] = "recoveryScan" /\ leaf' = [leaf EXCEPT ![p] = n]
  /\ n \in Nat /\ n > 0 /\ n = target[p] /\ Rename(p) /\ Len(chain) \in {n - 1, n}
  /\ Len(chain) = n => chain[n] = Empty /\ CandidatesIn(n) = {}
  /\ n > 1 => ~LiveLevel(n - 1)
  /\ Len(chain') = n /\ chain'[n] = p /\ \A m \in 1..n - 1 : chain'[m] = chain[m]

LEMMA NamedLeaf ==
  ASSUME SInv, NEW p \in Launches, Rename(p), target[p] > 0
  PROVE  candidate[p].session = p /\ (target[p] > 1 => ~LiveLevel(target[p] - 1))
<1> DEFINE n == target[p]
<1>1. n \in Nat /\ n > 0 /\ chain \in Seq(Records) /\ leaf \in [Launches -> 0..Depth]
  BY DepthNat DEF SInv, TInv, TypeOK
<1>2. /\ pc[p] = "rename" /\ candidate[p] # Absent /\ candidate[p].where = Parent(n)
      /\ candidate[p].session \in {p, Empty}
      /\ Len(chain) = n - 1 \/ (Len(chain) = n /\ chain[n] = Empty)
  BY <1>1 DEF Rename, Vacant, SInv, NamedInv
<1>3. n > 1 => ~LiveLevel(n - 1)
  BY <1>1, <1>2 DEF Parent, SInv, ChainInv, BelowDead
<1>4. ASSUME candidate[p].session = Empty PROVE FALSE
  <2>1. candidate[p].where = 0 /\ ((\E e \in Launches : SweptBy(e, p)) \/ Abandoned)
    BY <1>2, <1>4 DEF Bare, SInv, EmptiedInv
  <2>2. n = 1
    BY <1>1, <1>2, <2>1 DEF Parent
  <2>3. ASSUME NEW e \in Launches, SweptBy(e, p) PROVE FALSE
    <3>1. Recovering(e)
      BY <1>1, <2>3 DEF SweptBy, SInv, LedInv, Leading, Recovering, Live
    <3>2. leaf[e] = Len(chain) /\ chain[Len(chain)] = e /\ leaf[e] > 0
      BY <3>1 DEF SInv, ChainInv, LeafLast, Last, Recovering
    <3>3. QED  BY <1>1, <1>2, <2>2, <3>2, SessionAssumption
  <2>4. CASE Abandoned
    BY <1>1, <1>2, <2>2, <2>4 DEF Abandoned, Last
  <2>5. QED  BY <2>1, <2>3, <2>4
<1>5. QED  BY <1>2, <1>3, <1>4

LEMMA LeafPublished ==
  ASSUME SInv, NEW p \in Launches, Rename(p), target[p] > 0
  PROVE  Published(p, target[p])
<1> DEFINE n == target[p]
<1>1. n \in Nat /\ n > 0 /\ chain \in Seq(Records) /\ pc \in [Launches -> Steps]
  BY DepthNat DEF SInv, TInv, TypeOK
<1>2. candidate[p].session = p /\ (n > 1 => ~LiveLevel(n - 1))
  BY NamedLeaf
<1>3. /\ pc[p] = "rename" /\ pc'[p] = "recoveryScan" /\ leaf' = [leaf EXCEPT ![p] = n]
      /\ chain' = Append(SubSeq(chain, 1, n - 1), p)
      /\ Len(chain) = n - 1 \/ (Len(chain) = n /\ chain[n] = Empty /\ CandidatesIn(n) = {})
  BY <1>1, <1>2 DEF Rename, Vacant, AfterPublishing, Goto
<1>4. Len(chain) \in {n - 1, n} /\ (Len(chain) = n => chain[n] = Empty /\ CandidatesIn(n) = {})
  BY <1>1, <1>3
<1>5. DEFINE c == SubSeq(chain, 1, n - 1)
<1>6. c \in Seq(Records) /\ Len(c) = n - 1 /\ \A m \in 1..n - 1 : c[m] = chain[m]
  BY <1>1, <1>4
<1>7. p \in Records
  BY DEF Records
<1> HIDE DEF c
<1>8. Len(Append(c, p)) = n /\ Append(c, p)[n] = p /\ \A m \in 1..n - 1 : Append(c, p)[m] = c[m]
  BY <1>1, <1>6, <1>7
<1>9. chain' = Append(c, p)
  BY <1>3 DEF c
<1>10. Len(chain') = n /\ chain'[n] = p /\ \A m \in 1..n - 1 : chain'[m] = chain[m]
  BY <1>6, <1>8, <1>9
<1>11. QED  BY <1>1, <1>2, <1>3, <1>4, <1>10 DEF Published

(* A removal takes the record of a level it has listed, or the last level,  *)
(* if that is bare and nothing stands in it.                               *)
Unlinked(p, n) ==
  /\ n \in DOMAIN chain /\ <<"level", n>> \in removing[p] /\ <<"level", n>> \notin removing'[p]
  /\ Len(chain') = Len(chain) /\ chain'[n] = Empty /\ \A m \in DOMAIN chain \ {n} : chain'[m] = chain[m]
Shortened(p) ==
  /\ Len(chain) > 0 /\ Last = Empty /\ CandidatesIn(Len(chain)) = {}
  /\ Len(chain') = Len(chain) - 1 /\ \A m \in 1..Len(chain) - 1 : chain'[m] = chain[m]
Shrunk(p) ==
  /\ pc[p] \in {"releasingChain", "cleaning"} /\ UNCHANGED <<pc, leaf>>
  /\ (\E n \in Nat : Unlinked(p, n)) \/ Shortened(p)

LEMMA LevelRemoved ==
  ASSUME SInv, NEW p \in Launches, Remove(p), chain' # chain
  PROVE  Shrunk(p)
<1>1. chain \in Seq(Records) /\ Len(chain) \in Nat /\ Len(chain) <= Depth /\ Live(p)
  BY DEF Remove, SInv, TInv, TypeOK
<1>2. UnlinkLevel(p) \/ RemoveLevel(p)
  BY DEF Remove, RemoveArtifacts, UnlinkOwner, RemoveOwner, UnlinkCandidate, RemoveCandidate
<1>3. Levelled(removing[p])
  BY <1>2 DEF UnlinkLevel, RemoveLevel, Levelled, Depth
<1>4. pc[p] \in {"releasingChain", "cleaning"}
  BY <1>1, <1>3 DEF SInv, RemovingInv, Live, Over
<1>5. CASE UnlinkLevel(p)
  <2>1. PICK n \in 1..Depth :
          /\ <<"level", n>> \in removing[p] /\ n <= Len(chain)
          /\ chain' = [chain EXCEPT ![n] = Empty]
          /\ Replace(p, <<"level", n>>, {<<"levelDir", n>>})
          /\ UNCHANGED <<pc, leaf>>
    BY <1>5 DEF UnlinkLevel, Depth
  <2>2. n \in DOMAIN chain /\ n \in Nat
    BY <1>1, <2>1
  <2>3. removing'[p] = (removing[p] \ {<<"level", n>>}) \cup {<<"levelDir", n>>}
    BY <2>1, ReplaceStep DEF SInv
  <2>4. Len(chain') = Len(chain) /\ chain'[n] = Empty /\ \A m \in DOMAIN chain \ {n} : chain'[m] = chain[m]
    BY <1>1, <2>1, <2>2
  <2>5. Unlinked(p, n)
    BY <2>1, <2>2, <2>3, <2>4 DEF Unlinked
  <2>6. QED  BY <1>4, <2>1, <2>2, <2>5 DEF Shrunk
<1>6. CASE RemoveLevel(p)
  <2>1. PICK n \in 1..Depth :
          /\ n > Len(chain) \/ (n = Len(chain) /\ chain[n] = Empty /\ CandidatesIn(n) = {})
          /\ chain' = SubSeq(chain, 1, IF n > Len(chain) THEN Len(chain) ELSE n - 1)
          /\ UNCHANGED <<pc, leaf>>
    BY <1>6 DEF RemoveLevel, Depth
  <2>2. ASSUME n > Len(chain) PROVE FALSE
    <3>1. chain' = SubSeq(chain, 1, Len(chain))
      BY <2>1, <2>2
    <3>2. SubSeq(chain, 1, Len(chain)) = chain
      BY <1>1
    <3>3. QED  BY <3>1, <3>2
  <2>3. n = Len(chain) /\ chain[n] = Empty /\ CandidatesIn(n) = {} /\ chain' = SubSeq(chain, 1, n - 1) /\ n > 0
    BY <1>1, <2>1, <2>2
  <2>4. Len(chain') = n - 1 /\ \A m \in 1..n - 1 : chain'[m] = chain[m]
    BY <1>1, <2>3
  <2>5. Shortened(p)
    BY <2>3, <2>4 DEF Shortened, Last
  <2>6. QED  BY <1>4, <2>1, <2>5 DEF Shrunk
<1>7. QED  BY <1>2, <1>5, <1>6

(* What a step may do to the chain.                                         *)
LEMMA ChainStep ==
  ASSUME SInv, NEW p \in Launches, Any(p)
  PROVE  chain' = chain \/ (\E n \in Nat : Published(p, n)) \/ Shrunk(p)
<1>1. CASE Rename(p) /\ target[p] > 0
  <2>1. target[p] \in Nat
    BY DepthNat DEF SInv, TInv, TypeOK
  <2>2. QED  BY <1>1, <2>1, LeafPublished
<1>2. CASE Renames(p) /\ ~(Rename(p) /\ target[p] > 0)
  <2>1. target[p] \in Nat
    BY DepthNat DEF SInv, TInv, TypeOK
  <2>2. QED  BY <1>2, <2>1 DEF Renames, Rename, RenameOccupied
<1>3. CASE Remove(p)
  BY <1>3, LevelRemoved
<1>4. CASE Quiet(p)
  BY <1>4 DEF Quiet, Launch, CheckRecovery, CheckArtifacts, ReadOwner, WalkChain, RenameMissing, Crash, Run, RemoveDirectory, tree
<1>5. CASE Lists(p)
  BY <1>5 DEF Lists, Release, Reclaim, Sweep, ReleaseChain, Cleanup, Removed, tree
<1>6. CASE Makes(p) \/ Scans(p)
  BY <1>6 DEF Makes, MakeCandidate, WriteOwner, Scans, ScanCandidates, RecoveryScan, Scan
<1>7. QED  BY <1>1, <1>2, <1>3, <1>4, <1>5, <1>6, StepsOf DEF Any

(* A launch that removes the chain is the session, so there is one of them.  *)
LEMMA OneRemover ==
  ASSUME SInv, NEW p \in Launches, NEW q \in Launches,
         pc[p] \in {"releasingChain", "cleaning"}, pc[q] \in {"releasingChain", "cleaning"}
  PROVE  p = q
<1>1. Live(p) /\ Live(q)
  BY DEF Live
<1>2. CASE pc[p] = "cleaning" \/ pc[q] = "cleaning"
  BY <1>1, <1>2 DEF SInv, AloneInv
<1>3. CASE pc[p] = "releasingChain" /\ pc[q] = "releasingChain"
  BY <1>3 DEF SInv, HeldInv, Holds, Holding
<1>4. QED  BY <1>2, <1>3

(* A candidate is made once, and stays where it was made.                    *)
LEMMA CandidateStep ==
  ASSUME SInv, NEW p \in Launches, Any(p), NEW q \in Launches, candidate'[q] # Absent,
         ~(q = p /\ MakeCandidate(p))
  PROVE  candidate[q] # Absent /\ candidate'[q].where = candidate[q].where
<1>1. candidate \in [Launches -> [where : 0..Depth, session : Records] \cup {Absent}]
  BY DEF SInv, TInv, TypeOK
<1>2. CASE Quiet(p) \/ Lists(p)
  BY <1>2, QuietStep, ListsStep DEF SInv
<1>3. CASE MakeCandidate(p)
  BY <1>3, MakesStep DEF SInv, Makes
<1>4. CASE WriteOwner(p)
  <2>1. CASE q # p
    BY <1>4, <2>1, MakesStep DEF SInv, Makes
  <2>2. CASE q = p
    <3>1. CASE candidate[p] = Absent
      BY <1>1, <1>4, <2>2, <3>1 DEF WriteOwner
    <3>2. CASE candidate[p] # Absent
      <4>1. PICK c : c = [candidate[p] EXCEPT !.session = p]
        OBVIOUS
      <4>2. candidate' = [candidate EXCEPT ![p] = c]
        BY <1>4, <3>2, <4>1 DEF WriteOwner
      <4>3. candidate'[p] = c /\ c.where = candidate[p].where
        BY <1>1, <3>2, <4>1, <4>2
      <4>4. QED  BY <2>2, <3>2, <4>3
    <3>3. QED  BY <3>1, <3>2
  <2>3. QED  BY <2>1, <2>2
<1>5. CASE Renames(p) \/ Scans(p)
  <2>1. PICK gone \in SUBSET Launches : CandidatesLeave(gone)
    <3>1. {p} \in SUBSET Launches /\ CandidatesIn(0) \in SUBSET Launches
      BY DEF CandidatesIn
    <3>2. QED  BY <1>5, <3>1, RenamesStep, ScansStep DEF SInv
  <2>2. candidate'[q] = IF q \in gone THEN Absent ELSE candidate[q]
    BY <2>1 DEF CandidatesLeave
  <2>3. QED  BY <2>2
<1>6. CASE Remove(p)
  <2>1. Removal(p)
    BY <1>6, RemoveStep DEF SInv
  <2>2. CASE Emptied(p, q)
    BY <2>2 DEF Emptied, SInv, TInv, ListedCandidates, InRuntime
  <2>3. QED  BY <2>1, <2>2 DEF Removal
<1>7. QED  BY <1>2, <1>3, <1>4, <1>5, <1>6, StepsOf DEF Any, Makes

(* No candidate stands below a live recoverer: none is made there, and none *)
(* is beside a leaf that is published.                                      *)
LEMMA BelowDeadKeeps ==
  ASSUME SInv, NEW p \in Launches, Any(p)
  PROVE  BelowDead'
<1> SUFFICES ASSUME NEW q \in Launches, candidate'[q] # Absent, NEW k, candidate'[q].where = k, k # 0
             PROVE  k \in DOMAIN chain' /\ ~LiveLevel(k)'
  BY DEF BelowDead, LiveLevel, Live
<1>1. chain \in Seq(Records) /\ chain' \in Seq(Records) /\ TInv /\ StartedLevels
  <2>1. TInv'
    BY TInvNext DEF SInv, Next, Any
  <2>2. QED  BY <2>1 DEF SInv, ChainInv, TInv, TypeOK
<1>2. CASE q = p /\ MakeCandidate(p)
  <2>1. candidate'[p] = [where |-> Parent(target[p]), session |-> Empty] /\ Exists(Parent(target[p]))
    <3>1. candidate \in [Launches -> [where : 0..Depth, session : Records] \cup {Absent}]
      BY DEF SInv, TInv, TypeOK
    <3>2. candidate[p] = Absent
      BY <1>2 DEF MakeCandidate, SInv, TInv, OwnCandidate
    <3>3. QED  BY <1>2, <3>1, <3>2 DEF MakeCandidate
  <2>2. k = Parent(target[p]) /\ k # 0 /\ target[p] \in Nat
    BY <1>2, <2>1, DepthNat DEF SInv, TInv, TypeOK
  <2>3. target[p] > 1 /\ k \in DOMAIN chain
    BY <1>1, <2>1, <2>2 DEF Parent, Exists
  <2>4. ~LiveLevel(k)
    BY <1>2, <2>2, <2>3 DEF MakeCandidate, Parent, SInv, ChainInv, WalkedDead
  <2>5. chain' = chain
    BY <1>2 DEF MakeCandidate
  <2>6. QED  BY <1>1, <2>3, <2>4, <2>5, LevelStaysDead
<1>3. CASE ~(q = p /\ MakeCandidate(p))
  <2>1. candidate[q] # Absent /\ candidate[q].where = k
    BY <1>3, CandidateStep
  <2>2. k \in DOMAIN chain /\ ~LiveLevel(k)
    BY <2>1 DEF SInv, ChainInv, BelowDead
  <2>3. q \in CandidatesIn(k) /\ k \in 1..Len(chain)
    BY <1>1, <2>1, <2>2 DEF CandidatesIn
  <2>4. k \in DOMAIN chain' /\ chain'[k] \in {chain[k], Empty}
    <3>1. ASSUME NEW n \in Nat, Published(p, n) PROVE k \in DOMAIN chain' /\ chain'[k] = chain[k]
      <4>1. k \in 1..n - 1
        BY <2>3, <3>1 DEF Published
      <4>2. QED  BY <1>1, <3>1, <4>1 DEF Published
    <3>2. ASSUME NEW n \in Nat, Unlinked(p, n) PROVE k \in DOMAIN chain' /\ chain'[k] \in {chain[k], Empty}
      BY <1>1, <2>2, <3>2 DEF Unlinked
    <3>3. ASSUME Shortened(p) PROVE k \in DOMAIN chain' /\ chain'[k] = chain[k]
      <4>1. k \in 1..Len(chain) - 1
        BY <2>3, <3>3 DEF Shortened
      <4>2. QED  BY <1>1, <3>3, <4>1 DEF Shortened
    <3>4. QED  BY <2>2, <3>1, <3>2, <3>3, ChainStep DEF Shrunk
  <2>5. QED  BY <1>1, <2>2, <2>4, LevelStaysDead
<1>4. QED  BY <1>2, <1>3

(* A launch is about to publish below a recovery directory that it has read. *)
LEMMA WalkBegins ==
  ASSUME TInv, NEW p \in Launches, Any(p), pc'[p] = "candidate", target'[p] > 1,
         ~(pc[p] = "candidate" /\ target'[p] = target[p])
  PROVE  WalkChain(p)
<1>1. pc \in [Launches -> Steps] /\ target \in [Launches -> 0..Depth + 1]
  BY DEF TInv, TypeOK
<1>2. CASE Quiet(p)
  BY <1>1, <1>2 DEF Quiet, Launch, CheckRecovery, CheckArtifacts, ReadOwner, RenameMissing, Crash, Run, RemoveDirectory, Goto, Throw
<1>3. CASE Lists(p)
  BY <1>1, <1>3 DEF Lists, Release, Reclaim, Sweep, ReleaseChain, Cleanup, Removed, Goto, Throw
<1>4. ~Makes(p) /\ ~Renames(p) /\ ~Scans(p)
  BY <1>1 DEF Makes, MakeCandidate, WriteOwner, Renames, Rename, RenameOccupied, AfterPublishing, AfterOccupied,
     Scans, ScanCandidates, RecoveryScan, Scan, Goto, Throw
<1>5. CASE Remove(p)
  BY <1>1, <1>5, RemoveStep DEF Removal, Throw, Goto
<1>6. QED  BY <1>2, <1>3, <1>4, <1>5, StepsOf DEF Any

(* What a launch has read of the chain stays dead while it makes a candidate *)
(* below: outside the window nobody publishes that recovery directory anew. *)
LEMMA WalkedDeadKeeps ==
  ASSUME SInv, Outside, NEW p \in Launches, Any(p)
  PROVE  WalkedDead'
<1> SUFFICES ASSUME NEW q \in Launches, pc'[q] = "candidate", target'[q] > 1, NEW k, k = target'[q] - 1,
                    k \in DOMAIN chain'
             PROVE  ~LiveLevel(k)'
  BY DEF WalkedDead, LiveLevel, Live
<1>1. /\ chain \in Seq(Records) /\ chain' \in Seq(Records) /\ TInv /\ StartedLevels
      /\ target[q] \in Nat /\ target'[q] \in Nat
  <2>1. TInv'
    BY TInvNext DEF SInv, Next, Any
  <2>2. QED  BY <2>1, DepthNat DEF SInv, ChainInv, TInv, TypeOK
<1>2. k \in 1..Len(chain')
  BY <1>1
<1>3. CASE pc[q] = "candidate" /\ target'[q] = target[q]
  <2>1. CASE Rename(p) /\ target[p] > 0
    <3>1. Published(p, target[p])
      BY <2>1, LeafPublished
    <3>2. target[q] # target[p] + 1
      BY <1>3, <2>1 DEF Outside, WalkWindow
    <3>3. k \in 1..target[p] - 1 /\ Len(chain) >= target[p] - 1
      BY <1>1, <1>2, <1>3, <3>1, <3>2 DEF Published
    <3>4. k \in DOMAIN chain /\ chain'[k] = chain[k]
      BY <1>1, <3>1, <3>3 DEF Published
    <3>5. ~LiveLevel(k)
      BY <1>3, <3>4 DEF SInv, ChainInv, WalkedDead
    <3>6. QED  BY <1>1, <3>4, <3>5, LevelStaysDead
  <2>2. CASE ~(Rename(p) /\ target[p] > 0)
    <3>1. chain' = chain \/ Shrunk(p)
      BY <2>2, ChainStep DEF Published
    <3>2. k \in DOMAIN chain /\ chain'[k] \in {chain[k], Empty}
      <4>1. ASSUME NEW n \in Nat, Unlinked(p, n) PROVE k \in DOMAIN chain /\ chain'[k] \in {chain[k], Empty}
        BY <1>1, <1>2, <4>1 DEF Unlinked
      <4>2. ASSUME Shortened(p) PROVE k \in DOMAIN chain /\ chain'[k] = chain[k]
        BY <1>1, <1>2, <4>2 DEF Shortened
      <4>3. CASE chain' = chain
        BY <1>2, <4>3, <1>1
      <4>4. QED  BY <3>1, <4>1, <4>2, <4>3 DEF Shrunk
    <3>3. ~LiveLevel(k)
      BY <1>3, <3>2 DEF SInv, ChainInv, WalkedDead
    <3>4. QED  BY <1>1, <3>2, <3>3, LevelStaysDead
  <2>3. QED  BY <2>1, <2>2
<1>4. CASE ~(pc[q] = "candidate" /\ target'[q] = target[q])
  <2>1. q = p
    BY <1>1, <1>4, Others
  <2>2. WalkChain(p)
    BY <1>1, <1>4, <2>1, WalkBegins
  <2>3. /\ target'[p] = target[p] + 1 /\ target[p] <= Len(chain)
        /\ chain[target[p]] \notin Unreclaimable /\ chain' = chain
    <3>1. pc \in [Launches -> Steps] /\ target \in [Launches -> 0..Depth + 1]
      BY <1>1 DEF TInv, TypeOK
    <3>2. QED  BY <2>1, <2>2, <3>1 DEF WalkChain, Throw, Goto, tree
  <2>4. k = target[p] /\ k \in DOMAIN chain /\ ~LiveLevel(k)
    BY <1>1, <1>2, <2>1, <2>3 DEF LiveLevel, Unreclaimable
  <2>5. QED  BY <1>1, <2>3, <2>4, LevelStaysDead
<1>5. QED  BY <1>3, <1>4

(* A recovery begins with the publication of its leaf.                      *)
LEMMA RecoveryBegins ==
  ASSUME SInv, NEW p \in Launches, Any(p), NEW q \in Launches, Recovering(q)', ~Recovering(q)
  PROVE  q = p /\ Published(p, leaf'[p])
<1>1. pc \in [Launches -> Steps] /\ leaf \in [Launches -> 0..Depth] /\ target[p] \in Nat
  BY DepthNat DEF SInv, TInv, TypeOK
<1>2. q = p
  BY Others DEF SInv, Recovering, Live
<1>3. CASE Rename(p) /\ target[p] > 0
  <2>1. Published(p, target[p])
    BY <1>3, LeafPublished
  <2>2. leaf'[p] = target[p]
    BY <1>1, <2>1 DEF Published
  <2>3. QED  BY <1>2, <2>1, <2>2
<1>4. CASE ~(Rename(p) /\ target[p] > 0)
  <2>1. leaf'[p] = leaf[p]
    <3>1. CASE Renames(p)
      BY <1>1, <1>4, <3>1 DEF Renames, Rename, RenameOccupied
    <3>2. CASE Remove(p)
      BY <3>2, RemoveStep DEF SInv, Removal
    <3>3. QED  BY <3>1, <3>2, StepsOf, QuietStep, ListsStep, MakesStep, ScansStep DEF Any, SInv
  <2>2. leaf[p] > 0 /\ pc[p] \in {"releasingChain", "owning", "cleaning"}
    BY <1>1, <1>2, <2>1, ActorNotOver DEF Recovering, Live, Over, SInv, TInv, Unled, Preparing
  <2>3. pc'[p] \in {"releasingChain", "owning", "cleaning", "gone", "crashed"}
    <3>1. CASE Quiet(p)
      BY <1>1, <2>2, <3>1 DEF Quiet, Launch, CheckRecovery, CheckArtifacts, ReadOwner, WalkChain, RenameMissing, Crash, Run,
         RemoveDirectory, Goto, Throw
    <3>2. CASE Lists(p)
      BY <1>1, <2>2, <3>2 DEF Lists, Release, Reclaim, Sweep, ReleaseChain, Cleanup, Removed, Goto, Throw
    <3>3. ~Makes(p) /\ ~Renames(p) /\ ~Scans(p)
      BY <2>2 DEF Makes, MakeCandidate, WriteOwner, Renames, Rename, RenameOccupied, Scans, ScanCandidates, RecoveryScan
    <3>4. CASE Remove(p)
      BY <1>1, <2>2, <3>4, RemoveStep DEF SInv, Removal, Throw, Goto
    <3>5. QED  BY <3>1, <3>2, <3>3, <3>4, StepsOf DEF Any
  <2>4. QED  BY <1>2, <2>3 DEF Recovering, Live
<1>5. QED  BY <1>3, <1>4

(* Nobody recovers when a leaf is published: the leaf would stand below him, *)
(* or in his place.                                                         *)
LEMMA NobodyRecovers ==
  ASSUME SInv, NEW p \in Launches, NEW n \in Nat, Published(p, n), NEW q \in Launches, Recovering(q)
  PROVE  FALSE
<1>1. leaf[q] = Len(chain) /\ chain[Len(chain)] = q /\ leaf[q] > 0 /\ Live(q)
  BY DEF SInv, ChainInv, LeafLast, Last, Recovering
<1>2. leaf[q] \in Nat /\ q # Empty
  BY DepthNat, SessionAssumption DEF SInv, TInv, TypeOK
<1>3. CASE Len(chain) = n
  BY <1>1, <1>2, <1>3 DEF Published
<1>4. CASE Len(chain) = n - 1
  BY <1>1, <1>2, <1>4 DEF Published, LiveLevel
<1>5. QED  BY <1>3, <1>4 DEF Published

(* Who recovers leads the end of the chain: nobody publishes below him, and *)
(* who removes the chain is the session.                                    *)
LEMMA LeafLastKeeps ==
  ASSUME SInv, NEW p \in Launches, Any(p)
  PROVE  LeafLast'
<1> SUFFICES ASSUME NEW q \in Launches, Recovering(q)'
             PROVE  leaf'[q] = Len(chain') /\ chain'[Len(chain')] = q
  BY DEF LeafLast, Last
<1>1. chain \in Seq(Records) /\ leaf \in [Launches -> 0..Depth]
  BY DEF SInv, TInv, TypeOK
<1>2. CASE ~Recovering(q)
  <2>1. q = p /\ Published(p, leaf'[p])
    BY <1>2, RecoveryBegins
  <2>2. QED  BY <2>1 DEF Published
<1>3. CASE Recovering(q)
  <2>1. leaf[q] = Len(chain) /\ chain[Len(chain)] = q /\ leaf[q] > 0 /\ Live(q)
    BY <1>3 DEF SInv, ChainInv, LeafLast, Last, Recovering
  <2>2. ASSUME NEW n \in Nat, Published(p, n) PROVE FALSE
    BY <1>3, <2>2, NobodyRecovers
  <2>3. CASE Shrunk(p)
    <3>1. leaf'[q] = leaf[q] /\ q # p /\ Live(p)
      BY <1>3, <2>3 DEF Shrunk, Recovering, Live
    <3>2. ASSUME NEW n \in Nat, Unlinked(p, n), n = Len(chain) PROVE FALSE
      BY <2>1, <3>1, <3>2 DEF Unlinked, SInv, ChainInv, ListedLevels
    <3>3. ASSUME NEW n \in Nat, Unlinked(p, n), n # Len(chain)
          PROVE  Len(chain') = Len(chain) /\ chain'[Len(chain)] = chain[Len(chain)]
      <4>1. Len(chain) \in DOMAIN chain \ {n}
        BY <1>1, <2>1, <3>3
      <4>2. QED  BY <3>3, <4>1 DEF Unlinked
    <3>4. ~Shortened(p)
      BY <2>1, SessionAssumption DEF Shortened, Last
    <3>5. QED  BY <2>1, <2>3, <3>1, <3>2, <3>3, <3>4 DEF Shrunk
  <2>4. CASE chain' = chain
    <3>1. leaf'[q] = leaf[q]
      <4>1. CASE q # p
        BY <4>1, Others DEF SInv
      <4>2. CASE q = p /\ Renames(p)
        <5>1. ~(Rename(p) /\ target[p] > 0)
          BY <2>2, LeafPublished, DepthNat DEF SInv, TInv, TypeOK
        <5>2. target[p] \in Nat
          BY DepthNat DEF SInv, TInv, TypeOK
        <5>3. QED  BY <4>2, <5>1, <5>2 DEF Renames, Rename, RenameOccupied
      <4>3. CASE q = p /\ Remove(p)
        BY <4>3, RemoveStep DEF SInv, Removal
      <4>4. QED  BY <4>1, <4>2, <4>3, StepsOf, QuietStep, ListsStep, MakesStep, ScansStep DEF Any, SInv
    <3>2. QED  BY <2>1, <2>4, <3>1
  <2>5. QED  BY <2>2, <2>3, <2>4, ChainStep
<1>4. QED  BY <1>2, <1>3

(* Above the end of the chain there are only dead recoverers.                *)
LEMMA OnlyLastKeeps ==
  ASSUME SInv, NEW p \in Launches, Any(p)
  PROVE  OnlyLast'
<1> SUFFICES ASSUME NEW m \in DOMAIN chain', m # Len(chain') PROVE ~LiveLevel(m)'
  BY DEF OnlyLast, LiveLevel
<1>1. chain \in Seq(Records) /\ chain' \in Seq(Records) /\ TInv /\ StartedLevels
  <2>1. TInv'
    BY TInvNext DEF SInv, Next, Any
  <2>2. QED  BY <2>1 DEF SInv, ChainInv, TInv, TypeOK
<1>2. m \in 1..Len(chain') - 1
  BY <1>1
<1>3. m \in DOMAIN chain /\ ~LiveLevel(m) /\ chain'[m] \in {chain[m], Empty}
  <2>1. ASSUME NEW n \in Nat, Published(p, n)
        PROVE  m \in DOMAIN chain /\ ~LiveLevel(m) /\ chain'[m] = chain[m]
    <3>1. m \in 1..n - 1 /\ m \in DOMAIN chain /\ chain'[m] = chain[m]
      BY <1>1, <1>2, <2>1 DEF Published
    <3>2. CASE m = n - 1
      BY <2>1, <3>1, <3>2 DEF Published
    <3>3. CASE m # n - 1
      <4>1. m # Len(chain)
        BY <2>1, <3>1, <3>3 DEF Published
      <4>2. QED  BY <3>1, <4>1 DEF SInv, ChainInv, OnlyLast
    <3>4. QED  BY <3>1, <3>2, <3>3
  <2>2. ASSUME NEW n \in Nat, Unlinked(p, n) PROVE m \in DOMAIN chain /\ m # Len(chain) /\ chain'[m] \in {chain[m], Empty}
    BY <1>1, <1>2, <2>2 DEF Unlinked
  <2>3. ASSUME Shortened(p) PROVE m \in DOMAIN chain /\ m # Len(chain) /\ chain'[m] = chain[m]
    BY <1>1, <1>2, <2>3 DEF Shortened
  <2>4. CASE chain' = chain
    BY <1>1, <1>2, <2>4 DEF SInv, ChainInv, OnlyLast
  <2>5. QED  BY <2>1, <2>2, <2>3, <2>4, ChainStep DEF Shrunk, SInv, ChainInv, OnlyLast
<1>4. QED  BY <1>1, <1>3, LevelStaysDead

(* Only a launch that has started leads a level.                             *)
LEMMA StartedLevelsKeeps ==
  ASSUME SInv, NEW p \in Launches, Any(p)
  PROVE  StartedLevels'
<1> SUFFICES ASSUME NEW m \in DOMAIN chain', NEW q \in Launches, chain'[m] = q PROVE pc'[q] # "idle"
  BY DEF StartedLevels
<1>1. chain \in Seq(Records) /\ chain' \in Seq(Records)
  <2>1. TInv'
    BY TInvNext DEF SInv, Next, Any
  <2>2. QED  BY <2>1 DEF SInv, TInv, TypeOK
<1>2. q = p \/ (m \in DOMAIN chain /\ chain[m] = q)
  <2>1. ASSUME NEW n \in Nat, Published(p, n) PROVE q = p \/ (m \in DOMAIN chain /\ chain[m] = q)
    BY <1>1, <2>1 DEF Published
  <2>2. ASSUME NEW n \in Nat, Unlinked(p, n) PROVE m \in DOMAIN chain /\ chain[m] = q
    <3>1. m # n
      BY <2>2, SessionAssumption DEF Unlinked
    <3>2. m \in DOMAIN chain \ {n}
      BY <1>1, <2>2, <3>1 DEF Unlinked
    <3>3. QED  BY <2>2, <3>2 DEF Unlinked
  <2>3. ASSUME Shortened(p) PROVE m \in DOMAIN chain /\ chain[m] = q
    BY <1>1, <2>3 DEF Shortened
  <2>4. QED  BY <2>1, <2>2, <2>3, ChainStep DEF Shrunk
<1>3. pc[q] # "idle" \/ q = p
  BY <1>2 DEF SInv, ChainInv, StartedLevels
<1>4. QED  BY <1>3, Others, NeverIdle DEF SInv

(* Levels are listed by a recoverer that has got through, and by a session  *)
(* that cleans up: none of them is led by another launch that lives.        *)
LEMMA LevelsListed ==
  ASSUME SInv, Outside, NEW p \in Launches, Any(p), NEW k \in Nat,
         <<"level", k>> \in removing'[p], <<"level", k>> \notin removing[p]
  PROVE  /\ chain' = chain /\ Live(p) /\ k \in DOMAIN chain /\ chain[k] \in Launches
         /\ chain[k] = p \/ ~Live(chain[k])
<1>1. chain \in Seq(Records) /\ leaf \in [Launches -> 0..Depth] /\ removing \in [Launches -> SUBSET Entries]
  BY DEF SInv, TInv, TypeOK
<1>2. ReleaseChain(p) \/ Cleanup(p)
  <2>1. ~Quiet(p) /\ ~Makes(p)
    BY QuietStep, MakesStep DEF SInv
  <2>2. ~Renames(p) /\ ~Scans(p)
    <3>1. {p} \in SUBSET Launches /\ CandidatesIn(0) \in SUBSET Launches
      BY DEF CandidatesIn
    <3>2. \A gone \in SUBSET Launches : ~CandidatesLeave(gone)
      BY DEF CandidatesLeave
    <3>3. QED  BY <3>1, <3>2, RenamesStep, ScansStep DEF SInv
  <2>3. ~Remove(p)
    <3>1. ASSUME RemoveArtifacts(p) \/ UnlinkOwner(p) \/ RemoveOwner(p) PROVE FALSE
      BY <1>1, <3>1 DEF RemoveArtifacts, UnlinkOwner, RemoveOwner, Replace
    <3>2. ASSUME UnlinkCandidate(p) \/ UnlinkLevel(p) \/ RemoveLevel(p) PROVE FALSE
      <4>1. ASSUME UnlinkCandidate(p) PROVE FALSE
        <5>1. PICK q \in Launches : Replace(p, <<"candidate", q>>, {<<"candidateDir", q>>})
          BY <4>1 DEF UnlinkCandidate
        <5>2. removing'[p] = (removing[p] \ {<<"candidate", q>>}) \cup {<<"candidateDir", q>>}
          BY <5>1, ReplaceStep DEF SInv
        <5>3. QED  BY <5>2
      <4>2. ASSUME UnlinkLevel(p) PROVE FALSE
        <5>1. PICK n \in 1..Depth, kind \in {"level", "bareLevel"} : Replace(p, <<kind, n>>, {<<"levelDir", n>>})
          BY <4>2 DEF UnlinkLevel, Depth
        <5>2. removing'[p] = (removing[p] \ {<<kind, n>>}) \cup {<<"levelDir", n>>}
          BY <5>1, ReplaceStep DEF SInv
        <5>3. QED  BY <5>2
      <4>3. ASSUME RemoveLevel(p) PROVE FALSE
        <5>1. PICK n \in 1..Depth : Replace(p, <<"levelDir", n>>, {}) \/ UNCHANGED removing
          BY <4>3 DEF RemoveLevel, Depth
        <5>2. removing'[p] \subseteq removing[p]
          BY <5>1, ReplaceStep DEF SInv
        <5>3. QED  BY <5>2
      <4>4. QED  BY <3>2, <4>1, <4>2, <4>3
    <3>3. ASSUME RemoveCandidate(p) PROVE FALSE
      BY <1>1, <3>3 DEF RemoveCandidate, CandidateLeaves, CandidatesLeave
    <3>4. QED  BY <3>1, <3>2, <3>3 DEF Remove
  <2>4. ~(Release(p) \/ Reclaim(p) \/ Sweep(p) \/ Removed(p))
    BY <1>1 DEF Release, Reclaim, Sweep, Removed
  <2>5. QED  BY <2>1, <2>2, <2>3, <2>4, StepsOf DEF Any, Lists
<1>3. chain' = chain /\ Live(p) /\ <<"level", k>> \in Levels
  BY <1>1, <1>2 DEF ReleaseChain, Cleanup, tree, Live
<1>4. k \in DOMAIN chain /\ chain[k] # Empty
  BY <1>3 DEF Levels
<1>5. chain[k] \in Launches
  BY <1>1, <1>4 DEF Records
<1>6. ASSUME ReleaseChain(p) PROVE chain[k] = p \/ ~Live(chain[k])
  <2>1. Recovering(p)
    BY <1>1, <1>6 DEF ReleaseChain, SInv, LedInv, Leading, Recovering, Live
  <2>2. chain[Len(chain)] = p
    BY <2>1 DEF SInv, ChainInv, LeafLast, Last
  <2>3. CASE k = Len(chain)
    BY <2>2, <2>3
  <2>4. CASE k # Len(chain)
    BY <1>4, <1>5, <2>4 DEF SInv, ChainInv, OnlyLast, LiveLevel
  <2>5. QED  BY <2>3, <2>4
<1>7. ASSUME Cleanup(p) PROVE chain[k] = p \/ ~Live(chain[k])
  BY <1>5, <1>7 DEF Cleanup, Outside, CleanupWindow
<1>8. QED  BY <1>2, <1>3, <1>4, <1>5, <1>6, <1>7

LEMMA ListedLevelsKeeps ==
  ASSUME SInv, Outside, NEW p \in Launches, Any(p)
  PROVE  ListedLevels'
<1> SUFFICES ASSUME NEW r \in Launches, Live(r)', NEW k \in Nat, <<"level", k>> \in removing'[r]
             PROVE  /\ k \in DOMAIN chain' /\ chain'[k] \in Launches
                    /\ chain'[k] = r \/ ~Live(chain[k])'
  BY DEF ListedLevels, Live
<1>1. chain \in Seq(Records) /\ chain' \in Seq(Records) /\ TInv /\ StartedLevels
  <2>1. TInv'
    BY TInvNext DEF SInv, Next, Any
  <2>2. QED  BY <2>1 DEF SInv, ChainInv, TInv, TypeOK
<1>2. CASE <<"level", k>> \notin removing[r]
  <2>1. r = p
    BY <1>2, Others DEF SInv
  <2>2. /\ chain' = chain /\ Live(p) /\ k \in DOMAIN chain /\ chain[k] \in Launches
        /\ chain[k] = p \/ ~Live(chain[k])
    BY <1>2, <2>1, LevelsListed
  <2>3. chain[k] # p /\ ~Live(chain[k]) => ~Live(chain[k])'
    BY <1>1, <2>2, LiveBefore
  <2>4. QED  BY <2>1, <2>2, <2>3
<1>3. CASE <<"level", k>> \in removing[r]
  <2>1. Live(r)
    BY <1>3, LiveBefore DEF SInv, RemovingInv, Over
  <2>2. /\ k \in DOMAIN chain /\ chain[k] \in Launches /\ chain[k] # Empty
        /\ chain[k] = r \/ ~Live(chain[k])
    BY <1>3, <2>1, SessionAssumption DEF SInv, ChainInv, ListedLevels
  <2>3. k \in 1..Len(chain)
    BY <1>1, <2>2
  <2>4. k \in DOMAIN chain' /\ chain'[k] = chain[k]
    <3>1. ASSUME NEW n \in Nat, Published(p, n) PROVE k \in DOMAIN chain' /\ chain'[k] = chain[k]
      <4>1. k \in 1..n - 1
        BY <2>2, <2>3, <3>1 DEF Published
      <4>2. QED  BY <1>1, <3>1, <4>1 DEF Published
    <3>2. ASSUME Shrunk(p), NEW n \in Nat, Unlinked(p, n) PROVE k \in DOMAIN chain' /\ chain'[k] = chain[k]
      <4>1. Levelled(removing[r])
        <5>1. k \in 1..Depth
          BY <2>3, DepthNat DEF SInv, TInv, TypeOK
        <5>2. QED  BY <1>3, <5>1 DEF Levelled
      <4>2. pc[r] \in {"releasingChain", "cleaning"}
        BY <2>1, <4>1 DEF SInv, RemovingInv, Live, Over
      <4>3. p = r
        BY <3>2, <4>2, OneRemover DEF Shrunk
      <4>4. k # n
        BY <3>2, <4>3 DEF Unlinked
      <4>5. QED  BY <1>1, <2>2, <3>2, <4>4 DEF Unlinked
    <3>3. ASSUME Shortened(p) PROVE k \in DOMAIN chain' /\ chain'[k] = chain[k]
      <4>1. k \in 1..Len(chain) - 1
        BY <2>2, <2>3, <3>3 DEF Shortened, Last
      <4>2. QED  BY <1>1, <3>3, <4>1 DEF Shortened
    <3>4. QED  BY <2>2, <3>1, <3>2, <3>3, ChainStep DEF Shrunk
  <2>5. ~Live(chain[k]) => ~Live(chain[k])'
    <3>1. PICK q \in Launches : q = chain[k]
      BY <2>2
    <3>2. pc[q] # "idle"
      BY <1>1, <2>2, <3>1 DEF StartedLevels
    <3>3. Live(q)' => Live(q)
      BY <1>1, <3>2, LiveBefore
    <3>4. QED  BY <2>4, <3>1, <3>3 DEF Live
  <2>6. QED  BY <2>2, <2>4, <2>5
<1>4. QED  BY <1>2, <1>3

(* So the chain keeps its order, and one launch at most recovers.            *)
LEMMA ChainKeeps ==
  ASSUME SInv, Outside, NEW p \in Launches, Any(p)
  PROVE  ChainInv'
BY BelowDeadKeeps, WalkedDeadKeeps, LeafLastKeeps, OnlyLastKeeps, StartedLevelsKeeps, ListedLevelsKeeps DEF ChainInv

(* A launch comes to hold owner/ by publishing a candidate that bears its name. *)
LEMMA NewHolder ==
  ASSUME SInv, NEW p \in Launches, Any(p), Holds(p)', ~Holds(p)
  PROVE  owner' = p
<1>1. pc \in [Launches -> Steps] /\ target \in [Launches -> 0..Depth + 1]
  BY DEF SInv, TInv, TypeOK
<1>2. CASE Quiet(p)
  <2>1. removing' = removing
    BY <1>2, QuietStep DEF SInv
  <2>2. QED  BY <1>1, <1>2, <2>1 DEF Quiet, Launch, CheckRecovery, CheckArtifacts, ReadOwner, WalkChain, RenameMissing, Crash, Run,
     RemoveDirectory, Goto, Throw, Holds, Holding
<1>3. CASE Lists(p)
  BY <1>1, <1>3 DEF Lists, Release, Reclaim, Sweep, ReleaseChain, Cleanup, Removed, Goto, Throw, Holds, Holding
<1>4. CASE Makes(p)
  BY <1>1, <1>4 DEF Makes, MakeCandidate, WriteOwner, Goto, Throw, Holds, Holding
<1>5. CASE Renames(p)
  <2>1. CASE RenameOccupied(p)
    BY <1>1, <2>1 DEF RenameOccupied, AfterOccupied, Goto, Holds, Holding
  <2>2. CASE Rename(p) /\ target[p] # 0
    <3>1. target[p] > 0
      BY <1>1, <2>2, DepthNat
    <3>2. pc' = [pc EXCEPT ![p] = "recoveryScan"]
      BY <2>2, <3>1 DEF Rename, AfterPublishing, Goto
    <3>3. QED  BY <1>1, <3>2 DEF Holds, Holding
  <2>3. CASE Rename(p) /\ target[p] = 0
    <3>1. owner' = candidate[p].session /\ owner \in {Absent, Empty} /\ pc[p] = "rename" /\ candidate[p] # Absent
      BY <2>3 DEF Rename, Vacant
    <3>2. candidate[p].session \in {p, Empty}
      BY <3>1 DEF SInv, NamedInv
    <3>3. owner \notin Launches
      BY <3>1, SessionAssumption
    <3>4. ~Bare(p)
      BY <3>3 DEF SInv, EmptiedInv, SweptBy, Abandoned, DeadOwner
    <3>5. QED  BY <2>3, <3>1, <3>2, <3>4 DEF Bare
  <2>4. QED  BY <1>5, <2>1, <2>2, <2>3 DEF Renames
<1>6. CASE Scans(p)
  BY <1>1, <1>6 DEF Scans, ScanCandidates, RecoveryScan, Scan, Goto, Holds, Holding
<1>7. CASE Remove(p)
  <2>1. Removal(p)
    BY <1>7, RemoveStep DEF SInv
  <2>2. pc'[p] = pc[p] \/ pc'[p] = "gone"
    BY <1>1, <2>1 DEF Removal, Throw, Goto
  <2>3. QED  BY <2>1, <2>2 DEF Removal, Holds, Holding
<1>8. QED  BY <1>2, <1>3, <1>4, <1>5, <1>6, <1>7, StepsOf DEF Any

(* What a launch holds stays recorded: nobody else gives it up.              *)
LEMMA HeldKeeps ==
  ASSUME SInv, NEW p \in Launches, Any(p)
  PROVE  HeldInv'
<1>1. pc \in [Launches -> Steps]
  BY DEF SInv, TInv, TypeOK
<1>2. ASSUME NEW q \in Launches \ {p}, Holds(q)' PROVE owner' = q
  <2>1. Holds(q) /\ pc[q] \notin Over
    BY <1>2, Others DEF SInv, Holds, Holding, Over
  <2>2. owner = q
    BY <2>1 DEF SInv, HeldInv
  <2>3. QED  BY <2>1, <2>2, OwnerGivenUp DEF SInv
<1>3. ASSUME Holds(p)', Holds(p) PROVE owner' = p
  <2>1. owner = p
    BY <1>3 DEF SInv, HeldInv
  <2>2. ASSUME owner' # owner PROVE FALSE
    <3>1. /\ Removal(p) /\ Owner \notin removing'[p]
          /\ pc[p] \in {"releasing", "reclaiming", "cleaning"}
      BY <2>1, <2>2, OwnerStep DEF SInv
    <3>2. pc'[p] = pc[p] \/ pc'[p] = "gone"
      BY <1>1, <3>1 DEF Removal, Throw, Goto
    <3>3. QED  BY <1>3, <3>1, <3>2 DEF Holds, Holding
  <2>3. QED  BY <2>1, <2>2
<1>4. QED  BY <1>2, <1>3, NewHolder DEF HeldInv

(* Only a launch that has started is recorded.                               *)
LEMMA StartedKeeps ==
  ASSUME SInv, NEW p \in Launches, Any(p)
  PROVE  StartedInv'
<1>1. pc \in [Launches -> Steps]
  BY DEF SInv, TInv, TypeOK
<1>2. pc'[p] # "idle"
  BY NeverIdle DEF SInv
<1>3. owner' \in {owner, Empty, Absent, p}
  <2>1. CASE Renames(p)
    <3>1. candidate[p].session \in {p, Empty}
      BY <2>1, RenamesStep DEF SInv, NamedInv
    <3>2. QED  BY <2>1, <3>1 DEF Renames, Rename, RenameOccupied
  <2>2. CASE Remove(p)
    BY <2>2, RemoveStep DEF SInv, Removal
  <2>3. QED  BY <2>1, <2>2, StepsOf, QuietStep, ListsStep, MakesStep, ScansStep DEF Any, SInv
<1>4. QED  BY <1>2, <1>3, Others, SessionAssumption DEF SInv, StartedInv

(* A dead owner stays dead while its record stands.                          *)
LEMMA DeadStays ==
  ASSUME TInv, NEW p \in Launches, Any(p), DeadOwner, owner' = owner
  PROVE  DeadOwner'
BY ActorNotOver, Others DEF DeadOwner

(* Two launches that recover are one.                                        *)
LEMMA BothRecover ==
  ASSUME SInv, NEW p \in Launches, NEW q \in Launches, pc[p] \in Leading, pc[q] \in Leading
  PROVE  p = q
<1>1. Recovering(p) /\ Recovering(q)
  BY DEF SInv, LedInv, Recovering, Leading, Live
<1>2. QED  BY <1>1 DEF SInv, ChainInv, LeafLast

(* What is reclaimed has a dead owner, and keeps it until it is removed.     *)
LEMMA ReclaimKeeps ==
  ASSUME SInv, NEW p \in Launches, Any(p)
  PROVE  ReclaimInv'
<1>1. pc \in [Launches -> Steps]
  BY DEF SInv, TInv, TypeOK
<1> SUFFICES ASSUME NEW q \in Launches, pc'[q] = "reclaiming", Owner \in removing'[q] PROVE DeadOwner'
  BY DEF ReclaimInv
<1>2. CASE pc[q] = "reclaiming" /\ Owner \in removing[q]
  <2>1. DeadOwner
    BY <1>2 DEF SInv, ReclaimInv
  <2>2. ASSUME owner' # owner PROVE FALSE
    <3>1. Owner \in removing[p] /\ Owner \notin removing'[p] /\ pc[p] \in {"releasing", "reclaiming", "cleaning"}
      BY <2>1, <2>2, OwnerStep DEF SInv, DeadOwner
    <3>2. pc[p] = "reclaiming"
      BY <2>1, <2>2, <3>1, OwnerGivenUp, ActorNotOver DEF SInv, DeadOwner
    <3>3. p = q
      BY <1>2, <3>2, BothRecover DEF Leading
    <3>4. QED  BY <3>1, <3>3
  <2>3. QED  BY <2>1, <2>2, DeadStays DEF SInv
<1>3. CASE ~(pc[q] = "reclaiming" /\ Owner \in removing[q])
  <2>1. q = p
    BY <1>3, Others DEF SInv
  <2>2. Reclaim(p) /\ owner \notin Unreclaimable /\ owner # Absent
    <3>1. CASE Quiet(p)
      <4>1. removing' = removing
        BY <3>1, QuietStep DEF SInv
      <4>2. QED  BY <1>1, <1>3, <2>1, <3>1, <4>1 DEF Quiet, Launch, CheckRecovery, CheckArtifacts, ReadOwner, WalkChain,
         RenameMissing, Crash, Run, RemoveDirectory, Goto, Throw
    <3>2. CASE Lists(p)
      BY <1>1, <1>3, <2>1, <3>2 DEF Lists, Release, Reclaim, Sweep, ReleaseChain, Cleanup, Removed, Goto, Throw
    <3>3. CASE Makes(p)
      BY <1>1, <2>1, <3>3 DEF Makes, MakeCandidate, WriteOwner, Goto, Throw
    <3>4. CASE Renames(p)
      BY <1>1, <2>1, <3>4 DEF Renames, Rename, RenameOccupied, AfterPublishing, AfterOccupied, Goto
    <3>5. CASE Scans(p)
      BY <1>1, <2>1, <3>5 DEF Scans, ScanCandidates, RecoveryScan, Scan, Goto
    <3>6. CASE Remove(p)
      <4>1. Removal(p)
        BY <3>6, RemoveStep DEF SInv
      <4>2. pc'[p] = pc[p] \/ pc'[p] = "gone"
        BY <1>1, <4>1 DEF Removal, Throw, Goto
      <4>3. QED  BY <1>3, <2>1, <4>1, <4>2 DEF Removal
    <3>7. QED  BY <3>1, <3>2, <3>3, <3>4, <3>5, <3>6, StepsOf DEF Any
  <2>3. owner' = owner
    BY <2>2 DEF Reclaim, tree
  <2>4. owner \in Launches /\ ~Live(owner)
    BY <2>2 DEF Unreclaimable, SInv, TInv, TypeOK, Records
  <2>5. DeadOwner
    BY <2>4 DEF SInv, StartedInv, DeadOwner, Live, Over
  <2>6. QED  BY <2>3, <2>5, DeadStays DEF SInv
<1>4. QED  BY <1>2, <1>3

(* A launch reclaims once no candidate stands in the runtime directory.      *)
LEMMA ReclaimBegins ==
  ASSUME SInv, NEW p \in Launches, Any(p), pc'[p] \in {"reclaim", "reclaiming"}, pc[p] \notin {"reclaim", "reclaiming"}
  PROVE  CandidatesLeave(CandidatesIn(0))
<1>1. pc \in [Launches -> Steps]
  BY DEF SInv, TInv, TypeOK
<1>2. ~Quiet(p)
  BY <1>1 DEF Quiet, Launch, CheckRecovery, CheckArtifacts, ReadOwner, WalkChain, RenameMissing, Crash, Run,
     RemoveDirectory, Goto, Throw
<1>3. ~Lists(p)
  BY <1>1 DEF Lists, Release, Reclaim, Sweep, ReleaseChain, Cleanup, Removed, Goto, Throw
<1>4. ~Makes(p)
  BY <1>1 DEF Makes, MakeCandidate, WriteOwner, Goto, Throw
<1>5. ~Renames(p)
  BY <1>1 DEF Renames, Rename, RenameOccupied, AfterPublishing, AfterOccupied, Goto
<1>6. ~Remove(p)
  BY <1>1, RemoveStep DEF SInv, Removal, Throw, Goto
<1>7. Scans(p)
  BY <1>2, <1>3, <1>4, <1>5, <1>6, StepsOf DEF Any
<1>8. QED  BY <1>1, <1>7 DEF Scans, ScanCandidates, RecoveryScan, Scan, Goto

(* A candidate for owner/ that has lost its record is published by nobody: *)
(* the sweep that emptied it, or the dead owner it left, keeps owner/.     *)
LEMMA EmptiedKeeps ==
  ASSUME SInv, NEW p \in Launches, Any(p)
  PROVE  EmptiedInv'
<1>1. pc \in [Launches -> Steps]
  BY DEF SInv, TInv, TypeOK
<1> SUFFICES ASSUME NEW q \in Launches, Bare(q)'
             PROVE  candidate'[q].where = 0 /\ ((\E e \in Launches : SweptBy(e, q)') \/ Abandoned')
  BY DEF EmptiedInv
<1>2. ASSUME Bare(q), NEW e \in Launches, SweptBy(e, q)
      PROVE  SweptBy(e, q)' \/ Abandoned'
  <2>1. <<"candidateDir", q>> \in removing'[e]
    <3>1. CASE e # p
      BY <1>2, <3>1, Others DEF SInv, SweptBy, Bare
    <3>2. CASE e = p
      <4>1. CASE Remove(p)
        <5>1. Removal(p)
          BY <4>1, RemoveStep DEF SInv
        <5>2. QED  BY <1>2, <3>2, <5>1 DEF Removal, SweptBy, Bare
      <4>2. CASE Quiet(p)
        BY <1>2, <3>2, <4>2, QuietStep DEF SInv, SweptBy
      <4>3. ~Lists(p)
        BY <1>2, <3>2 DEF SweptBy, Lists, Release, Reclaim, Sweep, ReleaseChain, Cleanup, Removed
      <4>4. ~Makes(p) /\ ~Renames(p) /\ ~Scans(p)
        BY <1>2, <3>2 DEF SweptBy, Makes, MakeCandidate, WriteOwner, Renames, Rename, RenameOccupied, Scans, ScanCandidates, RecoveryScan
      <4>5. QED  BY <4>1, <4>2, <4>3, <4>4, StepsOf DEF Any
    <3>3. QED  BY <3>1, <3>2
  <2>2. owner' = e
    <3>1. ASSUME owner' # owner PROVE FALSE
      <4>1. pc[owner] \notin Over /\ owner \in Launches
        BY <1>2 DEF SweptBy, Over
      <4>2. owner = p
        BY <3>1, <4>1, OwnerGivenUp DEF SInv
      <4>3. QED  BY <1>2, <3>1, <4>1, <4>2, OwnerStep DEF SInv, SweptBy
    <3>2. QED  BY <1>2, <3>1 DEF SweptBy
  <2>3. CASE pc'[e] = "sweeping"
    BY <2>1, <2>2, <2>3 DEF SweptBy
  <2>4. CASE pc'[e] # "sweeping"
    <3>1. e = p
      BY <1>2, <2>4, Others DEF SInv, SweptBy
    <3>2. pc'[p] \in Over
      <4>1. CASE Remove(p)
        BY <1>1, <1>2, <2>4, <3>1, <4>1, RemoveStep DEF SInv, Removal, Throw, Goto, Over, SweptBy
      <4>2. CASE Crash(p)
        BY <1>1, <4>2 DEF Crash, Goto, Over
      <4>3. ~(Launch(p) \/ Run(p) \/ Cleanup(p) \/ Removed(p) \/ RemoveDirectory(p))
        BY <1>2, <3>1 DEF SweptBy, Launch, Run, Cleanup, Removed, RemoveDirectory
      <4>4. ~(Acquire(p) \/ Recover(p))
        BY <1>2, <3>1 DEF SweptBy, Acquire, Recover, CheckRecovery, MakeCandidate, WriteOwner, Rename, RenameOccupied,
           RenameMissing, ScanCandidates, CheckArtifacts, Release, ReadOwner, WalkChain, RecoveryScan, Reclaim, Sweep, ReleaseChain
      <4>5. QED  BY <4>1, <4>2, <4>3, <4>4 DEF Any, Step
    <3>3. DeadOwner'
      BY <2>2, <3>1, <3>2 DEF DeadOwner
    <3>4. ASSUME NEW r \in Launches, pc'[r] \in {"reclaim", "reclaiming"} PROVE FALSE
      <4>1. r # p
        BY <3>2, <3>4 DEF Over
      <4>2. pc[r] \in {"reclaim", "reclaiming"}
        BY <3>4, <4>1, Others DEF SInv
      <4>3. r = e
        BY <1>2, <4>2, BothRecover DEF Leading, SweptBy
      <4>4. QED  BY <3>1, <4>1, <4>3
    <3>5. chain' = chain
      BY <1>2, <3>1, ChainStep DEF SweptBy, Published, Shrunk
    <3>6. Recovering(e)
      BY <1>2, DepthNat DEF SweptBy, SInv, LedInv, Leading, Recovering, Live
    <3>7. leaf[e] = Len(chain) /\ Last = e /\ leaf[e] > 0 /\ e # Empty
      BY <3>6, SessionAssumption DEF SInv, ChainInv, LeafLast, Recovering
    <3>8. Len(chain') > 0 /\ Last' # Empty
      BY <3>5, <3>7 DEF Last
    <3>9. QED  BY <3>3, <3>4, <3>8 DEF NoReclaim, Abandoned
  <2>5. QED  BY <2>3, <2>4
<1>3. ASSUME Bare(q), Abandoned PROVE Abandoned'
  <2>1. owner' = owner
    <3>1. ASSUME owner' # owner PROVE FALSE
      <4>1. owner = p
        BY <1>3, <3>1, OwnerGivenUp DEF SInv, Abandoned, DeadOwner, NoReclaim
      <4>2. QED  BY <1>3, <4>1, ActorNotOver DEF Abandoned, DeadOwner
    <3>2. QED  BY <3>1
  <2>2. DeadOwner'
    BY <1>3, <2>1, DeadStays DEF SInv, Abandoned
  <2>3. ASSUME NEW r \in Launches, pc'[r] \in {"reclaim", "reclaiming"} PROVE FALSE
    <3>1. pc[r] \notin {"reclaim", "reclaiming"}
      BY <1>3 DEF NoReclaim, Abandoned
    <3>2. r = p
      BY <2>3, <3>1, Others DEF SInv
    <3>3. CandidatesLeave(CandidatesIn(0))
      BY <2>3, <3>1, <3>2, ReclaimBegins
    <3>4. candidate[q].where = 0
      BY <1>3 DEF SInv, EmptiedInv
    <3>5. q \in CandidatesIn(0)
      BY <1>3, <3>4 DEF Bare, CandidatesIn
    <3>6. candidate'[q] = Absent
      BY <3>3, <3>5 DEF CandidatesLeave
    <3>7. QED  BY <3>6 DEF Bare
  <2>4. Len(chain') > 0 /\ Last' # Empty
    <3>1. ASSUME NEW n \in Nat, Published(p, n) PROVE Len(chain') > 0 /\ Last' # Empty
      BY <3>1, SessionAssumption DEF Published, Last
    <3>2. ASSUME Shrunk(p) PROVE FALSE
      <4>1. CASE pc[p] = "releasingChain"
        BY <1>3, <4>1 DEF SInv, HeldInv, Holds, Holding, Abandoned, DeadOwner, Over
      <4>2. CASE pc[p] = "cleaning"
        BY <1>3, <4>2 DEF SInv, AloneInv, Bare, Live
      <4>3. QED  BY <3>2, <4>1, <4>2 DEF Shrunk
    <3>3. QED  BY <1>3, <3>1, <3>2, ChainStep DEF Abandoned, Last
  <2>5. QED  BY <2>2, <2>3, <2>4 DEF NoReclaim, Abandoned
<1>4. ASSUME ~Bare(q) PROVE SweptBy(p, q)' /\ candidate'[q].where = 0
  <2>1. CASE q = p
    <3>1. ~Quiet(p) /\ ~Lists(p)
      <4>1. removing[p] = {} \/ pc[p] # "rename"
        BY DEF SInv, RemovingInv, Over
      <4>2. ~Lists(p)
        BY <1>1, <2>1 DEF Bare, Lists, Release, Reclaim, Sweep, ReleaseChain, Cleanup, Removed, Goto, Throw
      <4>3. ~Quiet(p)
        BY <1>1, <2>1 DEF Bare, Quiet, Launch, CheckRecovery, CheckArtifacts, ReadOwner, WalkChain, RenameMissing, Crash, Run,
           RemoveDirectory, Goto, Throw
      <4>4. QED  BY <4>2, <4>3
    <3>2. ~MakeCandidate(p)
      BY <1>1, <2>1 DEF Bare, MakeCandidate, Goto, Throw
    <3>3. ~WriteOwner(p)
      <4>1. ASSUME WriteOwner(p) PROVE FALSE
        <5>1. candidate[p] # Absent
          BY <1>1, <2>1, <4>1 DEF Bare, WriteOwner, Goto, Throw
        <5>2. PICK c : c = [candidate[p] EXCEPT !.session = p]
          OBVIOUS
        <5>3. candidate' = [candidate EXCEPT ![p] = c]
          BY <4>1, <5>1, <5>2 DEF WriteOwner
        <5>4. candidate'[p] = c /\ c.session = p
          BY <5>1, <5>2, <5>3 DEF SInv, TInv, TypeOK
        <5>5. QED  BY <2>1, <5>4, SessionAssumption DEF Bare
      <4>2. QED  BY <4>1
    <3>4. ~Renames(p) /\ ~Scans(p)
      BY <1>1, <2>1 DEF Bare, Renames, Rename, RenameOccupied, AfterPublishing, AfterOccupied, Scans, ScanCandidates,
         RecoveryScan, Scan, Goto
    <3>5. ~Remove(p)
      <4>1. ASSUME Remove(p) PROVE FALSE
        <5>1. Removal(p)
          BY <4>1, RemoveStep DEF SInv
        <5>2. pc[p] = "rename"
          BY <1>1, <2>1, <5>1 DEF Removal, Throw, Goto, Bare
        <5>3. QED  BY <5>1, <5>2 DEF Removal, SInv, RemovingInv, Over
      <4>2. QED  BY <4>1
    <3>6. QED  BY <3>1, <3>2, <3>3, <3>4, <3>5, StepsOf DEF Any, Makes
  <2>2. CASE q # p
    <3>1. pc[q] = "rename" /\ candidate'[q] # Absent /\ candidate'[q].session = Empty
      BY <2>2, Others DEF SInv, Bare
    <3>2. candidate'[q] # candidate[q]
      BY <1>4, <3>1 DEF Bare
    <3>3. ~Quiet(p) /\ ~Lists(p) /\ ~Makes(p)
      BY <2>2, <3>2, QuietStep, ListsStep, MakesStep DEF SInv
    <3>4. \A gone \in SUBSET Launches : ~CandidatesLeave(gone)
      BY <3>1, <3>2 DEF CandidatesLeave
    <3>5. ~Renames(p) /\ ~Scans(p)
      <4>1. {p} \in SUBSET Launches /\ CandidatesIn(0) \in SUBSET Launches
        BY DEF CandidatesIn
      <4>2. QED  BY <3>4, <4>1, RenamesStep, ScansStep DEF SInv
    <3>6. Removal(p)
      BY <3>3, <3>5, StepsOf, RemoveStep DEF Any, SInv
    <3>7. Emptied(p, q)
      BY <3>1, <3>2, <3>6 DEF Removal
    <3>8. pc[p] \in {"sweeping", "cleaning"}
      <4>1. Listed({q}) \cap removing[p] # {}
        BY <3>7 DEF Emptied, Listed
      <4>2. QED  BY <3>6, <4>1 DEF SInv, RemovingInv, Removal, Live, Over
    <3>9. pc[p] = "sweeping"
      BY <2>2, <3>1, <3>8 DEF SInv, AloneInv, Live
    <3>10. owner = p
      BY <3>9 DEF SInv, HeldInv, Holds, Holding
    <3>11. candidate'[q].where = 0
      BY <3>7 DEF Emptied, SInv, TInv, ListedCandidates, InRuntime
    <3>12. QED  BY <3>7, <3>9, <3>10, <3>11 DEF Emptied, SweptBy
  <2>3. QED  BY <2>1, <2>2
<1>5. ASSUME Bare(q) PROVE candidate'[q].where = 0
  <2>1. ~(q = p /\ MakeCandidate(p))
    BY <1>1 DEF Bare, MakeCandidate, Goto, Throw
  <2>2. candidate[q].where = 0
    BY <1>5 DEF SInv, EmptiedInv
  <2>3. QED  BY <2>1, <2>2, CandidateStep DEF Bare
<1>6. QED  BY <1>2, <1>3, <1>4, <1>5 DEF SInv, EmptiedInv

(* The artifacts of an earlier session are gone once they have been swept.   *)
LEMMA CleanKeeps ==
  ASSUME SInv, NEW p \in Launches, Any(p)
  PROVE  CleanInv'
<1>1. pc \in [Launches -> Steps]
  BY DEF SInv, TInv, TypeOK
<1> SUFFICES ASSUME NEW q \in Launches, Swept(q)' PROVE artifacts' = {}
  BY DEF CleanInv
<1>2. artifacts' \in {artifacts, {}} \/ Run(p)
  BY StepsOf, QuietStep, ListsStep, MakesStep, RenamesStep, ScansStep, RemoveStep DEF Any, SInv, Removal
<1>3. ASSUME Swept(q) PROVE artifacts' = {}
  <2>1. owner = q /\ pc[q] # "owning" /\ artifacts = {}
    BY <1>3 DEF Swept, SInv, HeldInv, Holds, Holding, CleanInv
  <2>2. Run(p) => owner = p /\ pc[p] = "owning"
    BY DEF Run, SInv, HeldInv, Holds, Holding
  <2>3. QED  BY <1>2, <2>1, <2>2
<1>4. ASSUME ~Swept(q) PROVE artifacts' = {}
  <2>1. q = p
    BY <1>4, Others DEF SInv, Swept
  <2>2. ~Quiet(p)
    <3>1. ASSUME Quiet(p) PROVE FALSE
      <4>1. removing' = removing
        BY <3>1, QuietStep DEF SInv
      <4>2. QED  BY <1>1, <1>4, <2>1, <3>1, <4>1 DEF Swept, Quiet, Launch, CheckRecovery, CheckArtifacts, ReadOwner, WalkChain,
         RenameMissing, Crash, Run, RemoveDirectory, Goto, Throw
    <3>2. QED  BY <3>1
  <2>3. ~Lists(p)
    <3>1. ~Sweep(p)
      BY <1>1, <2>1 DEF Sweep, Swept, Goto, Artifacts, SInv, TInv, TypeOK
    <3>2. ~(Release(p) \/ Reclaim(p) \/ ReleaseChain(p) \/ Cleanup(p))
      BY <1>1, <1>4, <2>1 DEF Release, Reclaim, ReleaseChain, Cleanup, Swept, Goto, Throw
    <3>3. ~Removed(p)
      BY <1>1, <1>4, <2>1 DEF Removed, Swept, Goto, Throw
    <3>4. QED  BY <3>1, <3>2, <3>3 DEF Lists
  <2>4. ~Makes(p)
    BY <1>1, <2>1 DEF Makes, MakeCandidate, WriteOwner, Goto, Throw, Swept
  <2>5. ~Renames(p) /\ ~Scans(p)
    BY <1>1, <2>1 DEF Renames, Rename, RenameOccupied, AfterPublishing, AfterOccupied, Scans, ScanCandidates,
       RecoveryScan, Scan, Goto, Swept
  <2>6. Removal(p)
    BY <2>2, <2>3, <2>4, <2>5, StepsOf, RemoveStep DEF Any, SInv
  <2>7. pc'[p] = pc[p] \/ pc'[p] = "gone"
    BY <1>1, <2>6 DEF Removal, Throw, Goto
  <2>8. QED  BY <1>4, <2>1, <2>6, <2>7 DEF Removal, Swept
<1>5. QED  BY <1>3, <1>4

(* Before any launch the invariant holds.                                    *)
LEMMA SInvInit == Init => SInv
<1> SUFFICES ASSUME Init PROVE SInv
  OBVIOUS
<1>1. TInv
  BY InitTInv
<1>2. \A p \in Launches : pc[p] = "idle" /\ removing[p] = {} /\ candidate[p] = Absent /\ owner # p
  BY SessionAssumption DEF Init
<1>3. ChainInv
  BY <1>2 DEF Init, ChainInv, BelowDead, WalkedDead, LeafLast, OnlyLast, StartedLevels, ListedLevels, Recovering, Live
<1>4. QED  BY <1>1, <1>2, <1>3 DEF SInv, LedInv, Leading, RemovingInv, Over, AloneInv, Live, NamedInv, StartedInv, HeldInv,
     Holds, Holding, ReclaimInv, EmptiedInv, Bare, CleanInv, Swept, Listed, Levelled

(* Every step outside the two windows keeps it.                              *)
LEMMA SInvNext ==
  ASSUME SInv, [Outside]_vars, [Next]_vars
  PROVE  SInv'
<1>1. TInv'
  BY TInvNext DEF SInv
<1>2. CASE UNCHANGED vars
  <2>1. LedInv' /\ RemovingInv' /\ AloneInv' /\ NamedInv'
    BY <1>2 DEF vars, SInv, LedInv, RemovingInv, AloneInv, NamedInv, Live
  <2>2. StartedInv' /\ HeldInv' /\ ReclaimInv' /\ CleanInv'
    BY <1>2 DEF vars, SInv, StartedInv, HeldInv, Holds, ReclaimInv, DeadOwner, CleanInv, Swept
  <2>3. BelowDead' /\ WalkedDead' /\ LeafLast' /\ OnlyLast' /\ StartedLevels' /\ ListedLevels'
    BY <1>2 DEF vars, SInv, ChainInv, BelowDead, WalkedDead, LeafLast, OnlyLast, StartedLevels, ListedLevels, LiveLevel, Last,
       Recovering, Live
  <2>4. EmptiedInv'
    BY <1>2 DEF vars, SInv, EmptiedInv, Bare, SweptBy, Abandoned, DeadOwner, NoReclaim, Last
  <2>5. QED  BY <1>1, <2>1, <2>2, <2>3, <2>4 DEF SInv, ChainInv
<1>3. ASSUME NEW p \in Launches, Any(p), Outside PROVE SInv'
  <2>1. LedInv' /\ RemovingInv' /\ AloneInv' /\ NamedInv' /\ ChainInv'
    BY <1>3, LedKeeps, RemovingKeeps, AloneKeeps, NamedKeeps, ChainKeeps DEF SInv
  <2>2. StartedInv' /\ HeldInv' /\ ReclaimInv' /\ EmptiedInv' /\ CleanInv'
    BY <1>3, StartedKeeps, HeldKeeps, ReclaimKeeps, EmptiedKeeps, CleanKeeps
  <2>3. QED  BY <1>1, <2>1, <2>2 DEF SInv
<1>4. QED  BY <1>2, <1>3 DEF Next, Any

(* So it holds throughout.                                                   *)
LEMMA SInvAlways == Spec /\ [][Outside]_vars => []SInv
<1>1. SInv /\ [Outside]_vars /\ [Next]_vars => SInv'
  BY SInvNext
<1>2. QED  BY <1>1, SInvInit, PTL DEF Spec

(* Ownership is lost through two windows only. As long as no launch is alive *)
(* during a cleanup, and none publishes anew the recovery directory another  *)
(* has just walked past (runtime-session.ts:80, :226), at most one session   *)
(* runs and the directory names it, and at most one launch recovers: for any *)
(* number of launches, whatever crashes between two file-system calls.       *)
THEOREM SessionsExclusive == Spec /\ [][Outside]_vars => [](OneSession /\ OwnershipIsRecorded)
<1>1. SInv => OneSession /\ SessionIsRecorded
  BY DEF SInv, HeldInv, Holds, Holding, OneSession, SessionIsRecorded
<1>2. SInv => OneRecovery
  BY DEF SInv, ChainInv, LeafLast, OneRecovery
<1>3. SInv => OneSession /\ OwnershipIsRecorded
  BY <1>1, <1>2 DEF OwnershipIsRecorded
<1>4. QED  BY <1>3, SInvAlways, PTL

(* ... the record of a live owner is removed or replaced by that owner only ... *)
THEOREM LiveOwnersAreKept == Spec /\ [][Outside]_vars => LiveOwnerKept
<1>1. SInv /\ [Next]_vars =>
        [\A p \in Launches : owner = p /\ Live(p) /\ owner' # p => <<"owner", 0>> \in removing[p]]_vars
  <2> SUFFICES ASSUME SInv, NEW a \in Launches, Any(a), NEW p \in Launches, owner = p, Live(p), owner' # p
               PROVE  Owner \in removing[p]
    BY DEF Next, Any, Owner
  <2>1. owner = a \/ pc[owner] \in Over
    BY OwnerGivenUp DEF SInv
  <2>2. a = p
    BY <2>1 DEF Live, Over
  <2>3. QED  BY <2>2, OwnerStep DEF SInv
<1>2. QED  BY <1>1, SInvAlways, PTL DEF Spec, LiveOwnerKept

(* A session begins behind a check, or a recovery, that leaves no artifacts. *)
LEMMA OwningBegins ==
  ASSUME SInv, NEW p \in Launches, Any(p), pc[p] # "owning", pc'[p] = "owning"
  PROVE  artifacts' = {}
<1>1. pc \in [Launches -> Steps]
  BY DEF SInv, TInv, TypeOK
<1>2. CASE Quiet(p)
  <2>1. CheckArtifacts(p) /\ artifacts = {}
    BY <1>1, <1>2 DEF Quiet, Launch, CheckRecovery, CheckArtifacts, ReadOwner, WalkChain, RenameMissing, Crash, Run,
       RemoveDirectory, Goto, Throw
  <2>2. QED  BY <2>1 DEF CheckArtifacts, tree
<1>3. CASE Lists(p)
  <2>1. pc[p] = "releasingChain"
    BY <1>1, <1>3 DEF Lists, Release, Reclaim, Sweep, ReleaseChain, Cleanup, Removed, Goto, Throw
  <2>2. artifacts = {}
    BY <2>1 DEF SInv, CleanInv, Swept
  <2>3. QED  BY <1>3, <2>2, ListsStep DEF SInv
<1>4. ~Makes(p)
  BY <1>1 DEF Makes, MakeCandidate, WriteOwner, Goto, Throw
<1>5. ~Renames(p)
  BY <1>1 DEF Renames, Rename, RenameOccupied, AfterPublishing, AfterOccupied, Goto
<1>6. ~Scans(p)
  BY <1>1 DEF Scans, ScanCandidates, RecoveryScan, Scan, Goto
<1>7. ~Remove(p)
  BY <1>1, RemoveStep DEF SInv, Removal, Throw, Goto
<1>8. QED  BY <1>2, <1>3, <1>4, <1>5, <1>6, <1>7, StepsOf DEF Any

(* While it runs nobody sweeps or cleans up.                                 *)
LEMMA ArtifactsStay ==
  ASSUME SInv, NEW a \in Launches, Any(a), NEW p \in Launches, p \in artifacts, pc[p] = "owning"
  PROVE  p \in artifacts'
<1>1. CASE Removal(a)
  <2>1. ASSUME Artifacts \in removing[a] PROVE FALSE
    <3>1. pc[a] \in {"sweeping", "cleaning"}
      BY <1>1, <2>1 DEF SInv, RemovingInv, Removal, Live, Over
    <3>2. owner = p
      BY DEF SInv, HeldInv, Holds, Holding
    <3>3. CASE pc[a] = "sweeping"
      BY <3>2, <3>3 DEF SInv, HeldInv, Holds, Holding
    <3>4. CASE pc[a] = "cleaning"
      BY <3>4 DEF SInv, AloneInv, Live
    <3>5. QED  BY <3>1, <3>3, <3>4
  <2>2. QED  BY <1>1, <2>1 DEF Removal
<1>2. CASE Run(a)
  BY <1>2 DEF Run
<1>3. QED  BY <1>1, <1>2, StepsOf, QuietStep, ListsStep, MakesStep, RenamesStep, ScansStep, RemoveStep DEF Any, SInv

(* ... and a session starts without artifacts of an earlier one, and keeps its own *)
(* for as long as it runs.                                                   *)
THEOREM ArtifactsBelongToTheSession == Spec /\ [][Outside]_vars => ArtifactsOfTheSession
<1>1. SInv /\ [Next]_vars => [\A p \in Launches : pc[p] # "owning" /\ pc'[p] = "owning" => artifacts' = {}]_vars
  <2> SUFFICES ASSUME SInv, NEW a \in Launches, Any(a), NEW p \in Launches, pc[p] # "owning", pc'[p] = "owning"
               PROVE  artifacts' = {}
    BY DEF Next, Any
  <2>1. p = a
    BY Others DEF SInv
  <2>2. QED  BY <2>1, OwningBegins
<1>2. SInv /\ [Next]_vars => [\A p \in artifacts : pc[p] = "owning" /\ pc'[p] = "owning" => p \in artifacts']_vars
  <2> SUFFICES ASSUME SInv, NEW a \in Launches, Any(a), NEW p \in artifacts, pc[p] = "owning"
               PROVE  p \in artifacts'
    BY DEF Next, Any
  <2>1. p \in Launches
    BY DEF SInv, TInv, TypeOK
  <2>2. QED  BY <2>1, ArtifactsStay
<1>3. QED  BY <1>1, <1>2, SInvAlways, PTL DEF Spec, ArtifactsOfTheSession, SessionStartsClean, SessionArtifactsKept

-----------------------------------------------------------------------------
(* The command and its children                                            *)

Sessions == [phase : {"none", "watching", "stopping", "settling"}, failed : BOOLEAN,
             life : [Children -> {"absent", "alive", "failed", "settled"}],
             stop : [Children -> {"no", "term", "kill", "rejected"}]]

(* What has not ended is being stopped, and giving up is a failure.        *)
AllTold(r) == \A c \in Children : r.life[c] \in {"alive", "failed"} => r.stop[c] # "no"
Honest(r) == \A c \in Children : r.stop[c] = "rejected" => r.failed
Launched(r) == \A c \in Children : r.stop[c] # "no" => r.life[c] # "absent"
Told(r) == (r.phase = "settling" => AllTold(r)) /\ Honest(r) /\ Launched(r)

(* Only a launch that is removing, or is over, has entries to remove.       *)
Removing == {"releasing", "reclaiming", "sweeping", "releasingChain", "cleaning", "gone", "crashed"}
RInv == /\ pc = [p \in Launches |-> pc[p]]
        /\ removing = [p \in Launches |-> removing[p]]
        /\ \A p \in Launches : pc[p] \notin Removing => removing[p] = {}

CInv == /\ RInv
        /\ command \in [Launches -> Sessions]
        /\ \A p \in Launches : Told(command[p])
        /\ \A p \in Launches : p \notin Supervised => command[p] = NoCommand

-----------------------------------------------------------------------------
(* A session whose remaining children are all told to stop.                *)
LEMMA StopAllTells ==
  ASSUME NEW r \in Sessions, Honest(r), Launched(r)
  PROVE  /\ StopAll(r) \in Sessions /\ AllTold(StopAll(r))
         /\ Honest(StopAll(r)) /\ Launched(StopAll(r))
BY DEF StopAll, Sessions, AllTold, Unsettled, Honest, Launched

(* One launch's session changes to a record that keeps the invariant.      *)
LEMMA BecomesKeeps ==
  ASSUME CInv, NEW p \in Supervised, NEW r \in Sessions, Told(r), Becomes(p, r)
  PROVE  CInv'
BY CommandAssumption DEF CInv, RInv, Becomes, vars

(* A launch's own step: its place changes, and if it owned the directory it *)
(* goes on owning it.                                                      *)
Own(p) == /\ \E step : pc' = [pc EXCEPT ![p] = step]
          /\ pc[p] = "owning" => pc'[p] = "owning"

(* An acquisition never takes the directory from its owner ...             *)
LEMMA AcquireStep ==
  ASSUME RInv, NEW p \in Launches, Acquire(p) \/ Launch(p)
  PROVE  RInv' /\ Own(p)
<1> USE DEF RInv, Own, Removing, Goto, Throw, tree
<1>1. CASE Launch(p)
  BY <1>1 DEF Launch
<1>2. CASE CheckRecovery(p) \/ MakeCandidate(p) \/ WriteOwner(p)
  BY <1>2 DEF CheckRecovery, MakeCandidate, WriteOwner
<1>3. CASE Rename(p) \/ RenameOccupied(p) \/ RenameMissing(p)
  BY <1>3 DEF Rename, RenameOccupied, RenameMissing, CandidateLeaves, CandidatesLeave, AfterPublishing, AfterOccupied
<1>4. CASE ScanCandidates(p)
  BY <1>4 DEF ScanCandidates, Scan, CandidatesLeave
<1>5. CASE CheckArtifacts(p) \/ Release(p) \/ ReadOwner(p)
  BY <1>5 DEF CheckArtifacts, Release, ReadOwner
<1>6. QED  BY <1>1, <1>2, <1>3, <1>4, <1>5 DEF Acquire

(* ... nor does a recovery ...                                             *)
LEMMA RecoverStep ==
  ASSUME RInv, NEW p \in Launches, Recover(p)
  PROVE  RInv' /\ Own(p)
<1> USE DEF RInv, Own, Removing, Goto, Throw, tree
<1>1. CASE WalkChain(p) \/ Reclaim(p) \/ Sweep(p) \/ ReleaseChain(p)
  BY <1>1 DEF WalkChain, Reclaim, Sweep, ReleaseChain
<1>2. CASE RecoveryScan(p)
  BY <1>2 DEF RecoveryScan, Scan, CandidatesLeave
<1>3. QED  BY <1>1, <1>2 DEF Recover

(* ... nor a removal, as the owner has none under way.                      *)
LEMMA RemovalStep ==
  ASSUME RInv, NEW p \in Launches, Remove(p) \/ Removed(p) \/ RemoveDirectory(p)
  PROVE  RInv' /\ Own(p)
<1> USE DEF RInv, Own, Removing, Goto, Throw, tree, Replace
<1>1. CASE Removed(p) \/ RemoveDirectory(p)
  BY <1>1 DEF Removed, RemoveDirectory
<1>2. ASSUME Remove(p), removing[p] # {}
      PROVE  /\ UNCHANGED pc \/ Throw(p)
             /\ \/ \E q \in Launches : removing' = [r \in Launches |-> removing[r] \ Listed({q})]
                \/ \E e, more : Replace(p, e, more)
                \/ UNCHANGED removing
  BY <1>2 DEF Remove, RemoveArtifacts, UnlinkOwner, RemoveOwner, UnlinkCandidate, RemoveCandidate,
     UnlinkLevel, RemoveLevel, CandidateLeaves, CandidatesLeave
<1>3. Remove(p) => removing[p] # {}
  BY DEF Remove, RemoveArtifacts, UnlinkOwner, RemoveOwner, UnlinkCandidate, RemoveCandidate,
     UnlinkLevel, RemoveLevel
<1>4. CASE Remove(p)
  BY <1>2, <1>3, <1>4
<1>5. QED  BY <1>1, <1>4
-----------------------------------------------------------------------------
(* The invariant holds before any launch.                                  *)
LEMMA InitInv == CommandInit => CInv
BY DEF CommandInit, Init, CInv, RInv, Sessions, NoCommand, Told, AllTold, Honest, Launched, Children, Removing

(* What can end a session, and what follows, keeps the invariant.          *)
LEMMA StartKeeps == ASSUME CInv, NEW p \in Launches, Start(p) PROVE CInv'
<1>1. PICK bridge, renderer \in {"alive", "failed", "absent"} :
        LET r == [NoCommand EXCEPT !.life = [c \in Children |-> IF c = "bridge" THEN bridge ELSE renderer]]
        IN IF renderer # "absent"
           THEN bridge # "absent" /\ Becomes(p, [r EXCEPT !.phase = "watching"])
           ELSE Becomes(p, [StopAll(r) EXCEPT !.phase = "settling", !.failed = TRUE])
  BY DEF Start
<1> DEFINE r == [NoCommand EXCEPT !.life = [c \in Children |-> IF c = "bridge" THEN bridge ELSE renderer]]
<1>2. r \in Sessions /\ Honest(r) /\ Launched(r)
  BY DEF Sessions, NoCommand, Children, Honest, Launched
<1>3. p \in Supervised
  BY DEF Start
<1> HIDE DEF r
<1>4. CASE renderer # "absent"
  <2>1. [r EXCEPT !.phase = "watching"] \in Sessions /\ Told([r EXCEPT !.phase = "watching"])
    BY <1>2 DEF Sessions, Told, AllTold, Honest, Launched
  <2>2. QED  BY <1>1, <1>3, <1>4, <2>1, BecomesKeeps DEF r
<1>5. CASE renderer = "absent"
  <2> DEFINE s == [StopAll(r) EXCEPT !.phase = "settling", !.failed = TRUE]
  <2>1. StopAll(r) \in Sessions /\ AllTold(StopAll(r)) /\ Launched(StopAll(r))
    BY <1>2, StopAllTells
  <2>2. s \in Sessions /\ Told(s)
    BY <2>1 DEF Sessions, Told, AllTold, Honest, Launched
  <2>3. Becomes(p, s)
    BY <1>1, <1>5 DEF r
  <2>4. QED  BY <1>3, <2>2, <2>3, BecomesKeeps
<1>6. QED  BY <1>4, <1>5

(* A session whose children are all told, in any later phase.              *)
LEMMA StoppingKeeps ==
  ASSUME CInv, NEW p \in Supervised, NEW r \in Sessions, Honest(r), Launched(r),
         NEW phase \in {"stopping", "settling"}, Becomes(p, [StopAll(r) EXCEPT !.phase = phase])
  PROVE  CInv'
<1> DEFINE s == [StopAll(r) EXCEPT !.phase = phase]
<1>1. s \in Sessions /\ Told(s)
  BY StopAllTells DEF Sessions, Told, AllTold, Honest, Launched
<1>2. QED  BY <1>1, BecomesKeeps

(* A child's end is told once, and the first one has the others stopped.   *)
LEMMA ExitedKeeps == ASSUME CInv, NEW p \in Launches, NEW c \in Children, Exited(p, c) PROVE CInv'
<1> DEFINE r == [command[p] EXCEPT !.life[c] = "settled", !.stop[c] = IF @ = "rejected" THEN @ ELSE "no"]
<1>1. command[p] \in Sessions /\ Told(command[p])
  BY DEF CInv
<1>2. r \in Sessions /\ Told(r)
  BY <1>1 DEF Sessions, Told, AllTold, Honest, Launched
<1>3. p \in Supervised
  BY DEF CInv, Exited, NoCommand
<1>4. IF r.phase = "watching" THEN Becomes(p, [StopAll(r) EXCEPT !.phase = "stopping"]) ELSE Becomes(p, r)
  BY DEF Exited
<1> HIDE DEF r
<1>5. QED  BY <1>2, <1>3, <1>4, StoppingKeeps, BecomesKeeps DEF Told

(* A child that failed to launch makes the session fail.                   *)
LEMMA FailedKeeps == ASSUME CInv, NEW p \in Launches, NEW c \in Children, Failed(p, c) PROVE CInv'
<1> DEFINE r == [command[p] EXCEPT !.life[c] = "settled", !.failed = TRUE,
                                   !.stop[c] = IF @ = "no" THEN @ ELSE "rejected"]
<1>1. command[p] \in Sessions /\ Told(command[p])
  BY DEF CInv
<1>2. r \in Sessions /\ Told(r)
  BY <1>1 DEF Sessions, Told, AllTold, Honest, Launched
<1>3. p \in Supervised
  BY DEF CInv, Failed, NoCommand
<1>4. Becomes(p, IF r.phase = "watching" THEN [StopAll(r) EXCEPT !.phase = "settling"] ELSE r)
  BY DEF Failed
<1> HIDE DEF r
<1>5. QED  BY <1>2, <1>3, <1>4, StoppingKeeps, BecomesKeeps DEF Told

(* SIGKILL follows SIGTERM, and giving up is a failure.                     *)
LEMMA TimersKeep ==
  ASSUME CInv, NEW p \in Launches, NEW c \in Children, GraceOver(p, c) \/ KillOver(p, c)
  PROVE  CInv'
<1>1. command[p] \in Sessions /\ Told(command[p])
  BY DEF CInv
<1>2. p \in Supervised
  BY DEF CInv, GraceOver, KillOver, NoCommand
<1>3. CASE GraceOver(p, c)
  <2> DEFINE s == [command[p] EXCEPT !.stop[c] = "kill"]
  <2>1. command[p].stop[c] # "no"
    BY <1>3 DEF GraceOver
  <2>2. s \in Sessions /\ Told(s)
    BY <1>1, <2>1 DEF Sessions, Told, AllTold, Honest, Launched
  <2>3. QED  BY <1>2, <1>3, <2>2, BecomesKeeps DEF GraceOver
<1>4. CASE KillOver(p, c)
  <2> DEFINE s == [command[p] EXCEPT !.stop[c] = "rejected", !.failed = TRUE]
  <2>1. command[p].stop[c] # "no"
    BY <1>4 DEF KillOver
  <2>2. s \in Sessions /\ Told(s)
    BY <1>1, <2>1 DEF Sessions, Told, AllTold, Honest, Launched
  <2>3. QED  BY <1>2, <1>4, <2>2, BecomesKeeps DEF KillOver
<1>5. QED  BY <1>3, <1>4

(* A signal, and the end of the first round of stopping.                   *)
LEMMA EndingKeeps ==
  ASSUME CInv, NEW p \in Launches, Terminated(p) \/ Settle(p)
  PROVE  CInv'
<1>1. command[p] \in Sessions /\ Told(command[p])
  BY DEF CInv
<1>2. p \in Supervised
  BY DEF CInv, Terminated, Settle, NoCommand
<1>3. QED  BY <1>1, <1>2, StoppingKeeps DEF Terminated, Settle, Told

(* A session that is over, or killed, has no children.                     *)
LEMMA OverKeeps ==
  ASSUME CInv, NEW p \in Launches, command' = [command EXCEPT ![p] = NoCommand], RInv'
  PROVE  CInv'
<1>1. NoCommand \in Sessions /\ Told(NoCommand)
  BY DEF Sessions, NoCommand, Told, AllTold, Honest, Launched
<1>2. QED  BY <1>1 DEF CInv

(* The cleanup, and a crash, forget the children.                          *)
LEMMA EndSessionKeeps ==
  ASSUME CInv, NEW p \in Launches,
         EndSession(p) \/ (Crash(p) /\ command' = [command EXCEPT ![p] = NoCommand])
  PROVE  CInv'
<1>1. RInv'
  BY DEF CInv, RInv, EndSession, Cleanup, Crash, Throw, Goto, Removing
<1>2. QED  BY <1>1, OverKeeps DEF EndSession

(* Every step keeps the invariant.                                         *)
LEMMA InvNext == CInv /\ [CommandNext]_commandVars => CInv'
<1> SUFFICES ASSUME CInv, [CommandNext]_commandVars PROVE CInv'
  OBVIOUS
<1>1. CASE UNCHANGED commandVars
  BY <1>1 DEF commandVars, vars, CInv, RInv
<1>2. ASSUME NEW p \in Launches, (Launch(p) \/ Step(p)) /\ UNCHANGED command PROVE CInv'
  <2>1. RInv'
    BY <1>2, AcquireStep, RecoverStep, RemovalStep DEF CInv, Step
  <2>2. QED  BY <1>2, <2>1 DEF CInv
<1>3. ASSUME NEW p \in Launches, Serve(p) PROVE CInv'
  BY <1>3 DEF Serve, Run, CInv, RInv
<1>4. ASSUME NEW p \in Launches, Watch(p) \/ Terminated(p) PROVE CInv'
  BY <1>4, StartKeeps, FailedKeeps, TimersKeep, EndingKeeps, EndSessionKeeps DEF Watch
<1>5. QED  BY <1>1, <1>2, <1>3, <1>4, ExitedKeeps, EndSessionKeeps DEF CommandNext

-----------------------------------------------------------------------------
(* StoppedBeforeCleanup's step.                                            *)
StopsFirst == \A p \in Launches : pc[p] = "owning" /\ pc'[p] \notin {"owning", "crashed"} =>
  \A c \in Children : \/ command[p].life[c] \in {"absent", "settled"}
                      \/ command[p].stop[c] = "rejected" /\ command[p].failed

(* Only its own end takes a launch from the directory.                     *)
LEMMA StepStopsFirst == CInv /\ [CommandNext]_commandVars => StopsFirst
<1> SUFFICES ASSUME CInv, [CommandNext]_commandVars,
                    NEW p \in Launches, pc[p] = "owning", pc'[p] \notin {"owning", "crashed"}
             PROVE  \A c \in Children : \/ command[p].life[c] \in {"absent", "settled"}
                                        \/ command[p].stop[c] = "rejected" /\ command[p].failed
  BY DEF StopsFirst
<1>1. ASSUME NEW q \in Launches, Launch(q) \/ Step(q) PROVE FALSE
  <2>1. Own(q)
    BY <1>1, AcquireStep, RecoverStep, RemovalStep DEF CInv, Step
  <2>2. QED  BY <2>1 DEF Own, CInv, RInv
<1>2. ASSUME NEW q \in Launches, Crash(q) PROVE FALSE
  BY <1>2 DEF Crash, Goto, CInv, RInv
<1>3. ASSUME UNCHANGED pc PROVE FALSE
  BY <1>3
<1>4. PICK q \in Launches : EndSession(q)
  BY <1>1, <1>2, <1>3 DEF CommandNext, Watch, Serve, Run, Terminated, Exited, Start, Failed, GraceOver,
     KillOver, Settle, Becomes, commandVars, vars
<1>5. p = q
  BY <1>4 DEF EndSession, Cleanup, Goto, Throw, CInv, RInv
<1>6. command[p] \in Sessions /\ Told(command[p])
  BY DEF CInv
<1>7. CASE p \in Supervised
  BY <1>4, <1>5, <1>6, <1>7 DEF EndSession, Pending, Told, AllTold, Honest, Sessions
<1>8. CASE p \notin Supervised
  BY <1>8 DEF CInv, NoCommand
<1>9. QED  BY <1>7, <1>8

(* A session cleans up behind its children, for any launches and whatever  *)
(* their children do: both have told of their end, or outlived SIGKILL and *)
(* the session fails.                                                      *)
THEOREM StopsBeforeCleanup == CommandSpec => StoppedBeforeCleanup
<1>1. CInv /\ [CommandNext]_commandVars => [StopsFirst]_commandVars
  BY StepStopsFirst
<1>2. CommandSpec => [][StopsFirst]_commandVars
  BY InitInv, InvNext, <1>1, PTL DEF CommandSpec
<1>3. QED  BY <1>2 DEF StoppedBeforeCleanup, StopsFirst

-----------------------------------------------------------------------------
(* What the command does to the runtime directory is what RuntimeSession    *)
(* allows: watching its children leaves the directory alone.               *)
THEOREM CommandRunsSessions == CommandSpec => Spec
<1>1. CommandInit => Init
  BY DEF CommandInit
<1>2. [CommandNext]_commandVars => [Next]_vars
  <2> SUFFICES ASSUME [CommandNext]_commandVars PROVE [Next]_vars
    OBVIOUS
  <2>1. CASE UNCHANGED commandVars
    BY <2>1 DEF commandVars
  <2>2. ASSUME NEW p \in Launches, Launch(p) \/ Step(p) \/ Crash(p) PROVE [Next]_vars
    BY <2>2 DEF Next
  <2>3. ASSUME NEW p \in Launches, EndSession(p) \/ Serve(p) PROVE [Next]_vars
    BY <2>3 DEF Next, EndSession, Serve
  <2>4. ASSUME NEW p \in Launches, Start(p) \/ Settle(p) \/ Terminated(p) PROVE UNCHANGED vars
    BY <2>4 DEF Start, Settle, Terminated, Becomes
  <2>5. ASSUME NEW p \in Launches, NEW c \in Children,
               Exited(p, c) \/ Failed(p, c) \/ GraceOver(p, c) \/ KillOver(p, c)
        PROVE  UNCHANGED vars
    BY <2>5 DEF Exited, Failed, GraceOver, KillOver, Becomes
  <2>6. QED  BY <2>1, <2>2, <2>3, <2>4, <2>5 DEF CommandNext, Watch
<1>3. QED  BY <1>1, <1>2, PTL DEF Spec, CommandSpec

(* The directory and the sessions keep their types; no child is stopped    *)
(* that was not launched.                                                  *)
THEOREM CommandTypeCorrect == CommandSpec => []CommandTypeOK
<1>1. CInv /\ TypeOK => CommandTypeOK
  BY DEF CInv, Told, Launched, Sessions, CommandTypeOK
<1>2. CommandSpec => []CInv
  BY InitInv, InvNext, PTL DEF CommandSpec
<1>3. QED  BY <1>1, <1>2, CommandRunsSessions, TypeCorrect, PTL

(* In the instance that keeps launches out of both windows they stay out.   *)
LEMMA StaysOutside == ASSUME Overlaps = {} PROVE Spec => [][Outside]_vars
<1>1. Next => Outside
  BY DEF Outside, Launch, Cleanup, Rename
<1>2. QED  BY <1>1, PTL DEF Spec

(* The command's sessions are exclusive, recorded and keep what is theirs,  *)
(* outside the two windows; so they do where launches are kept out of them. *)
THEOREM CommandKeepsOwnership ==
  CommandSpec /\ (Overlaps = {} \/ [][Outside]_vars) =>
    [](OneSession /\ OwnershipIsRecorded) /\ LiveOwnerKept /\ ArtifactsOfTheSession
<1>1. CommandSpec /\ Overlaps = {} => [][Outside]_vars
  BY CommandRunsSessions, StaysOutside
<1>2. QED  BY <1>1, CommandRunsSessions, SessionsExclusive, LiveOwnersAreKept, ArtifactsBelongToTheSession
=============================================================================
