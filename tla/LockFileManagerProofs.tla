------------------------ MODULE LockFileManagerProofs ------------------------
(* Proofs about the lock file protocol, for any number of processes, files,  *)
(* deaths and file system errors.                                            *)
EXTENDS LockFileManager, TLAPS

HasUnique == {"write", "link", "stat", "undo", "unlink", "owned", "release"}
Written == {"link", "stat", "unlink", "owned", "release"}

(* What the argument below needs of the types. *)
Types ==
  /\ lock \in Inodes \cup {NoFile} /\ files \subseteq Inodes
  /\ pid \in [Inodes -> Procs \cup {NoFile}]
  /\ unique \in [Procs -> Inodes \cup {NoFile}]
  /\ pc \in [Procs -> Labels]
  /\ robbed \subseteq Procs

(* Unique files are unique, and exist while their process works with them. *)
UniqueFiles ==
  /\ \A p \in Procs : pc[p] \in HasUnique => unique[p] # NoFile
  /\ \A p \in Procs : unique[p] # NoFile => unique[p] \in files
  /\ \A p, q \in Procs : p # q /\ unique[p] = unique[q] => unique[p] = NoFile

(* A file that holds its writer's PID from the time it may be linked. *)
WrittenBeforeLink ==
  /\ \A p \in Procs : pc[p] \in Written => pid[unique[p]] = p
  /\ \A p \in Procs : pc[p] \in {"write", "link", "undo"} => unique[p] # lock
  /\ lock # NoFile => pid[lock] \in Procs

(* An owner holds the lock until somebody takes it away. *)
OwnersHold == \A p \in Procs : pc[p] = "owned" /\ p \notin robbed
                                 => unique[p] = lock

IInv == Types /\ UniqueFiles /\ WrittenBeforeLink /\ OwnersHold
-----------------------------------------------------------------------------
(* No process has a file or the lock at the start.                           *)
LEMMA InitIInv == Init => IInv
BY LockFileAssumption DEF Init, Labels, IInv, Types, UniqueFiles, WrittenBeforeLink,
   OwnersHold, HasUnique, Written

(* Steps that change neither the disk nor anybody's unique file. *)
LEMMA QuietStep ==
  ASSUME IInv, NEW p \in Procs, NEW l \in Labels, Goto(p, l),
         UNCHANGED <<disk, unique, robbed>>,
         l \in HasUnique => pc[p] \in HasUnique,
         l \in Written => pc[p] \in Written,
         l \notin {"write", "link", "undo"},
         l = "owned" => unique[p] = lock
  PROVE  IInv'
BY DEF IInv, Types, UniqueFiles, WrittenBeforeLink, OwnersHold, Goto, disk

(* Removing the lock by name. *)
LEMMA RemoveLockStep ==
  ASSUME IInv, NEW p \in Procs, NEW l \in Labels, Goto(p, l), RemoveLock(p),
         UNCHANGED manager,
         l \in HasUnique \cup Written => pc[p] \in HasUnique \cap Written,
         l \notin {"write", "link", "undo", "owned"}
  PROVE  IInv'
BY LockFileAssumption
   DEF IInv, Types, UniqueFiles, WrittenBeforeLink, OwnersHold, Goto, manager,
       RemoveLock, FreeUnlinked, Holders, HasUnique, Written

(* Removing one's unique file, or forgetting it when the process dies. *)
LEMMA DropUniqueStep ==
  ASSUME IInv, NEW p \in Procs, NEW l \in Labels, Goto(p, l),
         files' \in {files, files \ {unique[p]}}, UNCHANGED lock,
         UNCHANGED pid \/ FreeUnlinked,
         unique' = [unique EXCEPT ![p] = NoFile],
         robbed' \in {robbed, robbed \ {p}},
         l \notin HasUnique \cup Written
  PROVE  IInv'
<1>1. Types' /\ UniqueFiles'
  BY LockFileAssumption DEF IInv, Types, UniqueFiles, Goto, FreeUnlinked
<1>2. \A i \in files' \cup {lock} : i \in Inodes => pid'[i] = pid[i]
  BY DEF FreeUnlinked
<1>3. \A q \in Procs : pc'[q] \in HasUnique \cup Written => q # p /\ pc'[q] = pc[q] /\ unique'[q] = unique[q]
  BY DEF IInv, Types, Goto
<1>4. WrittenBeforeLink'
  BY <1>1, <1>2, <1>3
     DEF IInv, Types, UniqueFiles, WrittenBeforeLink, HasUnique, Written
<1>5. OwnersHold'
  BY <1>3 DEF IInv, Types, OwnersHold, HasUnique
<1> QED BY <1>1, <1>4, <1>5 DEF IInv
-----------------------------------------------------------------------------
(* The invariant survives each system call of a process, and its death.      *)
LEMMA StepIInv == ASSUME IInv, NEW p \in Procs, Step(p) \/ Client(p)
                  PROVE  IInv'
<1> USE DEF Labels, HasUnique, Written, NoOwner, manager
<1>1. CASE Construct(p) BY <1>1, QuietStep DEF Construct, IInv, Types
<1>2. CASE CheckExists(p) BY <1>2, QuietStep DEF CheckExists, IInv, Types
<1>3. CASE ReadPid(p) BY <1>3, QuietStep DEF ReadPid, IInv, Types
<1>4. CASE RemoveInvalid(p) BY <1>4, RemoveLockStep DEF RemoveInvalid
<1>5. CASE CreateUnique(p)
  <2>1. CASE Goto(p, "error") /\ UNCHANGED <<files, unique>>
    BY <1>5, <2>1, QuietStep DEF CreateUnique, disk, IInv, Types
  <2>2. CASE \E i \in Inodes \ (files \cup {lock}) :
               /\ files' = files \cup {i}
               /\ unique' = [unique EXCEPT ![p] = i]
               /\ Goto(p, "write")
    BY <1>5, <2>2, LockFileAssumption
       DEF CreateUnique, Goto, IInv, Types, UniqueFiles, WrittenBeforeLink,
           OwnersHold
  <2> QED BY <1>5, <2>1, <2>2 DEF CreateUnique
<1>6. CASE WritePid(p)
  BY <1>6, LockFileAssumption
     DEF WritePid, Goto, IInv, Types, UniqueFiles, WrittenBeforeLink, OwnersHold
<1>7. CASE HardLink(p)
  <2>1. CASE lock = NoFile
    BY <1>7, <2>1, LockFileAssumption
       DEF HardLink, Goto, IInv, Types, UniqueFiles, WrittenBeforeLink,
           OwnersHold
  <2>2. CASE lock # NoFile
    BY <1>7, <2>2, QuietStep DEF HardLink, disk, IInv, Types
  <2> QED BY <2>1, <2>2
<1>8. CASE StatLinkCount(p)
  BY <1>8, QuietStep DEF StatLinkCount, IInv, Types
<1>9. CASE RemoveUnique(p)
  BY <1>9, DropUniqueStep DEF RemoveUnique, IInv, Types
<1>10. CASE GiveUp(p) BY <1>10, RemoveLockStep DEF GiveUp
<1>11. CASE WakeUp(p) BY <1>11, QuietStep DEF WakeUp, IInv, Types
<1>12. CASE CheckOwner(p) BY <1>12, QuietStep DEF CheckOwner, IInv, Types
<1>13. CASE ReleaseUnique(p)
  BY <1>13, DropUniqueStep DEF ReleaseUnique, ForgetManager, IInv, Types
<1>14. CASE StartWait(p) BY <1>14, QuietStep DEF StartWait, IInv, Types
<1>15. CASE DestroyShared(p)
  BY <1>15, DropUniqueStep DEF DestroyShared, ForgetManager, disk, IInv, Types
<1>16. CASE Release(p) BY <1>16, RemoveLockStep DEF Release
<1>17. CASE Crash(p)
  BY <1>17, DropUniqueStep DEF Crash, ForgetManager, disk, IInv, Types
<1>18. CASE ReusePid(p) BY <1>18, QuietStep DEF ReusePid, Dead, IInv, Types
<1> QED BY <1>1, <1>2, <1>3, <1>4, <1>5, <1>6, <1>7, <1>8, <1>9, <1>10, <1>11,
           <1>12, <1>13, <1>14, <1>15, <1>16, <1>17, <1>18 DEF Step, Client

(* ... hence every step of the system,                                       *)
LEMMA NextIInv == IInv /\ [Next]_vars => IInv'
<1> SUFFICES ASSUME IInv, [Next]_vars PROVE IInv'
  OBVIOUS
<1>1. CASE Next BY <1>1, StepIInv DEF Next
<1>2. CASE UNCHANGED vars
  BY <1>2 DEF vars, IInv, Types, UniqueFiles, WrittenBeforeLink, OwnersHold
<1> QED BY <1>1, <1>2

(* ... and holds in every state it reaches.                                  *)
LEMMA SpecIInv == Spec => []IInv
BY InitIInv, NextIInv, PTL DEF Spec
-----------------------------------------------------------------------------
(* The hard link makes the lock exclusive: however many processes run the    *)
(* protocol, fail and die, two of them own the lock at once only if the lock *)
(* file of one has been removed by another.                                  *)
THEOREM ExclusiveLock == Spec => []AtMostOneUnrobbedOwner
<1>1. IInv => AtMostOneUnrobbedOwner
  BY DEF IInv, OwnersHold, UniqueFiles, AtMostOneUnrobbedOwner, Owners, HasUnique
<1> QED BY <1>1, SpecIInv, PTL

(* A lock file that exists names a process, and names the process that holds *)
(* it: no reader ever sees the lock file of a live writer incomplete.        *)
THEOREM CompleteLockFile == Spec => []LockNamesItsOwner
<1>1. IInv => LockNamesItsOwner
  BY DEF IInv, WrittenBeforeLink, LockNamesItsOwner, Holders, Written
<1> QED BY <1>1, SpecIInv, PTL
-----------------------------------------------------------------------------
(* The sleeps are counted while a process waits, and not otherwise.          *)
Waits ==
  \A p \in Procs :
    /\ rounds[p] \in 0..MaxRounds
    /\ pc[p] \in {"sleep", "owner?"} => rounds[p] < MaxRounds
    /\ pc[p] \notin {"sleep", "owner?", "waited"} => rounds[p] = 0
OtherTypes ==
  /\ Owner \in [Procs -> Procs \cup {NoFile}]
  /\ retry \in [Procs -> BOOLEAN]
  /\ rounds \in [Procs -> 0..MaxRounds] /\ crashes \in 0..MaxCrashes
TInv == IInv /\ OtherTypes /\ Waits

Waiting == {"sleep", "owner?", "waited"}

(* A process goes to another label, where it has slept as often as before or *)
(* not at all.                                                               *)
LEMMA LabelStep ==
  ASSUME TInv, NEW p \in Procs, NEW l \in Labels, Goto(p, l),
         NEW n \in 0..MaxRounds, rounds' = [rounds EXCEPT ![p] = n],
         l \in {"sleep", "owner?"} => n < MaxRounds,
         l \notin Waiting => n = 0
  PROVE  rounds' \in [Procs -> 0..MaxRounds] /\ Waits'
<1>1. ASSUME NEW q \in Procs, q # p PROVE rounds'[q] = rounds[q] /\ pc'[q] = pc[q]
  BY <1>1 DEF TInv, IInv, Types, OtherTypes, Goto
<1>2. rounds'[p] = n /\ pc'[p] = l
  BY DEF TInv, IInv, Types, OtherTypes, Goto
<1>3. rounds' \in [Procs -> 0..MaxRounds]
  BY DEF TInv, OtherTypes
<1> QED BY <1>1, <1>2, <1>3 DEF TInv, Waits, Waiting

LEMMA StepWaits == ASSUME TInv, NEW p \in Procs, Step(p) \/ Client(p)
                   PROVE  rounds' \in [Procs -> 0..MaxRounds] /\ Waits'
<1>1. /\ rounds \in [Procs -> 0..MaxRounds] /\ rounds[p] \in 0..MaxRounds
      /\ pc[p] \in {"sleep", "owner?"} => rounds[p] < MaxRounds
      /\ pc[p] \notin Waiting => rounds[p] = 0
      /\ MaxRounds \in Nat \ {0} /\ 0 \in 0..MaxRounds
  BY LockFileAssumption DEF TInv, OtherTypes, Waits, Waiting
<1>2. rounds = [rounds EXCEPT ![p] = rounds[p]]
  BY <1>1
<1>3. ASSUME UNCHANGED rounds, NEW l \in Labels, Goto(p, l),
             \/ pc[p] \notin Waiting
             \/ pc[p] \in {"sleep", "owner?"} /\ l \in Waiting
      PROVE  rounds' \in [Procs -> 0..MaxRounds] /\ Waits'
  BY <1>1, <1>2, <1>3, LabelStep DEF Waiting
<1>4. CASE \/ Construct(p) \/ CheckExists(p) \/ ReadPid(p) \/ RemoveInvalid(p)
           \/ CreateUnique(p) \/ WritePid(p) \/ HardLink(p) \/ StatLinkCount(p)
           \/ RemoveUnique(p) \/ GiveUp(p) \/ StartWait(p) \/ Release(p)
           \/ ReusePid(p)
  <2>1. pc[p] \notin Waiting /\ rounds' = rounds
    BY <1>4 DEF Construct, CheckExists, ReadPid, RemoveInvalid, CreateUnique,
       WritePid, HardLink, StatLinkCount, RemoveUnique, GiveUp, StartWait,
       Release, ReusePid, Dead, Waiting, manager
  <2>2. \E l \in Labels : Goto(p, l)
    BY <1>4 DEF Construct, CheckExists, ReadPid, RemoveInvalid, CreateUnique,
       WritePid, HardLink, StatLinkCount, RemoveUnique, GiveUp, StartWait,
       Release, ReusePid, NoOwner, Labels
  <2> QED BY <1>3, <2>1, <2>2
<1>5. CASE WakeUp(p)
  BY <1>3, <1>5 DEF WakeUp, Waiting, Labels
<1>6. CASE CheckOwner(p)
  <2>1. /\ rounds[p] + 1 \in 0..MaxRounds
        /\ rounds' = [rounds EXCEPT ![p] = rounds[p] + 1]
    BY <1>1, <1>6 DEF CheckOwner
  <2>2. CASE Goto(p, "waited")
    BY <2>1, <2>2, LabelStep DEF Waiting, Labels
  <2>3. CASE Goto(p, "sleep") /\ rounds[p] + 1 # MaxRounds
    <3>1. rounds[p] + 1 < MaxRounds
      BY <1>1, <2>1, <2>3
    <3>2. "sleep" \in Labels /\ "sleep" \in Waiting
      BY DEF Waiting, Labels
    <3> QED BY <2>1, <2>3, <3>1, <3>2, LabelStep
  <2> QED BY <1>6, <2>2, <2>3 DEF CheckOwner
<1>7. CASE DestroyShared(p) \/ ReleaseUnique(p) \/ Crash(p)
  <2>1. rounds' = [rounds EXCEPT ![p] = 0] /\ (Goto(p, "none") \/ Goto(p, "dead"))
    BY <1>7 DEF DestroyShared, ReleaseUnique, Crash, ForgetManager
  <2> QED BY <1>1, <2>1, LabelStep DEF Waiting, Labels
<1> QED BY <1>4, <1>5, <1>6, <1>7 DEF Step, Client

LEMMA StepOthers == ASSUME TInv, NEW p \in Procs, Step(p) \/ Client(p)
                    PROVE  OtherTypes'
<1>1. /\ Owner \in [Procs -> Procs \cup {NoFile}]
      /\ retry \in [Procs -> BOOLEAN] /\ crashes \in 0..MaxCrashes
      /\ MaxCrashes \in Nat
  BY LockFileAssumption DEF TInv, OtherTypes
<1>2. CASE ReadPid(p)
  <2>1. lock # NoFile => pid[lock] \in Procs \cup {NoFile}
    BY DEF TInv, IInv, Types
  <2> QED BY <1>1, <1>2, <2>1, StepWaits DEF ReadPid, OtherTypes
<1>3. CASE RemoveUnique(p)
  <2>1. \E b \in BOOLEAN : retry' = [retry EXCEPT ![p] = b]
    BY <1>3 DEF RemoveUnique
  <2> QED BY <1>1, <1>3, <2>1, StepWaits DEF RemoveUnique, OtherTypes
<1>4. CASE DestroyShared(p) \/ ReleaseUnique(p) \/ Crash(p)
  <2>1. /\ Owner' = [Owner EXCEPT ![p] = NoFile]
        /\ retry' = [retry EXCEPT ![p] = FALSE]
    BY <1>4 DEF DestroyShared, ReleaseUnique, Crash, ForgetManager
  <2>2. crashes' \in 0..MaxCrashes
    BY <1>1, <1>4 DEF DestroyShared, ReleaseUnique, Crash
  <2> QED BY <1>1, <2>1, <2>2, StepWaits DEF OtherTypes
<1>5. CASE \/ Construct(p) \/ CheckExists(p) \/ RemoveInvalid(p)
           \/ CreateUnique(p) \/ WritePid(p) \/ HardLink(p) \/ StatLinkCount(p)
           \/ GiveUp(p) \/ StartWait(p) \/ Release(p) \/ ReusePid(p)
           \/ WakeUp(p) \/ CheckOwner(p)
  <2>1. UNCHANGED <<Owner, retry, crashes>>
    BY <1>5 DEF Construct, CheckExists, RemoveInvalid, CreateUnique, WritePid,
       HardLink, StatLinkCount, GiveUp, StartWait, Release, ReusePid, WakeUp,
       CheckOwner, manager
  <2> QED BY <1>1, <2>1, StepWaits DEF OtherTypes
<1> QED BY <1>2, <1>3, <1>4, <1>5 DEF Step, Client

(* Every variable has its type, and no process sleeps more than MaxRounds    *)
(* times for one lock (waitForUnlock).                                       *)
THEOREM TypeCorrect == Spec => []TypeOK
<1>1. Init => TInv
  BY InitIInv, LockFileAssumption
     DEF Init, TInv, OtherTypes, Waits, IInv, Types
<1>2. TInv /\ [Next]_vars => TInv'
  <2>1. ASSUME TInv, Next PROVE TInv'
    BY <2>1, NextIInv, StepWaits, StepOthers DEF TInv, Next
  <2>2. ASSUME TInv, UNCHANGED vars PROVE TInv'
    BY <2>2, NextIInv DEF TInv, vars, OtherTypes, Waits
  <2> QED BY <2>1, <2>2
<1>3. TInv => TypeOK
  BY DEF TInv, IInv, Types, OtherTypes, TypeOK
<1> QED BY <1>1, <1>2, <1>3, PTL DEF Spec
=============================================================================
