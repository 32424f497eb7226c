--------------------------- MODULE LockFileManager ---------------------------
(* The ".lock" file protocol of lib/Support/LockFileManager.cpp: processes   *)
(* that share a file system, may die at any step, and reach the lock by name *)
(* in separate system calls.                                                 *)
EXTENDS Naturals, FiniteSets

CONSTANTS Procs,       \* processes, each with at most one manager at a time
          Inodes,      \* files the processes may create
          NoFile,      \* value of a name that is not in the directory
          Host,        \* Host[p]: name of the machine p runs on
          MaxRounds,   \* sleeps until the interval exceeds MaxSeconds
          FsErrors,    \* TRUE if calls of the file system may fail
          MaxCrashes   \* bound: how many processes may die

ASSUME LockFileAssumption ==
  /\ NoFile \notin Inodes
  /\ FsErrors \in BOOLEAN
  /\ MaxRounds \in Nat \ {0} /\ MaxCrashes \in Nat

VARIABLES
  lock,       \* inode the lock file name links to, or NoFile
  files,      \* inodes that a unique lock file name links to
  pid,        \* process whose host and PID an inode holds, NoFile if none
  unique,     \* inode of each process's UniqueLockFileName
  Owner,      \* process that the manager of a process found in the lock file
  pc,         \* where each process is in the code below
  retry,      \* TRUE in the second call of readLockFile
  rounds,     \* sleeps of waitForUnlock so far
  crashes,    \* number of deaths so far
  robbed      \* history: owners whose lock file another process has removed

vars == <<lock, files, pid, unique, Owner, pc, retry, rounds, crashes, robbed>>
disk == <<lock, files, pid>>
manager == <<unique, Owner, retry>>

(* One label per system call or decision of the code, and per client state. *)
Labels == {"none", "exists", "read", "invalid", "create", "write", "link",
           "stat", "undo", "unlink", "giveup", "error", "shared", "sleep",
           "owner?", "waited", "owned", "release", "dead"}
Goto(p, l) == pc' = [pc EXCEPT ![p] = l]
Owners == {p \in Procs : pc[p] = "owned"}
Holders == {p \in Procs : pc[p] \in {"stat", "owned", "release"}
                            /\ unique[p] = lock}

Dead(p) == pc[p] = "dead"
processStillExecuting(p, q) == Host[p] # Host[q] \/ ~Dead(q)

(* A file that no name links to any more is freed. *)
FreeUnlinked == pid' = [i \in Inodes |-> IF i \in files' \cup {lock'}
                                           THEN pid[i] ELSE NoFile]

(* Remove the lock by name, whoever has linked it by then. *)
RemoveLock(p) ==
  /\ lock' = NoFile
  /\ files' = files /\ FreeUnlinked
  /\ robbed' = robbed \cup (Holders \ {p})
-----------------------------------------------------------------------------
Init ==
  /\ lock = NoFile /\ files = {} /\ pid = [i \in Inodes |-> NoFile]
  /\ unique = [p \in Procs |-> NoFile] /\ Owner = [p \in Procs |-> NoFile]
  /\ pc = [p \in Procs |-> "none"] /\ retry = [p \in Procs |-> FALSE]
  /\ rounds = [p \in Procs |-> 0] /\ crashes = 0 /\ robbed = {}

Construct(p) ==
  /\ pc[p] = "none"
  /\ Goto(p, "exists")
  /\ UNCHANGED <<disk, manager, rounds, crashes, robbed>>

(* Nothing is left of the manager's own fields once it is gone. *)
ForgetManager(p) ==
  /\ unique' = [unique EXCEPT ![p] = NoFile]
  /\ Owner' = [Owner EXCEPT ![p] = NoFile]
  /\ retry' = [retry EXCEPT ![p] = FALSE]
  /\ rounds' = [rounds EXCEPT ![p] = 0]

(* readLockFile returns no owner: the first call goes on to create a unique  *)
(* file, the second to give up.                                              *)
NoOwner(p) == Goto(p, IF retry[p] THEN "giveup" ELSE "create")

(* readLockFile: does the lock file exist? An error counts as no. *)
CheckExists(p) ==
  /\ pc[p] = "exists"
  /\ \/ lock # NoFile /\ Goto(p, "read")
     \/ (lock = NoFile \/ FsErrors) /\ NoOwner(p)
  /\ UNCHANGED <<disk, manager, rounds, crashes, robbed>>

(* Mutant: the PID is read but not looked up. *)
ReadPidOfAnyone(p) ==
  /\ pc[p] = "read"
  /\ \E valid \in {lock # NoFile} \cup (IF FsErrors THEN {FALSE} ELSE {}) :
       /\ Owner' = [Owner EXCEPT ![p] = IF valid THEN pid[lock] ELSE NoFile]
       /\ Goto(p, IF valid THEN "shared" ELSE "invalid")
  /\ UNCHANGED <<disk, unique, retry, rounds, crashes, robbed>>

(* readLockFile: read the PID of whatever file has the name by now. A file   *)
(* that cannot be opened or read is as invalid as one of a dead process.     *)
ReadPid(p) ==
  /\ pc[p] = "read"
  /\ LET valid == lock # NoFile /\ processStillExecuting(p, pid[lock])
     IN \/ /\ valid
           /\ Owner' = [Owner EXCEPT ![p] = pid[lock]] /\ Goto(p, "shared")
        \/ /\ ~valid \/ FsErrors
           /\ Owner' = [Owner EXCEPT ![p] = NoFile] /\ Goto(p, "invalid")
  /\ UNCHANGED <<disk, unique, retry, rounds, crashes, robbed>>

(* readLockFile: "Delete the lock file. It's invalid anyway." *)
RemoveInvalid(p) ==
  /\ pc[p] = "invalid"
  /\ RemoveLock(p)
  /\ NoOwner(p)
  /\ UNCHANGED <<manager, rounds, crashes>>

CreateUnique(p) ==
  /\ pc[p] = "create"
  /\ \/ \E i \in Inodes \ (files \cup {lock}) :
          /\ files' = files \cup {i}
          /\ unique' = [unique EXCEPT ![p] = i]
          /\ Goto(p, "write")
     \/ FsErrors /\ Goto(p, "error") /\ UNCHANGED <<files, unique>>
  /\ UNCHANGED <<lock, pid, Owner, retry, rounds, crashes, robbed>>

(* Mutant: Out.has_error() is not checked. *)
WritePidUnchecked(p) ==
  /\ pc[p] = "write"
  /\ Goto(p, "link")
  /\ pid' = [pid EXCEPT ![unique[p]] = p] \/ (FsErrors /\ UNCHANGED pid)
  /\ UNCHANGED <<lock, files, manager, rounds, crashes, robbed>>

WritePid(p) ==
  /\ pc[p] = "write"
  /\ \/ pid' = [pid EXCEPT ![unique[p]] = p] /\ Goto(p, "link")
     \/ FsErrors /\ Goto(p, "undo") /\ UNCHANGED pid
  /\ UNCHANGED <<lock, files, manager, rounds, crashes, robbed>>

(* create_hard_link fails if the name exists or the file system has an       *)
(* error, and may appear to fail (its reply lost by a network file system)   *)
(* when it did create the link.                                              *)
HardLink(p) ==
  /\ pc[p] = "link"
  /\ \/ /\ lock = NoFile /\ lock' = unique[p]
        /\ Goto(p, "owned") \/ (FsErrors /\ Goto(p, "stat"))
     \/ /\ lock # NoFile \/ FsErrors
        /\ Goto(p, "stat") /\ UNCHANGED lock
  /\ UNCHANGED <<files, pid, manager, rounds, crashes, robbed>>

(* Mutant: one link is taken for two. *)
StatAnyLinkCount(p) ==
  /\ pc[p] = "stat"
  /\ Goto(p, IF unique[p] \in files THEN "owned" ELSE "unlink")
  /\ UNCHANGED <<disk, manager, rounds, crashes, robbed>>

(* A link count of 2 says that the lock name links to our own file. If stat  *)
(* fails the link is taken to be somebody else's.                            *)
StatLinkCount(p) ==
  /\ pc[p] = "stat"
  /\ \/ Goto(p, IF unique[p] = lock THEN "owned" ELSE "unlink")
     \/ FsErrors /\ Goto(p, "unlink")
  /\ UNCHANGED <<disk, manager, rounds, crashes, robbed>>

(* Remove the unique file, after a failed write or before reading again. *)
RemoveUnique(p) ==
  /\ pc[p] \in {"undo", "unlink"}
  /\ files' = files \ {unique[p]}
  /\ unique' = [unique EXCEPT ![p] = NoFile]
  /\ retry' = [retry EXCEPT ![p] = pc[p] = "unlink"]
  /\ Goto(p, IF pc[p] = "undo" THEN "error" ELSE "exists")
  /\ robbed' = robbed \ {p}
  /\ UNCHANGED <<lock, Owner, rounds, crashes>>
  /\ FreeUnlinked

(* "There is a lock file that nobody owns; try to clean it up and report     *)
(* an error."                                                                *)
GiveUp(p) ==
  /\ pc[p] = "giveup"
  /\ RemoveLock(p)
  /\ Goto(p, "error")
  /\ UNCHANGED <<manager, rounds, crashes>>
-----------------------------------------------------------------------------
(* waitForUnlock: sleep, then see whether the file is gone (if the file      *)
(* system reports an error, it is not)...                                    *)
StartWait(p) ==
  /\ pc[p] = "shared"
  /\ Goto(p, "sleep")
  /\ UNCHANGED <<disk, manager, rounds, crashes, robbed>>

WakeUp(p) ==
  /\ pc[p] = "sleep"
  /\ \/ lock = NoFile /\ Goto(p, "waited")
     \/ (lock # NoFile \/ FsErrors) /\ Goto(p, "owner?")
  /\ UNCHANGED <<disk, manager, rounds, crashes, robbed>>

(* Mutant: it never gives up. *)
CheckOwnerForever(p) ==
  /\ pc[p] = "owner?"
  /\ Goto(p, IF processStillExecuting(p, Owner[p]) THEN "sleep" ELSE "waited")
  /\ UNCHANGED <<disk, manager, rounds, crashes, robbed>>

(* ...or its owner dead, and double the interval up to MaxSeconds. *)
CheckOwner(p) ==
  /\ pc[p] = "owner?"
  /\ rounds' = [rounds EXCEPT ![p] = @ + 1]
  /\ Goto(p, IF \/ ~processStillExecuting(p, Owner[p])
                \/ rounds[p] + 1 = MaxRounds
               THEN "waited" ELSE "sleep")
  /\ UNCHANGED <<disk, manager, crashes, robbed>>

(* The destructor removes nothing unless the manager owns the lock... *)
DestroyShared(p) ==
  /\ pc[p] \in {"shared", "waited", "error"}
  /\ Goto(p, "none")
  /\ ForgetManager(p)
  /\ UNCHANGED <<disk, crashes, robbed>>

(* ...and then it removes the lock name and the unique name. *)
Release(p) ==
  /\ pc[p] = "owned"
  /\ RemoveLock(p)
  /\ Goto(p, "release")
  /\ UNCHANGED <<manager, rounds, crashes>>

ReleaseUnique(p) ==
  /\ pc[p] = "release"
  /\ files' = files \ {unique[p]}
  /\ robbed' = robbed \ {p}
  /\ Goto(p, "none")
  /\ ForgetManager(p)
  /\ UNCHANGED <<lock, crashes>>
  /\ FreeUnlinked
-----------------------------------------------------------------------------
Crash(p) ==
  /\ pc[p] \notin {"none", "dead"} /\ crashes < MaxCrashes
  /\ Goto(p, "dead")
  /\ crashes' = crashes + 1
  /\ robbed' = robbed \ {p}
  /\ ForgetManager(p)
  /\ UNCHANGED disk

(* A new process is given the PID of a dead one. *)
ReusePid(p) ==
  /\ Dead(p)
  /\ Goto(p, "none")
  /\ UNCHANGED <<disk, manager, rounds, crashes, robbed>>

(* What a process does by itself once its constructor, waitForUnlock or      *)
(* destructor is running.                                                    *)
Step(p) ==
  \/ CheckExists(p) \/ ReadPid(p) \/ RemoveInvalid(p) \/ CreateUnique(p)
  \/ WritePid(p) \/ HardLink(p) \/ StatLinkCount(p) \/ RemoveUnique(p)
  \/ GiveUp(p) \/ WakeUp(p) \/ CheckOwner(p) \/ ReleaseUnique(p)

(* What its client chooses to do, and its environment does to it. *)
Client(p) ==
  \/ Construct(p) \/ StartWait(p) \/ DestroyShared(p) \/ Release(p)
  \/ Crash(p) \/ ReusePid(p)

Next == \E p \in Procs : Step(p) \/ Client(p)
Spec == Init /\ [][Next]_vars /\ \A p \in Procs : WF_vars(Step(p))
-----------------------------------------------------------------------------
TypeOK ==
  /\ lock \in Inodes \cup {NoFile} /\ files \subseteq Inodes
  /\ pid \in [Inodes -> Procs \cup {NoFile}]
  /\ unique \in [Procs -> Inodes \cup {NoFile}]
  /\ Owner \in [Procs -> Procs \cup {NoFile}]
  /\ pc \in [Procs -> Labels]
  /\ retry \in [Procs -> BOOLEAN]
  /\ rounds \in [Procs -> 0..MaxRounds] /\ crashes \in 0..MaxCrashes
  /\ robbed \subseteq Procs

(* The hard link is what makes the lock exclusive: as long as nobody removes *)
(* the lock file of a process that holds it, that process is the one owner.  *)
AtMostOneUnrobbedOwner == \A p, q \in Owners \ robbed : p = q

(* A lock file is complete from the moment it exists, whatever dies or fails *)
(* when: it is linked after its unique file has been written.                *)
LockNamesItsOwner ==
  /\ lock # NoFile => pid[lock] \in Procs
  /\ \A p \in Holders : pid[lock] = p

(* waitForUnlock returns, also if the owner neither ends nor releases. *)
WaitEnds == \A p \in Procs : pc[p] = "sleep" ~> pc[p] \notin {"sleep", "owner?"}

(* A constructor that starts while the lock belongs to a dead process of the *)
(* same host gets rid of that lock, unless it reports an error or dies.      *)
StaleLockIsRemoved ==
  \A p \in Procs, i \in Inodes :
    LET stale == lock = i /\ pid[i] \in Procs /\ ~processStillExecuting(p, pid[i])
    IN (stale /\ pc[p] = "exists") ~> (~stale \/ pc[p] \in {"error", "dead"})

(* LockFileManager.h:24-26: "using the atomicity of the file system to       *)
(* ensure that only a single process can create that ".lock" file".          *)
OneOwner == Cardinality(Owners) <= 1
=============================================================================
