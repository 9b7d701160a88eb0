------------------------------ MODULE RepoLock ------------------------------
(***************************************************************************)
(* .purix/repo.lock: the advisory lock of the mutating commands.  The file *)
(* names a process id and the time of its holder's last heartbeat.  Every  *)
(* file-system call is a step, since other processes run in between.       *)
(*                                                                         *)
(* Time is counted in ticks.  Instead of a time stamp the file holds the   *)
(* age of its last heartbeat, which stops counting once it is stale.       *)
(***************************************************************************)
EXTENDS Naturals, FiniteSets

CONSTANTS
    Procs,           \* slots in which a process can run
    Pids,            \* process ids the operating system gives out, and reuses
    Retrying,        \* slots in which a command may be run without end
    NoPid, NoFile, Torn,
    HeartbeatEvery,  \* HEARTBEAT_MS, in ticks
    StaleAfter,      \* STALE_MS, in ticks
    Bystanders,      \* do other programs run, which may be given any process id?
    MaxRuns,         \* bound: processes started in a behaviour, retries excepted
    MaxCrashes       \* bound: processes killed in a behaviour

ASSUME NameAssumption ==
    /\ NoPid \notin Pids /\ NoFile # Torn /\ Retrying \subseteq Procs
    /\ {NoFile, Torn} \intersect [pid : Pids, age : 0..StaleAfter + 1] = {}
ASSUME TimeAssumption ==
    /\ HeartbeatEvery \in Nat \ {0} /\ StaleAfter \in Nat /\ HeartbeatEvery < StaleAfter
ASSUME SwitchAssumption ==
    /\ Bystanders \in BOOLEAN
    /\ MaxRuns \in Nat /\ MaxCrashes \in Nat

VARIABLES
    file,    \* the lock file: absent, truncated, or a record
    pid,     \* slot -> process id, NoPid when no process runs there
    pc,      \* slot -> where its process stands
    timer,   \* slots whose heartbeat timer is set -> ticks since it last fired
    incidents,   \* history: what the lock is not made for, and has happened
    runs, crashes

lockVars == <<file, pid, pc, timer, incidents, runs, crashes>>

Old == StaleAfter + 1
Locks == [pid : Pids, age : 0..Old]

LockInit ==
    /\ file = NoFile
    /\ pid = [p \in Procs |-> NoPid] /\ pc = [p \in Procs |-> "gone"]
    /\ timer = [p \in {} |-> 0]
    /\ incidents = {}
    /\ runs = 0 /\ crashes = 0

Enter(p, label) == pc' = [pc EXCEPT ![p] = label]
IsAlive(n) == \E p \in Procs : pid[p] = n
Fresh(p) == [pid |-> pid[p], age |-> 0]
SetTimer(p) == timer' = [q \in DOMAIN timer \union {p} |-> IF q = p THEN 0 ELSE timer[q]]
ClearTimer(p) == timer' = [q \in DOMAIN timer \ {p} |-> timer[q]]

Acquiring == {"read", "remove", "write", "fill"}
Releasing == {"release_read", "release_unlink"}
Inside(p) == pc[p] \in Acquiring \union Releasing \union {"beating"}

\* A process that calls a lock function while another one is inside: from now on
\* one of them may meet the file between two calls of the other.
NoteOverlap(p) ==
    incidents' = incidents \union
        (IF \E q \in Procs \ {p} : Inside(q) THEN {"overlap"} ELSE {})

-----------------------------------------------------------------------------
(* Processes come and go.                                                  *)

\* A mutating command, or a process that has nothing to do with Purix.
Spawn(p) ==
    /\ pc[p] = "gone"
    /\ p \notin Retrying => runs < MaxRuns
    /\ runs' = IF p \in Retrying THEN runs ELSE runs + 1
    /\ \E n \in Pids : ~ IsAlive(n) /\ pid' = [pid EXCEPT ![p] = n]
    /\ \/ Enter(p, "acquire")
       \/ Bystanders /\ p \notin Retrying /\ Enter(p, "bystander")
    /\ UNCHANGED <<file, timer, incidents, crashes>>

Exit(p) ==
    /\ pc[p] = "exit"
    /\ pid' = [pid EXCEPT ![p] = NoPid] /\ Enter(p, "gone")
    /\ UNCHANGED <<file, timer, incidents, runs, crashes>>

\* Killed without a handler: the file stays as it is.
Crash(p) ==
    /\ pc[p] # "gone" /\ crashes < MaxCrashes
    /\ crashes' = crashes + 1
    /\ pid' = [pid EXCEPT ![p] = NoPid] /\ Enter(p, "gone")
    /\ ClearTimer(p)
    /\ UNCHANGED <<file, incidents, runs>>

-----------------------------------------------------------------------------
(* acquireRepoLock.                                                        *)

CheckExists(p) ==
    /\ pc[p] = "acquire"
    /\ NoteOverlap(p)
    /\ Enter(p, IF file = NoFile THEN "write" ELSE "read")
    /\ UNCHANGED <<file, pid, timer, runs, crashes>>

NotAlive(l) == ~ IsAlive(l.pid)   \* mutant: a live process id is proof enough
MissedBeat(l) == ~ IsAlive(l.pid) \/ l.age > HeartbeatEvery  \* mutant: the wrong constant
Abandoned(l) == ~ IsAlive(l.pid) \/ l.age > StaleAfter

\* A file that cannot be read or parsed is taken for a corrupt one.
ReadLock(p) ==
    /\ pc[p] = "read"
    /\ Enter(p, IF file \in {NoFile, Torn} \/ (file \in Locks /\ Abandoned(file))
               THEN "remove" ELSE "refused")
    /\ UNCHANGED <<file, pid, timer, incidents, runs, crashes>>

RemoveFile(p) ==
    /\ pc[p] = "remove"
    /\ file' = NoFile
    /\ Enter(p, "write")
    /\ UNCHANGED <<pid, timer, incidents, runs, crashes>>

\* writeFileSync opens and truncates the file, then writes it.
Truncate(p) ==
    /\ pc[p] = "write"
    /\ file' = Torn
    /\ Enter(p, "fill")
    /\ UNCHANGED <<pid, timer, incidents, runs, crashes>>

WriteLock(p) ==
    /\ pc[p] = "fill"
    /\ file' = Fresh(p)
    /\ SetTimer(p)
    /\ Enter(p, "held")
    /\ UNCHANGED <<pid, incidents, runs, crashes>>

-----------------------------------------------------------------------------
(* The heartbeat, and time.                                                *)

HeartbeatDue(p) == p \in DOMAIN timer /\ timer[p] >= HeartbeatEvery

\* The timer's callback writes the file, whatever it holds by now.
Beat(p) ==
    /\ pc[p] = "held" /\ HeartbeatDue(p)
    /\ NoteOverlap(p)
    /\ SetTimer(p)
    /\ file' = Torn
    /\ Enter(p, "beating")
    /\ UNCHANGED <<pid, runs, crashes>>

FinishBeat(p) ==
    /\ pc[p] = "beating"
    /\ file' = Fresh(p)
    /\ Enter(p, "held")
    /\ UNCHANGED <<pid, timer, incidents, runs, crashes>>

\* Synchronous work can keep the timer of a process from firing for as long as it
\* likes; past STALE_MS its lock is up for grabs.
Tick ==
    /\ file' = IF file \in Locks /\ file.age < Old
               THEN [file EXCEPT !.age = @ + 1] ELSE file
    /\ timer' = [p \in DOMAIN timer |-> IF timer[p] < Old THEN timer[p] + 1 ELSE timer[p]]
    /\ incidents' = incidents \union
          (IF \E p \in DOMAIN timer : timer[p] >= StaleAfter THEN {"late"} ELSE {})
    /\ UNCHANGED <<pid, pc, runs, crashes>>

-----------------------------------------------------------------------------
(* releaseRepoLock: at the end of the command, at a signal, and on the     *)
(* failure path of a command that was refused.                             *)

ReleaseCheck(p) ==
    /\ pc[p] \in {"held", "refused"}
    /\ NoteOverlap(p)
    /\ ClearTimer(p)
    /\ Enter(p, IF file = NoFile THEN "exit" ELSE "release_read")
    /\ UNCHANGED <<file, pid, runs, crashes>>

NotAsked(p) == TRUE               \* mutant: does not ask whose file it is
MayUnlink(p) == file \in {NoFile, Torn} \/ (file \in Locks /\ file.pid = pid[p])

ReleaseRead(p) ==
    /\ pc[p] = "release_read"
    /\ Enter(p, IF MayUnlink(p) THEN "release_unlink" ELSE "exit")
    /\ UNCHANGED <<file, pid, timer, incidents, runs, crashes>>

ReleaseUnlink(p) ==
    /\ pc[p] = "release_unlink"
    /\ file' = NoFile
    /\ Enter(p, "exit")
    /\ UNCHANGED <<pid, timer, incidents, runs, crashes>>

LockStep(p) ==
    \/ CheckExists(p) \/ ReadLock(p) \/ RemoveFile(p) \/ Truncate(p) \/ WriteLock(p)
    \/ Beat(p) \/ FinishBeat(p)
    \/ ReleaseCheck(p) \/ ReleaseRead(p) \/ ReleaseUnlink(p) \/ Exit(p)

LockNext == (\E p \in Procs : Spawn(p) \/ Crash(p) \/ LockStep(p)) \/ Tick

LockSpec == LockInit /\ [][LockNext]_lockVars

-----------------------------------------------------------------------------
(* Correctness.                                                            *)

\* The lock file, the processes and the timers keep their shapes.
LockTypeOK ==
    /\ file \in Locks \union {NoFile, Torn}
    /\ pid \in [Procs -> Pids \union {NoPid}]
    /\ pc \in [Procs -> {"gone", "bystander", "acquire", "refused", "held", "beating", "exit"}
                        \union Acquiring \union Releasing]
    /\ DOMAIN timer \subseteq Procs /\ \A p \in DOMAIN timer : timer[p] \in 0..Old
    /\ incidents \subseteq {"overlap", "late"}
    /\ runs \in 0..MaxRuns /\ crashes \in 0..MaxCrashes

Holds(p) == pc[p] \in {"held", "beating"}

\* Until two processes meet inside the lock functions or a holder's heartbeat is
\* late by more than STALE_MS, at most one command works on the repository, and as
\* long as one does, the file is there, names its process and is not stale: whoever
\* tries to acquire now is refused.
HolderIsProtected ==
    incidents = {} =>
        /\ \A p, q \in Procs : Holds(p) /\ Holds(q) => p = q
        /\ \A p \in Procs : pc[p] = "held" => /\ file \in Locks
                                              /\ file.pid = pid[p] /\ file.age <= StaleAfter

\* Until two processes meet inside the lock functions, a release removes no lock but
\* the one its own process wrote.  A holder may have been late, and have lost its
\* lock to another command, which works on when the late one ends.
ReleasesOwnLock ==
    [][\A p \in Procs :
          "overlap" \notin incidents /\ ReleaseUnlink(p) /\ file \in Locks
              => file.pid = pid[p]]_lockVars

\* A command that is run again and again gets the lock in the end, although
\* holders were killed and their process ids were given to others.
RetryGetsIn == \A p \in Retrying : []<>(pc[p] = "acquire") => []<>Holds(p)
=============================================================================
