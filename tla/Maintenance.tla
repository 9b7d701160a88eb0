----------------------------- MODULE Maintenance ----------------------------
(***************************************************************************)
(* The scheduler of a long-running process, the MCP server, next to the    *)
(* commands of RepoLock.  It polls on a timer, and starts a task that is   *)
(* due unless the repository is locked.  One task stands for all three.    *)
(* The server's own tool calls take no lock.  scheduler.enabled keeps its  *)
(* default.                                                                *)
(***************************************************************************)
EXTENDS RepoLock

CONSTANTS
    PollEvery,   \* POLL_INTERVAL_MS, in ticks
    TaskEvery    \* the task's interval, in ticks

ASSUME PeriodAssumption ==
    /\ PollEvery \in Nat \ {0} /\ TaskEvery \in Nat \ {0} /\ PollEvery <= TaskEvery

VARIABLES
    server,   \* what the server's timer callback does: idle, check, running
    poll,     \* ticks since the timer last fired
    mark      \* ticks since lastRunAt

maintVars == <<server, poll, mark>>
allVars == <<lockVars, maintVars>>

Later(n, bound) == IF n < bound THEN n + 1 ELSE n

\* lastRunAt starts at 0, long ago.
MInit ==
    /\ LockInit
    /\ server = "idle" /\ poll = 0
    /\ mark = TaskEvery

MTick ==
    /\ Tick
    /\ poll' = Later(poll, PollEvery)
    /\ mark' = Later(mark, TaskEvery)
    /\ UNCHANGED server

AnyLockFile == file # NoFile     \* mutant: does not ask whether the process lives
IsRepoLocked == file \in Locks /\ IsAlive(file.pid)

Due == mark >= TaskEvery

\* schedulerTick: lastRunAt is set before runTask looks at the lock.
Poll ==
    /\ server = "idle" /\ poll = PollEvery
    /\ poll' = 0
    /\ IF Due THEN mark' = 0 /\ server' = "check"
              ELSE UNCHANGED <<mark, server>>
    /\ UNCHANGED lockVars

RunTask ==
    /\ server = "check"
    /\ server' = IF IsRepoLocked THEN "idle" ELSE "running"
    /\ UNCHANGED <<lockVars, poll, mark>>

EndTask ==
    /\ server = "running"
    /\ server' = "idle"
    /\ UNCHANGED <<lockVars, poll, mark>>

MNext ==
    \/ \E p \in Procs : (Spawn(p) \/ Crash(p) \/ LockStep(p)) /\ UNCHANGED maintVars
    \/ MTick \/ Poll \/ RunTask \/ EndTask

MSpec == MInit /\ [][MNext]_allVars

\* Commands come to their end, time passes, and the event loop is not starved.
\* Nobody has to run another command.
MFairSpec ==
    /\ MSpec /\ SF_allVars(MTick)
    /\ \A p \in Procs : /\ SF_allVars(LockStep(p) /\ UNCHANGED maintVars)
                        /\ SF_allVars(ReleaseCheck(p) /\ UNCHANGED maintVars)
    /\ WF_allVars(Poll) /\ WF_allVars(RunTask) /\ WF_allVars(EndTask)

-----------------------------------------------------------------------------
(* Correctness.                                                            *)

\* A lock that nobody holds any more, such as one left by a killed command whose
\* process id is free, does not keep maintenance from running.
DeadLocksAreIgnored ==
    <>[](file \in Locks => ~ IsAlive(file.pid)) => []<>(server = "running")
=============================================================================
