----------------------------- MODULE ConfigStore ----------------------------
(***************************************************************************)
(* .purix/config.json, which several processes read, change and write back *)
(* under the directory config.lock, and config.lock.steal, under which the *)
(* lock of a dead holder is removed.  Every file-system call is a step.    *)
(* Processes set and delete keys of their own, and getProjectId looks for  *)
(* the id without the lock before it asks getOrCreate for it.              *)
(*                                                                         *)
(* A process that dies gives its slot to another one; a holder.json it     *)
(* leaves names nobody alive.  Time is counted in ticks.  Reading a lock's *)
(* holder and its age is one step; renaming a file over another is atomic. *)
(***************************************************************************)
EXTENDS Naturals, FiniteSets

CONSTANTS
    Procs,
    Unknown,         \* no readable holder.json
    Dead,            \* a holder.json that names a process that is gone
    NoDir, NoId,
    StaleAfter,      \* CONFIG_LOCK_STALE_MS, in ticks
    AbandonedAfter,  \* CONFIG_LOCK_ABANDONED_MS, in ticks
    Stalls,          \* may a process that holds a lock be stopped for ticks?
    MaxCalls,        \* bound: calls of set, delete and getProjectId in a behaviour
    MaxCrashes,      \* bound: processes killed in a behaviour
    Retrying         \* processes that call delete for ever, whatever the bound

ASSUME NameAssumption ==
    /\ Unknown # Dead /\ {Unknown, Dead, NoId} \intersect Procs = {}
    /\ NoDir \notin 0..AbandonedAfter + 1
    /\ NoDir \notin [holder : Procs \union {Unknown, Dead}, age : 0..AbandonedAfter + 1]
    /\ Retrying \subseteq Procs
ASSUME BoundAssumption ==
    /\ StaleAfter \in Nat /\ AbandonedAfter \in Nat /\ StaleAfter < AbandonedAfter
    /\ Stalls \in BOOLEAN /\ MaxCalls \in Nat /\ MaxCrashes \in Nat

VARIABLES
    config,  \* what config.json holds: a counter under each process's own key,
             \* (0 when there is no such key), and the project id
    lock,    \* config.lock: absent, or its holder.json and its age
    steal,   \* config.lock.steal: absent, or its age
    pc, call, read,  \* per process: where it stands, its call, what it has read
    wrote,   \* per process: the counter that its last set() or delete() left
    ids,     \* what getProjectId() returned to its callers
    calls, crashes

local == <<pc, call, read>>
vars == <<config, lock, steal, local, wrote, ids, calls, crashes>>

Old == AbandonedAfter + 1
Configs == [count : [Procs -> 0..MaxCalls], id : Procs \union {NoId}]
Operations == {"set", "delete", "id"}
Empty == [count |-> [p \in Procs |-> 0], id |-> NoId]

Init ==
    /\ config = Empty /\ lock = NoDir /\ steal = NoDir
    /\ pc = [p \in Procs |-> "idle"] /\ call = [p \in Procs |-> "set"]
    /\ read = [p \in Procs |-> Empty]
    /\ wrote = [p \in Procs |-> 0] /\ ids = {}
    /\ calls = 0 /\ crashes = 0

Goto(p, label) == pc' = [pc EXCEPT ![p] = label]
stores == <<config, lock, steal>>
results == <<wrote, ids>>
bounds == <<calls, crashes>>

-----------------------------------------------------------------------------
(* acquireConfigLock and tryStealStaleLock.                                *)

Call(p) ==
    /\ pc[p] = "idle" /\ (p \in Retrying \/ calls < MaxCalls)
    /\ calls' = IF p \in Retrying THEN calls ELSE calls + 1
    /\ \E c \in (IF p \in Retrying THEN {"delete"} ELSE Operations) :
        /\ call' = [call EXCEPT ![p] = c]
        /\ Goto(p, IF c = "id" THEN "cached" ELSE "mkdir")
    /\ UNCHANGED <<stores, read, results, crashes>>

\* getProjectId: an id that is there is returned at once.
GetCached(p) ==
    /\ pc[p] = "cached"
    /\ IF config.id # NoId
       THEN Goto(p, "idle") /\ ids' = ids \union {config.id}
       ELSE Goto(p, "mkdir") /\ UNCHANGED ids
    /\ UNCHANGED <<stores, call, read, wrote, bounds>>

Mkdir(p) ==
    /\ pc[p] = "mkdir"
    /\ IF lock = NoDir
       THEN lock' = [holder |-> Unknown, age |-> 0] /\ Goto(p, "holder")
       ELSE Goto(p, "judge") /\ UNCHANGED lock
    /\ UNCHANGED <<config, steal, call, read, results, bounds>>

\* Best effort: it fails when the directory is gone.
WriteHolder(p) ==
    /\ pc[p] = "holder"
    /\ lock' = IF lock = NoDir THEN NoDir ELSE [lock EXCEPT !.holder = p]
    /\ Goto(p, "read")
    /\ UNCHANGED <<config, steal, call, read, results, bounds>>

\* Mutant: a lock without a readable holder.json may be stolen at any age.
StealUnknown(l) == l.holder \in {Dead, Unknown} \/ l.age > AbandonedAfter
\* Mutant: only a lock that names its holder is ever stolen.
StealNamed(l) == l.holder = Dead \/ (l.holder # Unknown /\ l.age > AbandonedAfter)
Stealable(l) ==
    CASE l.holder = Dead    -> TRUE
      [] l.holder = Unknown -> l.age > StaleAfter
      [] OTHER              -> l.age > AbandonedAfter

\* When the lock vanished since mkdir found it, mkdir is tried again at once.
Judge(p) ==
    /\ pc[p] = "judge"
    /\ Goto(p, IF lock = NoDir THEN "mkdir"
               ELSE IF Stealable(lock) THEN "steal" ELSE "wait")
    /\ UNCHANGED <<stores, call, read, results, bounds>>

MkdirSteal(p) ==
    /\ pc[p] = "steal"
    /\ IF steal = NoDir THEN steal' = 0 /\ Goto(p, "verify")
       ELSE Goto(p, IF steal > StaleAfter THEN "break" ELSE "wait") /\ UNCHANGED steal
    /\ UNCHANGED <<config, lock, call, read, results, bounds>>

\* Removing the stealing mutex of one that crashed is not verified again.
BreakSteal(p) ==
    /\ pc[p] = "break"
    /\ steal' = NoDir
    /\ Goto(p, "wait")
    /\ UNCHANGED <<config, lock, call, read, results, bounds>>

TrustVerdict(p) == TRUE    \* mutant: the verdict is not taken again
Verified(p) == lock # NoDir /\ Stealable(lock)

Verify(p) ==
    /\ pc[p] = "verify"
    /\ Goto(p, IF Verified(p) THEN "remove" ELSE "leave")
    /\ UNCHANGED <<stores, call, read, results, bounds>>

RemoveLock(p) ==
    /\ pc[p] = "remove"
    /\ lock' = NoDir
    /\ Goto(p, "stolen")
    /\ UNCHANGED <<config, steal, call, read, results, bounds>>

LeaveSteal(p) ==
    /\ pc[p] \in {"leave", "stolen"}
    /\ steal' = NoDir
    /\ Goto(p, IF pc[p] = "stolen" /\ lock = NoDir THEN "mkdir" ELSE "wait")
    /\ UNCHANGED <<config, lock, call, read, results, bounds>>

\* Wait and try again, or, after CONFIG_LOCK_RETRIES, throw.
Wait(p) ==
    /\ pc[p] = "wait"
    /\ Goto(p, "mkdir") \/ Goto(p, "idle")
    /\ UNCHANGED <<stores, call, read, results, bounds>>

-----------------------------------------------------------------------------
(* set, delete and getOrCreate, inside the lock.                           *)

IdMissing(p) == config.id = NoId

ReadAll(p) ==
    /\ pc[p] = "read"
    /\ read' = [read EXCEPT ![p] = config]
    /\ IF call[p] # "id" \/ IdMissing(p)
       THEN Goto(p, "write") /\ UNCHANGED ids
       ELSE Goto(p, "release") /\ ids' = ids \union {config.id}
    /\ UNCHANGED <<stores, call, wrote, bounds>>

\* The whole object is written back, with one key changed or deleted.
WriteAll(p) ==
    /\ pc[p] = "write"
    /\ IF call[p] = "id"
       THEN /\ config' = [read[p] EXCEPT !.id = p]
            /\ ids' = ids \union {p}
            /\ UNCHANGED wrote
       ELSE /\ wrote' = [wrote EXCEPT ![p] = IF call[p] = "set" THEN @ + 1 ELSE 0]
            /\ config' = [read[p] EXCEPT !.count[p] = wrote'[p]]
            /\ UNCHANGED ids
    /\ Goto(p, "release")
    /\ UNCHANGED <<lock, steal, call, read, bounds>>

\* releaseConfigLock: only a lock that names somebody else is left alone.
Release(p) ==
    /\ pc[p] = "release"
    /\ Goto(p, IF lock # NoDir /\ lock.holder \notin {p, Unknown} THEN "done" ELSE "rmdir")
    /\ UNCHANGED <<stores, call, read, results, bounds>>

RemoveOwnLock(p) ==
    /\ pc[p] = "rmdir"
    /\ lock' = NoDir
    /\ Goto(p, "done")
    /\ UNCHANGED <<config, steal, call, read, results, bounds>>

Return(p) ==
    /\ pc[p] = "done"
    /\ Goto(p, "idle")
    /\ read' = [read EXCEPT ![p] = Empty]
    /\ UNCHANGED <<stores, call, results, bounds>>

-----------------------------------------------------------------------------
(* Kills and time.                                                         *)

\* The counter of a slot goes on where the file left it.
Crash(p) ==
    /\ pc[p] # "idle" /\ crashes < MaxCrashes
    /\ crashes' = crashes + 1
    /\ lock' = IF lock # NoDir /\ lock.holder = p THEN [lock EXCEPT !.holder = Dead] ELSE lock
    /\ Goto(p, "idle")
    /\ read' = [read EXCEPT ![p] = Empty]
    /\ UNCHANGED <<config, steal, call, results, calls>>

Outside == {"idle", "cached", "mkdir", "judge", "steal", "break", "wait", "done"}

\* The sections under the locks take milliseconds; what is outside may last.
Tick ==
    /\ Stalls \/ \A p \in Procs : pc[p] \in Outside
    /\ lock' = IF lock # NoDir /\ lock.age < Old THEN [lock EXCEPT !.age = @ + 1] ELSE lock
    /\ steal' = IF steal # NoDir /\ steal < Old THEN steal + 1 ELSE steal
    /\ UNCHANGED <<config, local, results, bounds>>

Step(p) ==
    \/ GetCached(p) \/ Mkdir(p) \/ WriteHolder(p) \/ Judge(p) \/ MkdirSteal(p) \/ BreakSteal(p)
    \/ Verify(p) \/ RemoveLock(p) \/ LeaveSteal(p) \/ Wait(p)
    \/ ReadAll(p) \/ WriteAll(p) \/ Release(p) \/ RemoveOwnLock(p) \/ Return(p)

Next == (\E p \in Procs : Call(p) \/ Step(p) \/ Crash(p)) \/ Tick

Spec == Init /\ [][Next]_vars

FairSpec ==
    /\ Spec /\ SF_vars(Tick)
    /\ \A p \in Procs : WF_vars(Step(p))
    /\ \A p \in Retrying : WF_vars(Call(p))

-----------------------------------------------------------------------------
(* Correctness.                                                            *)

Inside(p) == pc[p] \in {"holder", "read", "write"}

\* The files and the local variables keep their shapes.
Locks == [holder : Procs \union {Unknown, Dead}, age : 0..Old]
TypeOK ==
    /\ config \in Configs
    /\ lock \in Locks \union {NoDir}
    /\ steal \in 0..Old \union {NoDir}
    /\ call \in [Procs -> Operations]
    /\ read \in [Procs -> Configs]
    /\ wrote \in [Procs -> 0..MaxCalls] /\ ids \subseteq Procs
    /\ calls \in 0..MaxCalls /\ crashes \in 0..MaxCrashes

\* Two processes are never both between taking the lock and writing the file.
Exclusive == \A p, q \in Procs : Inside(p) /\ Inside(q) => p = q

\* The lock excludes as long as not both a holder and a stealer were killed.
OneInside == crashes <= 1 => Exclusive

\* With at most one kill, a value that set() has written stays in the file and a
\* key that delete() has removed stays away, whatever other keys were changed
\* meanwhile by other processes; and everybody who asked getProjectId for the id,
\* with the lock or without, got the one that is in the file.
NoLostUpdate ==
    crashes <= 1 =>
        /\ \A p \in Procs : config.count[p] = wrote[p]
        /\ \A i \in ids : i = config.id

\* A process that asks again and again comes to hold the lock, although
\* holders and stealers were killed.
RetryGetsIn == \A p \in Retrying : []<>Inside(p)
=============================================================================
