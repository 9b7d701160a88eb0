-------------------------- MODULE ConfigStoreProofs --------------------------
(***************************************************************************)
(* What config.lock promises while at most one process is killed, for any  *)
(* number of processes, any periods and any number of calls: it excludes,  *)
(* no update and no deletion is lost, and everybody gets the same id.      *)
(***************************************************************************)
EXTENDS ConfigStore, TLAPS

USE NameAssumption, BoundAssumption

Labels == {"idle", "cached", "mkdir", "holder", "read", "judge", "steal", "break", "verify",
           "remove", "leave", "stolen", "wait", "write", "release", "rmdir", "done"}

\* Between taking the lock and giving it back, and between taking the stealing mutex
\* and giving it back: no time passes in either.
Holding(p) == pc[p] \in {"holder", "read", "write", "release", "rmdir"}
Stealing(p) == pc[p] \in {"verify", "remove", "leave", "stolen"}

\* A counter never exceeds the calls made, and a set() under way has been counted.
Setting(p) == call[p] = "set" /\ pc[p] \notin {"idle", "release", "rmdir", "done"}
Counted == \A p \in Procs : wrote[p] <= calls /\ (Setting(p) => wrote[p] < calls)

Typed == TypeOK /\ pc \in [Procs -> Labels] /\ Counted

\* Whoever holds the lock has made it and nobody has touched it.
HoldersHold ==
    \A p \in Procs : Holding(p) =>
        /\ lock # NoDir /\ lock.age = 0
        /\ lock.holder = IF pc[p] = "holder" THEN Unknown ELSE p

OneHolds == \A p, q \in Procs : Holding(p) /\ Holding(q) => p = q

\* Only a process that was killed leaves the lock behind, so that only then anybody
\* starts to steal it, and the stealing mutex is never left behind.
KilledLeave == lock # NoDir /\ (\A p \in Procs : ~ Holding(p)) => crashes > 0
StealersFollow ==
    \A p \in Procs :
        /\ Stealing(p) \/ pc[p] = "steal" => crashes > 0
        /\ Stealing(p) => steal = 0
        /\ pc[p] # "break"
        /\ pc[p] = "remove" => lock # NoDir /\ Stealable(lock)
OneSteals ==
    /\ \A p, q \in Procs : Stealing(p) /\ Stealing(q) => p = q
    /\ steal # NoDir => \E p \in Procs : Stealing(p)

\* What is about to be written back is what is in the file.
ReadIsFresh ==
    \A p \in Procs : pc[p] = "write" =>
        read[p] = config /\ (call[p] = "id" => config.id = NoId)
NothingLost ==
    /\ \A p \in Procs : config.count[p] = wrote[p]
    /\ \A i \in ids : i = config.id

LockSafe == HoldersHold /\ OneHolds /\ KilledLeave /\ StealersFollow /\ OneSteals
Safe == LockSafe /\ ReadIsFresh /\ NothingLost
ConfigInv == Typed /\ (crashes <= 1 => Safe)

-----------------------------------------------------------------------------
(* Typing and counting.                                                    *)

USE DEF Goto, stores, results, bounds, local

LEMMA EmptyTyped == Empty \in Configs
BY DEF Empty, Configs

LEMMA TypedInit == Init => Typed
BY EmptyTyped DEF Init, Typed, TypeOK, Operations, Labels, Counted, Setting

LEMMA CallTyped ==
  ASSUME Typed, NEW p \in Procs, Call(p)
  PROVE  Typed'
<1>1. calls \in 0..MaxCalls /\ calls' \in 0..MaxCalls /\ calls' >= calls
  BY DEF Typed, TypeOK, Call
<1>2. call' \in [Procs -> Operations] /\ pc' \in [Procs -> Labels]
  BY DEF Typed, TypeOK, Call, Operations, Labels
<1>3. call'[p] = "set" => calls' > calls
  BY DEF Typed, TypeOK, Call
<1>4. \A q \in Procs \ {p} : call'[q] = call[q] /\ pc'[q] = pc[q]
  BY DEF Typed, TypeOK, Call
<1>5. \A q \in Procs : wrote'[q] = wrote[q] /\ wrote[q] \in Nat /\ wrote[q] <= calls
  BY DEF Typed, TypeOK, Call, Counted
<1>6. Counted'
  BY <1>1, <1>3, <1>4, <1>5 DEF Typed, Counted, Setting
<1>7. TypeOK'
  BY <1>1, <1>2 DEF Typed, TypeOK, Call
<1> QED
  BY <1>2, <1>6, <1>7 DEF Typed

\* Steps of a call under way that leave its counter alone.
LEMMA CountedStays ==
  ASSUME Typed, NEW p \in Procs, pc[p] # "idle", UNCHANGED <<call, wrote, calls>>,
         pc[p] \in {"release", "rmdir", "done"} =>
             pc'[p] \in {"release", "rmdir", "done", "idle"},
         \A q \in Procs \ {p} : pc'[q] = pc[q]
  PROVE  Counted'
BY DEF Typed, Counted, Setting

LEMMA LockStepTyped ==
  ASSUME Typed, NEW p \in Procs,
         \/ GetCached(p) \/ Mkdir(p) \/ WriteHolder(p) \/ Judge(p) \/ MkdirSteal(p)
         \/ BreakSteal(p) \/ Verify(p) \/ RemoveLock(p) \/ LeaveSteal(p) \/ Wait(p)
         \/ Release(p) \/ RemoveOwnLock(p)
  PROVE  Typed'
<1>1. pc' \in [Procs -> Labels] /\ \A q \in Procs \ {p} : pc'[q] = pc[q]
  BY DEF Typed, TypeOK, GetCached, Mkdir, WriteHolder, Judge, MkdirSteal, BreakSteal,
     Verify, RemoveLock, LeaveSteal, Wait, Release, RemoveOwnLock, Labels
<1>2. /\ pc[p] # "idle" /\ UNCHANGED <<call, wrote, calls>>
      /\ pc[p] \in {"release", "rmdir", "done"} =>
             pc'[p] \in {"release", "rmdir", "done", "idle"}
  BY DEF Typed, TypeOK, GetCached, Mkdir, WriteHolder, Judge, MkdirSteal, BreakSteal,
     Verify, RemoveLock, LeaveSteal, Wait, Release, RemoveOwnLock
<1>3. Counted'
  BY <1>1, <1>2, CountedStays
<1>4. lock' \in Locks \union {NoDir} /\ steal' \in 0..Old \union {NoDir}
  BY DEF Typed, TypeOK, GetCached, Mkdir, WriteHolder, Judge, MkdirSteal, BreakSteal,
     Verify, RemoveLock, LeaveSteal, Wait, Release, RemoveOwnLock, Locks, Old
<1>5. ids' \subseteq Procs
  BY DEF Typed, TypeOK, GetCached, Mkdir, WriteHolder, Judge, MkdirSteal, BreakSteal,
     Verify, RemoveLock, LeaveSteal, Wait, Release, RemoveOwnLock, Configs
<1>6. UNCHANGED <<config, call, read, wrote, calls, crashes>>
  BY DEF GetCached, Mkdir, WriteHolder, Judge, MkdirSteal, BreakSteal,
     Verify, RemoveLock, LeaveSteal, Wait, Release, RemoveOwnLock
<1> QED
  BY <1>1, <1>3, <1>4, <1>5, <1>6 DEF Typed, TypeOK

LEMMA ReadAllTyped ==
  ASSUME Typed, NEW p \in Procs, ReadAll(p)
  PROVE  Typed'
<1>1. pc' \in [Procs -> Labels] /\ \A q \in Procs \ {p} : pc'[q] = pc[q]
  BY DEF Typed, ReadAll, Labels
<1>2. Counted'
  BY <1>1, CountedStays DEF ReadAll
<1>3. ids' \subseteq Procs
  BY DEF Typed, TypeOK, ReadAll, IdMissing, Configs
<1> QED
  BY <1>1, <1>2, <1>3 DEF Typed, TypeOK, ReadAll

LEMMA WriteAllTyped ==
  ASSUME Typed, NEW p \in Procs, WriteAll(p)
  PROVE  Typed'
<1>1. pc' \in [Procs -> Labels] /\ pc'[p] = "release" /\ \A q \in Procs \ {p} : pc'[q] = pc[q]
  BY DEF Typed, WriteAll, Labels
<1>2. wrote[p] + 1 \in 0..MaxCalls \/ call[p] # "set"
  BY DEF Typed, TypeOK, WriteAll, Counted, Setting
<1>3. /\ wrote' \in [Procs -> 0..MaxCalls] /\ wrote'[p] <= calls
      /\ \A q \in Procs \ {p} : wrote'[q] = wrote[q]
  BY <1>2 DEF Typed, TypeOK, WriteAll, Counted, Setting
<1>4. Counted'
  BY <1>1, <1>3 DEF Typed, WriteAll, Counted, Setting
<1>5. config' \in Configs
  <2>1. read[p] \in Configs /\ wrote'[p] \in 0..MaxCalls
    BY <1>3 DEF Typed, TypeOK
  <2>2. CASE call[p] = "id"
    BY <2>1, <2>2 DEF WriteAll, Configs
  <2>3. CASE call[p] # "id"
    <3> DEFINE count == [read[p].count EXCEPT ![p] = wrote'[p]]
    <3>1. count \in [Procs -> 0..MaxCalls]
      BY <2>1 DEF Configs
    <3>2. config' = [read[p] EXCEPT !.count = count]
      BY <2>3 DEF WriteAll
    <3> HIDE DEF count
    <3> QED
      BY <2>1, <3>1, <3>2 DEF Configs
  <2> QED
    BY <2>2, <2>3
<1>6. ids' \subseteq Procs
  BY DEF Typed, TypeOK, WriteAll
<1> QED
  BY <1>1, <1>3, <1>4, <1>5, <1>6 DEF Typed, TypeOK, WriteAll

LEMMA LeaveTyped ==
  ASSUME Typed, NEW p \in Procs, Return(p) \/ Crash(p)
  PROVE  Typed'
<1>1. pc' \in [Procs -> Labels] /\ pc'[p] = "idle" /\ \A q \in Procs \ {p} : pc'[q] = pc[q]
  BY DEF Typed, Return, Crash, Labels
<1>2. Counted'
  BY <1>1 DEF Typed, Return, Crash, Counted, Setting
<1>3. lock' \in Locks \union {NoDir} /\ crashes' \in 0..MaxCrashes
  BY DEF Typed, TypeOK, Return, Crash, Locks
<1> QED
  BY <1>1, <1>2, <1>3, EmptyTyped DEF Typed, TypeOK, Return, Crash

LEMMA TickTyped == Typed /\ Tick => Typed'
<1> SUFFICES ASSUME Typed, Tick PROVE Typed'
  OBVIOUS
<1>1. lock' \in Locks \union {NoDir} /\ steal' \in 0..Old \union {NoDir}
  BY DEF Typed, TypeOK, Tick, Locks, Old
<1> QED
  BY <1>1 DEF Typed, TypeOK, Tick, Counted, Setting
-----------------------------------------------------------------------------
(* Steps outside the two locks.                                            *)

LEMMA OutsideKeeps ==
  ASSUME Typed, Safe, NEW p \in Procs, ~ Holding(p), ~ Stealing(p),
         pc'[p] \in {"idle", "cached", "mkdir", "judge", "wait", "done"}
             \/ (pc'[p] = "steal" /\ crashes > 0),
         \A q \in Procs \ {p} : pc'[q] = pc[q] /\ call'[q] = call[q] /\ read'[q] = read[q],
         UNCHANGED <<config, lock, steal, wrote, crashes>>,
         ids' = ids \/ ids' = ids \union {config.id}
  PROVE  Safe'
<1>1. \A q \in Procs : (Holding(q)' <=> Holding(q)) /\ (Stealing(q)' <=> Stealing(q))
  BY DEF Holding, Stealing
<1>2. HoldersHold' /\ OneHolds' /\ KilledLeave'
  BY <1>1 DEF Safe, LockSafe, HoldersHold, OneHolds, KilledLeave, Holding
<1>3. StealersFollow' /\ OneSteals'
  BY <1>1 DEF Safe, LockSafe, StealersFollow, OneSteals, Stealing
<1>4. ReadIsFresh' /\ NothingLost'
  BY DEF Safe, ReadIsFresh, NothingLost
<1> QED
  BY <1>2, <1>3, <1>4 DEF Safe, LockSafe

\* Only what a killed process has left is ever taken for stale.
LEMMA StaleIsLeft ==
  ASSUME Typed, Safe, lock # NoDir, Stealable(lock)
  PROVE  crashes > 0 /\ \A p \in Procs : ~ Holding(p)
<1>1. \A p \in Procs : ~ Holding(p)
  BY DEF Safe, LockSafe, HoldersHold, Stealable
<1> QED
  BY <1>1 DEF Safe, LockSafe, KilledLeave

LEMMA OutsideStepKeeps ==
  ASSUME Typed, Safe, NEW p \in Procs,
         Call(p) \/ GetCached(p) \/ Judge(p) \/ Wait(p) \/ Return(p)
  PROVE  Safe'
<1>1. ~ Holding(p) /\ ~ Stealing(p)
  BY DEF Call, GetCached, Judge, Wait, Return, Holding, Stealing
<1>2. \A q \in Procs \ {p} : pc'[q] = pc[q] /\ call'[q] = call[q] /\ read'[q] = read[q]
  BY DEF Call, GetCached, Judge, Wait, Return, Typed, TypeOK
<1>3. /\ UNCHANGED <<config, lock, steal, wrote, crashes>>
      /\ ids' = ids \/ ids' = ids \union {config.id}
  BY DEF Call, GetCached, Judge, Wait, Return
<1>4. pc'[p] \in {"idle", "cached", "mkdir", "judge", "wait", "done"}
          \/ (pc'[p] = "steal" /\ crashes > 0)
  BY StaleIsLeft DEF Call, GetCached, Judge, Wait, Return, Typed, TypeOK
<1> QED
  BY <1>1, <1>2, <1>3, <1>4, OutsideKeeps

-----------------------------------------------------------------------------
(* Taking the lock, writing the file and giving the lock back.             *)

LEMMA MkdirKeeps ==
  ASSUME Typed, Safe, NEW p \in Procs, Mkdir(p)
  PROVE  Safe'
<1>0. /\ pc[p] = "mkdir" /\ ~ Holding(p) /\ ~ Stealing(p)
      /\ \A q \in Procs \ {p} : pc'[q] = pc[q]
      /\ UNCHANGED <<config, steal, call, read, wrote, ids, crashes>>
  BY DEF Mkdir, Holding, Stealing, Typed
<1>1. CASE lock # NoDir
  <2>1. pc'[p] = "judge" /\ lock' = lock
    BY <1>1 DEF Mkdir, Typed
  <2> QED
    BY <1>0, <2>1, OutsideKeeps
<1>2. CASE lock = NoDir
  <2>1. /\ pc'[p] = "holder" /\ lock' = [holder |-> Unknown, age |-> 0] /\ lock' # NoDir
        /\ lock'.holder = Unknown /\ lock'.age = 0
    BY <1>2 DEF Mkdir, Typed
  <2>2. \A q \in Procs : ~ Holding(q)
    BY <1>2 DEF Safe, LockSafe, HoldersHold
  <2>3. \A q \in Procs : (Holding(q)' <=> q = p) /\ (Stealing(q)' <=> Stealing(q))
    BY <1>0, <2>1, <2>2 DEF Holding, Stealing
  <2>4. HoldersHold' /\ OneHolds' /\ KilledLeave'
    BY <2>1, <2>3 DEF HoldersHold, OneHolds, KilledLeave
  <2>5. StealersFollow' /\ OneSteals'
    BY <1>0, <1>2, <2>1, <2>3 DEF Safe, LockSafe, StealersFollow, OneSteals
  <2>6. ReadIsFresh' /\ NothingLost'
    BY <1>0, <2>1 DEF Safe, ReadIsFresh, NothingLost
  <2> QED
    BY <2>4, <2>5, <2>6 DEF Safe, LockSafe
<1> QED
  BY <1>1, <1>2

\* A holder goes on and nothing happens to the lock directory but its holder.json.
LEMMA HolderKeeps ==
  ASSUME Typed, Safe, NEW p \in Procs, Holding(p),
         pc'[p] \in {"read", "write", "release", "rmdir"},
         \A q \in Procs \ {p} : pc'[q] = pc[q] /\ call'[q] = call[q] /\ read'[q] = read[q],
         lock' # NoDir, lock'.age = 0, lock'.holder = p,
         UNCHANGED <<steal, crashes>>,
         pc'[p] = "write" => /\ read'[p] = config /\ config' = config
                             /\ call'[p] = "id" => config.id = NoId,
         NothingLost'
  PROVE  Safe'
<1>1. \A q \in Procs : (Holding(q)' <=> q = p) /\ (Stealing(q)' <=> Stealing(q))
  BY DEF Safe, LockSafe, OneHolds, Holding, Stealing
<1>2. HoldersHold' /\ OneHolds' /\ KilledLeave'
  BY <1>1 DEF HoldersHold, OneHolds, KilledLeave
<1>3. \A q \in Procs : pc'[q] \notin {"remove", "break"}
  <2>1. lock # NoDir /\ ~ Stealable(lock)
    BY DEF Safe, LockSafe, HoldersHold, Stealable
  <2> QED
    BY <2>1 DEF Safe, LockSafe, StealersFollow
<1>4. StealersFollow' /\ OneSteals'
  BY <1>1, <1>3 DEF Safe, LockSafe, StealersFollow, OneSteals, Stealing
<1>5. ReadIsFresh'
  BY <1>1 DEF ReadIsFresh, Holding
<1> QED
  BY <1>2, <1>4, <1>5 DEF Safe, LockSafe

LEMMA HolderStepKeeps ==
  ASSUME Typed, Safe, NEW p \in Procs,
         WriteHolder(p) \/ ReadAll(p) \/ Release(p)
  PROVE  Safe'
<1>1. /\ Holding(p) /\ lock # NoDir /\ lock.age = 0
      /\ lock.holder = IF pc[p] = "holder" THEN Unknown ELSE p
      /\ lock \in Locks
  BY DEF WriteHolder, ReadAll, Release, Holding, Safe, LockSafe, HoldersHold, Typed, TypeOK
<1>2. lock' # NoDir /\ lock' \in Locks /\ lock'.age = 0 /\ lock'.holder = p
  <2>1. CASE WriteHolder(p)
    <3>1. lock' = [lock EXCEPT !.holder = p]
      BY <1>1, <2>1 DEF WriteHolder
    <3>2. lock' \in Locks /\ lock'.age = 0 /\ lock'.holder = p
      BY <1>1, <3>1 DEF Locks
    <3> QED
      BY <3>2 DEF Locks, Old
  <2>2. CASE ReadAll(p) \/ Release(p)
    BY <1>1, <2>2 DEF ReadAll, Release
  <2> QED
    BY <2>1, <2>2
<1>3. /\ pc'[p] \in {"read", "write", "release", "rmdir"}
      /\ \A q \in Procs \ {p} : pc'[q] = pc[q] /\ call'[q] = call[q] /\ read'[q] = read[q]
      /\ UNCHANGED <<config, call, wrote, steal, crashes>>
  BY <1>1 DEF WriteHolder, ReadAll, Release, Typed, TypeOK
<1>4. pc'[p] = "write" => read'[p] = config /\ (call'[p] = "id" => config.id = NoId)
  BY DEF WriteHolder, ReadAll, Release, IdMissing, Typed, TypeOK
<1>5. NothingLost'
  BY DEF WriteHolder, ReadAll, Release, Safe, NothingLost
<1> QED
  BY <1>1, <1>2, <1>3, <1>4, <1>5, HolderKeeps

LEMMA WriteAllKeeps ==
  ASSUME Typed, Safe, NEW p \in Procs, WriteAll(p)
  PROVE  Safe'
<1>1. /\ Holding(p) /\ lock # NoDir /\ lock.age = 0 /\ lock.holder = p
      /\ read[p] = config /\ config \in Configs
      /\ call[p] = "id" => ids = {}
  BY DEF WriteAll, Holding, Safe, LockSafe, HoldersHold, ReadIsFresh, NothingLost, Typed, TypeOK
<1>2. /\ pc'[p] = "release" /\ UNCHANGED <<lock, steal, call, read, crashes>>
      /\ \A q \in Procs \ {p} : pc'[q] = pc[q]
  BY DEF WriteAll, Typed
<1>3. NothingLost'
  <2>1. CASE call[p] = "id"
    <3>1. config' = [config EXCEPT !.id = p] /\ ids' = {p} /\ wrote' = wrote
      BY <1>1, <2>1 DEF WriteAll
    <3>2. config'.id = p /\ config'.count = config.count
      BY <1>1, <3>1 DEF Configs
    <3> QED
      BY <3>1, <3>2 DEF Safe, NothingLost
  <2>2. CASE call[p] # "id"
    <3> DEFINE n == wrote'[p]
               count == [config.count EXCEPT ![p] = n]
    <3>1. config' = [config EXCEPT !.count = count] /\ ids' = ids
      BY <1>1, <2>2 DEF WriteAll
    <3>2. \A q \in Procs : count[q] = IF q = p THEN n ELSE config.count[q]
      BY <1>1 DEF Configs
    <3>3. \A q \in Procs \ {p} : wrote'[q] = wrote[q]
      BY <2>2 DEF WriteAll, Typed, TypeOK
    <3> HIDE DEF count
    <3>4. config'.count = count /\ config'.id = config.id
      BY <1>1, <3>1 DEF Configs
    <3> QED
      BY <3>1, <3>2, <3>3, <3>4 DEF Safe, NothingLost
  <2> QED
    BY <2>1, <2>2
<1> QED
  BY <1>1, <1>2, <1>3, HolderKeeps

LEMMA RemoveOwnLockKeeps ==
  ASSUME Typed, Safe, NEW p \in Procs, RemoveOwnLock(p)
  PROVE  Safe'
<1>1. /\ pc[p] = "rmdir" /\ pc'[p] = "done" /\ \A q \in Procs \ {p} : pc'[q] = pc[q]
      /\ lock' = NoDir /\ UNCHANGED <<config, steal, call, read, wrote, ids, crashes>>
  BY DEF RemoveOwnLock, Typed
<1>2. \A q \in Procs : ~ Holding(q)' /\ (Stealing(q)' <=> Stealing(q))
  BY <1>1 DEF Safe, LockSafe, OneHolds, Holding, Stealing
<1>3. \A q \in Procs : pc'[q] # "remove"
  <2>1. lock # NoDir /\ ~ Stealable(lock)
    BY <1>1 DEF Safe, LockSafe, HoldersHold, Holding, Stealable
  <2> QED
    BY <1>1, <2>1 DEF Safe, LockSafe, StealersFollow
<1>4. HoldersHold' /\ OneHolds' /\ KilledLeave'
  BY <1>1, <1>2 DEF HoldersHold, OneHolds, KilledLeave
<1>5. StealersFollow' /\ OneSteals'
  BY <1>1, <1>2, <1>3 DEF Safe, LockSafe, StealersFollow, OneSteals
<1>6. ReadIsFresh' /\ NothingLost'
  BY <1>1 DEF Safe, ReadIsFresh, NothingLost
<1> QED
  BY <1>4, <1>5, <1>6 DEF Safe, LockSafe

-----------------------------------------------------------------------------
(* Stealing the lock of a process that was killed.                         *)

LEMMA MkdirStealKeeps ==
  ASSUME Typed, Safe, NEW p \in Procs, MkdirSteal(p)
  PROVE  Safe'
<1>0. /\ pc[p] = "steal" /\ ~ Holding(p) /\ ~ Stealing(p) /\ crashes > 0
      /\ \A q \in Procs \ {p} : pc'[q] = pc[q]
      /\ UNCHANGED <<config, lock, call, read, wrote, ids, crashes>>
  BY DEF MkdirSteal, Holding, Stealing, Typed, Safe, LockSafe, StealersFollow
<1>1. CASE steal # NoDir
  <2>1. steal = 0
    BY <1>1 DEF Safe, LockSafe, StealersFollow, OneSteals
  <2>2. pc'[p] = "wait" /\ steal' = steal
    BY <1>1, <2>1 DEF MkdirSteal, Typed
  <2> QED
    BY <1>0, <2>2, OutsideKeeps
<1>2. CASE steal = NoDir
  <2>1. pc'[p] = "verify" /\ steal' = 0
    BY <1>2 DEF MkdirSteal, Typed
  <2>2. \A q \in Procs : ~ Stealing(q)
    BY <1>2 DEF Safe, LockSafe, StealersFollow
  <2>3. \A q \in Procs : (Stealing(q)' <=> q = p) /\ (Holding(q)' <=> Holding(q))
    BY <1>0, <2>1, <2>2 DEF Holding, Stealing
  <2>4. HoldersHold' /\ OneHolds' /\ KilledLeave'
    BY <1>0, <2>1, <2>3 DEF Safe, LockSafe, HoldersHold, OneHolds, KilledLeave
  <2>5. StealersFollow' /\ OneSteals'
    BY <1>0, <2>1, <2>3 DEF Safe, LockSafe, StealersFollow, OneSteals
  <2>6. ReadIsFresh' /\ NothingLost'
    BY <1>0, <2>1 DEF Safe, ReadIsFresh, NothingLost
  <2> QED
    BY <2>4, <2>5, <2>6 DEF Safe, LockSafe
<1> QED
  BY <1>1, <1>2

LEMMA StealerStepKeeps ==
  ASSUME Typed, Safe, NEW p \in Procs,
         Verify(p) \/ RemoveLock(p) \/ LeaveSteal(p)
  PROVE  Safe'
<1>0. /\ Stealing(p) /\ ~ Holding(p) /\ crashes > 0 /\ steal = 0
      /\ \A q \in Procs \ {p} : pc'[q] = pc[q] /\ ~ Stealing(q)
      /\ UNCHANGED <<config, call, read, wrote, ids, crashes>>
  BY DEF Verify, RemoveLock, LeaveSteal, Holding, Stealing, Typed,
     Safe, LockSafe, StealersFollow, OneSteals
<1>1. CASE Verify(p)
  <2>1. /\ pc'[p] \in {"remove", "leave"} /\ UNCHANGED <<lock, steal>>
        /\ pc'[p] = "remove" => lock # NoDir /\ Stealable(lock)
    BY <1>1 DEF Verify, Verified, Typed
  <2>2. \A q \in Procs : (Stealing(q)' <=> q = p) /\ (Holding(q)' <=> Holding(q))
    BY <1>0, <2>1 DEF Holding, Stealing
  <2>3. HoldersHold' /\ OneHolds' /\ KilledLeave'
    BY <1>0, <2>1, <2>2 DEF Safe, LockSafe, HoldersHold, OneHolds, KilledLeave
  <2>4. StealersFollow' /\ OneSteals'
    BY <1>0, <2>1, <2>2 DEF Safe, LockSafe, StealersFollow, OneSteals
  <2> QED
    BY <1>0, <2>1, <2>3, <2>4 DEF Safe, LockSafe, ReadIsFresh, NothingLost
<1>2. CASE RemoveLock(p)
  <2>1. pc'[p] = "stolen" /\ lock' = NoDir /\ steal' = steal
    BY <1>2 DEF RemoveLock, Typed
  <2>2. \A q \in Procs : ~ Holding(q)
    BY <1>2, StaleIsLeft DEF RemoveLock, Safe, LockSafe, StealersFollow
  <2>3. \A q \in Procs : (Stealing(q)' <=> q = p) /\ ~ Holding(q)'
    BY <1>0, <2>1, <2>2 DEF Holding, Stealing
  <2>4. \A q \in Procs : pc'[q] # "remove"
    BY <2>1, <2>3 DEF Stealing
  <2>5. HoldersHold' /\ OneHolds' /\ KilledLeave'
    BY <2>1, <2>3 DEF HoldersHold, OneHolds, KilledLeave
  <2>6. StealersFollow' /\ OneSteals'
    BY <1>0, <2>1, <2>3, <2>4 DEF Safe, LockSafe, StealersFollow, OneSteals
  <2> QED
    BY <1>0, <2>1, <2>5, <2>6 DEF Safe, LockSafe, ReadIsFresh, NothingLost
<1>3. CASE LeaveSteal(p)
  <2>1. pc'[p] \in {"mkdir", "wait"} /\ lock' = lock /\ steal' = NoDir
    BY <1>3 DEF LeaveSteal, Typed
  <2>2. \A q \in Procs : ~ Stealing(q)' /\ (Holding(q)' <=> Holding(q))
    BY <1>0, <2>1 DEF Holding, Stealing
  <2>3. HoldersHold' /\ OneHolds' /\ KilledLeave'
    BY <1>0, <2>1, <2>2 DEF Safe, LockSafe, HoldersHold, OneHolds, KilledLeave
  <2>4. StealersFollow' /\ OneSteals'
    BY <1>0, <2>1, <2>2 DEF Safe, LockSafe, StealersFollow, OneSteals, Stealing
  <2> QED
    BY <1>0, <2>1, <2>3, <2>4 DEF Safe, LockSafe, ReadIsFresh, NothingLost
<1> QED
  BY <1>1, <1>2, <1>3

-----------------------------------------------------------------------------
(* Kills and time.                                                         *)

\* The first kill: until then nobody stole and the stealing mutex was free.
LEMMA CrashKeeps ==
  ASSUME Typed, Safe, NEW p \in Procs, Crash(p), crashes' <= 1
  PROVE  Safe'
<1>0. /\ crashes = 0 /\ crashes' = 1 /\ pc'[p] = "idle"
      /\ \A q \in Procs \ {p} : pc'[q] = pc[q] /\ read'[q] = read[q]
      /\ UNCHANGED <<config, steal, call, wrote, ids>>
  BY DEF Crash, Typed, TypeOK
<1>1. \A q \in Procs : pc[q] \notin {"steal", "break", "remove"} /\ ~ Stealing(q)
  BY <1>0 DEF Safe, LockSafe, StealersFollow, Stealing
<1>2. \A q \in Procs : ~ Stealing(q)' /\ (Holding(q)' => Holding(q) /\ q # p)
  BY <1>0, <1>1 DEF Holding, Stealing
<1>3. HoldersHold'
  <2> SUFFICES ASSUME NEW q \in Procs, Holding(q)'
               PROVE  /\ lock' # NoDir /\ lock'.age = 0
                      /\ lock'.holder = IF pc'[q] = "holder" THEN Unknown ELSE q
    BY DEF HoldersHold
  <2>1. /\ q # p /\ pc'[q] = pc[q] /\ lock # NoDir /\ lock.age = 0
        /\ lock.holder = IF pc[q] = "holder" THEN Unknown ELSE q
    BY <1>0, <1>2 DEF Safe, LockSafe, HoldersHold
  <2> QED
    BY <2>1 DEF Crash
<1>4. OneHolds' /\ KilledLeave'
  BY <1>0, <1>2 DEF Safe, LockSafe, OneHolds, KilledLeave
<1>5. StealersFollow' /\ OneSteals'
  BY <1>0, <1>1, <1>2 DEF Safe, LockSafe, StealersFollow, OneSteals
<1>6. ReadIsFresh' /\ NothingLost'
  BY <1>0 DEF Safe, ReadIsFresh, NothingLost
<1> QED
  BY <1>3, <1>4, <1>5, <1>6 DEF Safe, LockSafe

\* Time passes while nobody is in a section that takes milliseconds.
LEMMA TickKeeps ==
  ASSUME ~ Stalls, Typed, Safe, Tick
  PROVE  Safe'
<1>1. /\ \A p \in Procs : ~ Holding(p) /\ ~ Stealing(p) /\ pc[p] # "write"
      /\ UNCHANGED <<config, pc, call, read, wrote, ids, crashes>>
  BY DEF Tick, Outside, Holding, Stealing
<1>2. lock' # NoDir => lock # NoDir
  BY DEF Tick
<1>3. steal = NoDir /\ steal' = NoDir
  BY <1>1 DEF Tick, Safe, LockSafe, OneSteals
<1>4. \A p \in Procs : ~ Holding(p)' /\ ~ Stealing(p)'
  BY <1>1 DEF Holding, Stealing
<1>5. HoldersHold' /\ OneHolds' /\ KilledLeave'
  BY <1>1, <1>2, <1>4 DEF Safe, LockSafe, HoldersHold, OneHolds, KilledLeave
<1>6. StealersFollow' /\ OneSteals'
  BY <1>1, <1>3, <1>4 DEF Safe, LockSafe, StealersFollow, OneSteals, Stealing
<1> QED
  BY <1>1, <1>5, <1>6 DEF Safe, LockSafe, ReadIsFresh, NothingLost

-----------------------------------------------------------------------------
(* The theorems                                                            *)

LEMMA ConfigInit == Init => ConfigInv
<1> SUFFICES ASSUME Init PROVE ConfigInv
  OBVIOUS
<1>1. \A p \in Procs : pc[p] = "idle" /\ config.count[p] = wrote[p]
  BY DEF Init, Empty
<1>2. lock = NoDir /\ steal = NoDir /\ ids = {}
  BY DEF Init
<1>3. Safe
  BY <1>1, <1>2 DEF Safe, LockSafe, HoldersHold, OneHolds, KilledLeave, StealersFollow,
     OneSteals, ReadIsFresh, NothingLost, Holding, Stealing
<1> QED
  BY <1>3, TypedInit DEF ConfigInv

LEMMA ConfigStep ==
  ASSUME ~ Stalls, ConfigInv, [Next]_vars
  PROVE  ConfigInv'
<1>1. CASE UNCHANGED vars
  BY <1>1 DEF vars, ConfigInv, Typed, TypeOK, Counted, Setting, Safe, LockSafe, HoldersHold,
     OneHolds, KilledLeave, StealersFollow, OneSteals, ReadIsFresh, NothingLost, Holding,
     Stealing, Stealable
<1>2. CASE Tick
  <2>1. crashes' = crashes
    BY <1>2 DEF Tick
  <2> QED
    BY <1>2, <2>1, TickTyped, TickKeeps DEF ConfigInv
<1>3. ASSUME NEW p \in Procs, Call(p) \/ Step(p) \/ Crash(p)
      PROVE  ConfigInv'
  <2>1. Typed'
    BY <1>3, CallTyped, LockStepTyped, ReadAllTyped, WriteAllTyped, LeaveTyped
       DEF ConfigInv, Step
  <2>2. crashes' <= 1 => crashes <= 1
    <3>1. crashes \in Nat /\ (crashes' = crashes \/ crashes' = crashes + 1)
      BY <1>3 DEF ConfigInv, Typed, TypeOK, Call, Step, Crash, GetCached, Mkdir, WriteHolder,
         Judge, MkdirSteal, BreakSteal, Verify, RemoveLock, LeaveSteal, Wait, ReadAll,
         WriteAll, Release, RemoveOwnLock, Return
    <3> QED
      BY <3>1
  <2>3. ASSUME crashes' <= 1
        PROVE  Safe'
    <3>1. Typed /\ Safe /\ ~ BreakSteal(p)
      BY <2>2, <2>3 DEF ConfigInv, Safe, LockSafe, StealersFollow, BreakSteal
    <3> QED
      BY <1>3, <2>3, <3>1, OutsideStepKeeps, MkdirKeeps, HolderStepKeeps, WriteAllKeeps,
         RemoveOwnLockKeeps, MkdirStealKeeps, StealerStepKeeps, CrashKeeps DEF Step
  <2> QED
    BY <2>1, <2>3 DEF ConfigInv
<1> QED
  BY <1>1, <1>2, <1>3 DEF Next

\* The strengthened invariant of the store holds in every reachable state.
THEOREM ConfigInductive ==
  ASSUME ~ Stalls
  PROVE  Spec => []ConfigInv
BY ConfigInit, ConfigStep, PTL DEF Spec

\* The lock excludes while at most one process is killed and no holder is stopped for
\* longer than the periods (acquireConfigLock, tryStealStaleLock).
THEOREM LockExcludes ==
  ASSUME ~ Stalls
  PROVE  Spec => []OneInside
<1>1. ConfigInv => OneInside
  BY DEF ConfigInv, Safe, LockSafe, OneHolds, Holding, OneInside, Exclusive, Inside
<1> QED
  BY <1>1, ConfigInductive, PTL

\* No set() and no delete() is lost to another one, and one id is given out.
THEOREM UpdatesStay ==
  ASSUME ~ Stalls
  PROVE  Spec => []NoLostUpdate
<1>1. ConfigInv => NoLostUpdate
  BY DEF ConfigInv, Safe, NothingLost, NoLostUpdate
<1> QED
  BY <1>1, ConfigInductive, PTL
=============================================================================
