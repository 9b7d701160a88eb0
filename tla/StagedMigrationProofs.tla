------------------------ MODULE StagedMigrationProofs ------------------------
(***************************************************************************)
(* Migration records, for any commands, tool calls, files and contents:    *)
(* what a process that was alone has marked is on disk, what it left half  *)
(* done can be done again, and it makes no rolled-back record active.      *)
(***************************************************************************)
EXTENDS StagedMigration, TLAPS, FiniteSetTheorems

USE MigrationAssumption

Moving == {"check", "write", "undo", "status"}

\* A process that is alone is the only one at work: nothing changes but by its steps.
AloneIsAlone ==
    \A p \in Procs : Busy(p) /\ alone[p] => \A q \in Procs \ {p} : ~ Busy(q)

\* A process that activates or rolls back does so to a record that exists.
JobsFit ==
    \A p \in Procs : pc[p] \in Moving =>
        /\ job[p].kind \in {"activate", "rollback"} /\ job[p].id \in DOMAIN migs
        /\ pc[p] = "undo" => job[p].kind = "activate"

\* What a process that is alone has left the loop behind is on disk.
WrittenSoFar ==
    \A p \in Procs : alone[p] =>
        /\ pc[p] = "write" => \A f \in Files \ todo[p] : disk[f] = Target(p)[f]
        /\ pc[p] = "status" => disk = Target(p)

MigInv == TypeOK /\ AloneIsAlone /\ JobsFit /\ WrittenSoFar /\ HalfDoneIsRepeatable

-----------------------------------------------------------------------------
(* Typing, step by step.                                                   *)

LEMMA IdleTyped == Start \in Snapshots /\ Idle \in Jobs
BY DEF Start, Snapshots, Idle, Jobs, Kinds

LEMMA TypeInit == Init => TypeOK
BY IdleTyped DEF Init, TypeOK, Procs, Labels, Jobs

LEMMA BeginTyped == TypeOK /\ (\E p \in Procs : Begin(p)) => TypeOK'
<1> SUFFICES ASSUME TypeOK, NEW p \in Procs, Begin(p) PROVE TypeOK'
  OBVIOUS
<1>1. alone \in [Procs -> BOOLEAN] /\ alone' \in [Procs -> BOOLEAN]
  BY DEF TypeOK, Begin, Busy
<1>2. pc' \in [Procs -> Labels]
  BY DEF TypeOK, Begin, Goto, Labels
<1>3. lock' \in Cli \union {None} /\ jobs' \in 0..MaxJobs
  BY DEF TypeOK, Begin
<1> QED
  BY <1>1, <1>2, <1>3 DEF TypeOK, Begin

LEMMA EndTyped == TypeOK /\ (\E p \in Procs : End(p)) => TypeOK'
BY IdleTyped DEF TypeOK, End, Goto, Released, Labels, Jobs

LEMMA KillTyped == TypeOK /\ (\E p \in Procs : Kill(p)) => TypeOK'
BY IdleTyped DEF TypeOK, Kill, Released, Labels, Jobs

LEMMA NewJobTyped ==
  ASSUME TypeOK, NEW kind \in Kinds, NEW version \in Nat, NEW seen \in Snapshots
  PROVE  [Idle EXCEPT !.kind = kind, !.seen = seen, !.version = version] \in Jobs
BY IdleTyped DEF Jobs, Idle

LEMMA ReadTyped ==
  ASSUME TypeOK, NEW p \in Procs, ReadForChange(p) \/ ReadForAccept(p)
  PROVE  TypeOK'
<1> PICK j \in Jobs : job' = job \/ job' = [job EXCEPT ![p] = j]
  <2>1. /\ row.version \in Nat /\ disk \in Snapshots
        /\ "change" \in Kinds /\ "accept" \in Kinds
    BY DEF TypeOK, Kinds
  <2> QED
    BY <2>1, NewJobTyped, IdleTyped DEF ReadForChange, ReadForAccept
<1>1. job' \in [Procs -> Jobs]
  BY DEF TypeOK
<1> QED
  BY <1>1 DEF ReadForChange, ReadForAccept, TypeOK, Goto, Labels, Jobs

LEMMA CommitTyped ==
  ASSUME TypeOK, NEW p \in Procs, Commit(p)
  PROVE  TypeOK'
<1>1. row' \in [version : Nat, hash : Snapshots] /\ disk' \in Snapshots
  BY DEF Commit, TypeOK, Versioned, Jobs
<1>2. job' \in [Procs -> Jobs]
  <2>1. job[p] \in Jobs
    BY DEF TypeOK
  <2>2. \A after \in Snapshots : [job[p] EXCEPT !.made = after] \in Jobs
    BY <2>1 DEF Jobs
  <2>3. job' = job \/ \E after \in Snapshots : job' = [job EXCEPT ![p] = [job[p] EXCEPT !.made = after]]
    BY DEF Commit
  <2>4. PICK j \in Jobs : job' = job \/ job' = [job EXCEPT ![p] = j]
    BY <2>1, <2>2, <2>3
  <2> QED
    BY <2>4 DEF TypeOK
<1>3. pc' \in [Procs -> Labels]
  BY DEF Commit, TypeOK, Goto, Labels
<1> QED
  BY <1>1, <1>2, <1>3 DEF Commit, TypeOK, Jobs

LEMMA AcceptTyped ==
  ASSUME TypeOK, NEW p \in Procs, AcceptDrift(p)
  PROVE  TypeOK'
<1>1. row' \in [version : Nat, hash : Snapshots]
  BY DEF AcceptDrift, TypeOK, Versioned, Jobs
<1> QED
  BY <1>1 DEF AcceptDrift, TypeOK, Goto, Labels

LEMMA StageTyped ==
  ASSUME TypeOK, NEW p \in Procs, Stage(p)
  PROVE  /\ TypeOK' /\ Len(migs') = Len(migs) + 1
         /\ DOMAIN migs \subseteq DOMAIN migs'
         /\ \A id \in DOMAIN migs : migs'[id] = migs[id]
<1> DEFINE r == [before |-> job[p].seen, after |-> job[p].made, status |-> "staged"]
<1>1. r \in Records /\ migs \in Seq(Records) /\ migs' = Append(migs, r)
  <2>1. job[p] \in Jobs /\ migs \in Seq(Records) /\ migs' = Append(migs, r)
    BY DEF Stage, TypeOK
  <2>2. r \in Records
    BY <2>1 DEF Jobs, Records, Statuses
  <2> QED
    BY <2>1, <2>2
<1>2. /\ migs' \in Seq(Records) /\ Len(migs') = Len(migs) + 1
      /\ DOMAIN migs \subseteq DOMAIN migs'
      /\ \A id \in DOMAIN migs : migs'[id] = migs[id]
  BY <1>1
<1> QED
  BY <1>2 DEF Stage, TypeOK, Goto, Labels, Records

LEMMA AskTyped ==
  ASSUME TypeOK, NEW p \in Procs, NEW kind \in {"activate", "rollback"}, Ask(p, kind)
  PROVE  /\ TypeOK' /\ pc'[p] \in {"check", "end"}
         /\ job'[p].kind = kind /\ job'[p].id \in DOMAIN migs
         /\ \A q \in Procs \ {p} : job'[q] = job[q]
<1> PICK id \in DOMAIN migs : job' = [job EXCEPT ![p] = [Idle EXCEPT !.kind = kind, !.id = id]]
  BY DEF Ask
<1> DEFINE j == [Idle EXCEPT !.kind = kind, !.id = id]
<1>1. j \in Jobs /\ j.kind = kind /\ j.id = id
  <2>1. id \in Nat /\ kind \in Kinds
    BY DEF TypeOK, Kinds
  <2> QED
    BY <2>1, IdleTyped DEF Jobs, Idle
<1>2. job' = [job EXCEPT ![p] = j] /\ job \in [Procs -> Jobs]
  BY DEF TypeOK
<1> HIDE DEF j
<1>3. job' \in [Procs -> Jobs] /\ job'[p] = j /\ \A q \in Procs \ {p} : job'[q] = job[q]
  BY <1>1, <1>2
<1>4. pc' \in [Procs -> Labels] /\ pc'[p] \in {"check", "end"}
  BY DEF Ask, Goto, TypeOK, Labels
<1>5. TypeOK'
  BY <1>3, <1>4 DEF Ask, TypeOK, Jobs
<1> QED
  BY <1>1, <1>3, <1>4, <1>5

LEMMA CheckTyped ==
  ASSUME TypeOK, NEW p \in Procs, Check(p)
  PROVE  TypeOK'
BY DEF Check, TypeOK, Goto, Labels

LEMMA TargetTyped ==
  ASSUME TypeOK, NEW p \in Procs, job[p].id \in DOMAIN migs
  PROVE  Target(p) \in Snapshots /\ migs[job[p].id].before \in Snapshots
<1>1. migs[job[p].id] \in Records
  BY DEF TypeOK
<1> QED
  BY <1>1 DEF Target, Records

LEMMA WriteTyped ==
  ASSUME TypeOK, JobsFit, NEW p \in Procs, WriteFile(p) \/ WriteFails(p) \/ UndoWrite(p)
  PROVE  TypeOK'
<1>1. Target(p) \in Snapshots /\ migs[job[p].id].before \in Snapshots
  BY TargetTyped DEF WriteFile, WriteFails, UndoWrite, JobsFit, Moving
<1>2. disk' \in Snapshots
  BY <1>1 DEF WriteFile, WriteFails, UndoWrite, TypeOK, Snapshots
<1>3. todo' \in [Procs -> SUBSET Files]
  BY DEF WriteFile, WriteFails, UndoWrite, TypeOK
<1>4. pc' \in [Procs -> Labels]
  BY DEF WriteFile, WriteFails, UndoWrite, Goto, AfterWrite, TypeOK, Labels
<1> QED
  BY <1>2, <1>3, <1>4 DEF WriteFile, WriteFails, UndoWrite, TypeOK

LEMMA StatusTyped ==
  ASSUME TypeOK, JobsFit, NEW p \in Procs, SetMigrationStatus(p)
  PROVE  /\ TypeOK' /\ DOMAIN migs' = DOMAIN migs
         /\ \A id \in DOMAIN migs :
               /\ migs'[id].before = migs[id].before /\ migs'[id].after = migs[id].after
               /\ migs'[id].status = IF id # job[p].id THEN migs[id].status
                                     ELSE IF job[p].kind = "activate" THEN "active"
                                     ELSE "rolled_back"
<1> DEFINE id0 == job[p].id
           status == IF job[p].kind = "activate" THEN "active" ELSE "rolled_back"
           r == [migs[id0] EXCEPT !.status = status]
<1>1. id0 \in DOMAIN migs /\ migs \in Seq(Records) /\ status \in Statuses
  BY DEF SetMigrationStatus, JobsFit, Moving, TypeOK, Records, Statuses
<1>2. migs[id0] \in Records
  BY <1>1
<1>3. /\ r \in Records /\ r.before = migs[id0].before /\ r.after = migs[id0].after
      /\ r.status = status
  BY <1>1, <1>2 DEF Records
<1>4. migs' = [migs EXCEPT ![id0] = r]
  BY DEF SetMigrationStatus
<1> HIDE DEF r
<1>5. /\ migs' \in Seq(Records) /\ DOMAIN migs' = DOMAIN migs /\ migs'[id0] = r
      /\ \A id \in DOMAIN migs \ {id0} : migs'[id] = migs[id]
  BY <1>1, <1>3, <1>4
<1>6. TypeOK'
  BY <1>5 DEF SetMigrationStatus, TypeOK, Goto, Labels, Records
<1> QED
  BY <1>3, <1>5, <1>6

-----------------------------------------------------------------------------
(* The invariant, step by step.  The others of a process that is alone are *)
(* idle, so that the other parts of the invariant are about one process.   *)

\* What the parts of the invariant say of one process, but that it is alone.
Fits(p) ==
    pc[p] \in Moving =>
        /\ job[p].kind \in {"activate", "rollback"} /\ job[p].id \in DOMAIN migs
        /\ pc[p] = "undo" => job[p].kind = "activate"

Sound(p) ==
    alone[p] =>
        /\ pc[p] = "write" => \A f \in Files \ todo[p] : disk[f] = Target(p)[f]
        /\ pc[p] = "status" => disk = Target(p)
        /\ pc[p] \in {"write", "undo", "status"} =>
              IF job[p].kind = "activate" THEN Activatable(migs[job[p].id].status)
                                          ELSE Revertible(migs[job[p].id].status)

LEMMA InvParts ==
  MigInv <=> TypeOK /\ AloneIsAlone /\ \A p \in Procs : Fits(p) /\ Sound(p)
BY DEF MigInv, JobsFit, WrittenSoFar, HalfDoneIsRepeatable, Fits, Sound

\* A step of one process leaves the job of every other as it is, and what is known
\* of those that are not alone.
LEMMA OneMoves ==
  ASSUME MigInv, NEW p \in Procs, Busy(p), TypeOK',
         alone' = alone, pc'[p] # "idle", Fits(p)', Sound(p)',
         DOMAIN migs \subseteq DOMAIN migs',
         \A q \in Procs \ {p} : /\ pc'[q] = pc[q] /\ job'[q] = job[q]
  PROVE  MigInv'
<1>1. AloneIsAlone'
  BY DEF MigInv, AloneIsAlone, Busy
<1>2. ASSUME NEW q \in Procs, q # p
      PROVE  Fits(q)' /\ Sound(q)'
  <2>1. Fits(q)'
    BY <1>2, InvParts DEF Fits
  <2>2. alone[q] => pc'[q] = "idle"
    BY <1>2 DEF MigInv, AloneIsAlone, Busy
  <2> QED
    BY <2>1, <2>2 DEF Sound
<1>3. \A q \in Procs : Fits(q)' /\ Sound(q)'
  BY <1>2
<1> QED
  BY <1>1, <1>3, InvParts DEF MigInv, JobsFit, WrittenSoFar, HalfDoneIsRepeatable, Fits, Sound

LEMMA MigInit == Init => MigInv
<1> SUFFICES ASSUME Init PROVE MigInv
  OBVIOUS
<1>1. \A p \in Procs : pc[p] = "idle"
  BY DEF Init
<1> QED
  BY <1>1, TypeInit DEF MigInv, AloneIsAlone, Busy, JobsFit, Moving, WrittenSoFar,
     HalfDoneIsRepeatable

LEMMA BeginKeeps ==
  ASSUME MigInv, NEW p \in Procs, Begin(p)
  PROVE  MigInv'
<1>1. /\ \A q \in Procs \ {p} : pc'[q] = pc[q] /\ (alone'[q] <=> alone[q] /\ ~ Busy(q))
      /\ alone'[p] <=> \A q \in Procs : ~ Busy(q)
      /\ pc[p] = "idle" /\ pc'[p] = "ready"
      /\ UNCHANGED <<disk, row, migs, job, todo>>
  BY DEF Begin, Goto, Busy, MigInv, TypeOK
<1>2. AloneIsAlone'
  BY <1>1 DEF AloneIsAlone, Busy
<1>3. JobsFit'
  BY <1>1 DEF MigInv, JobsFit, Moving
<1>4. WrittenSoFar' /\ HalfDoneIsRepeatable'
  BY <1>1 DEF WrittenSoFar, HalfDoneIsRepeatable, Busy
<1> QED
  BY <1>2, <1>3, <1>4, BeginTyped DEF MigInv

\* Processes that become idle leave the others as they are.
LEMMA LeavingKeeps ==
  ASSUME MigInv, TypeOK', UNCHANGED <<disk, migs, alone>>,
         \A q \in Procs : pc'[q] = "idle" \/
             (pc'[q] = pc[q] /\ job'[q] = job[q] /\ todo'[q] = todo[q])
  PROVE  MigInv'
<1>1. AloneIsAlone'
  BY DEF MigInv, AloneIsAlone, Busy
<1>2. JobsFit'
  BY DEF MigInv, JobsFit, Moving
<1>3. WrittenSoFar' /\ HalfDoneIsRepeatable'
  BY DEF MigInv, WrittenSoFar, HalfDoneIsRepeatable, Target
<1> QED
  BY <1>1, <1>2, <1>3 DEF MigInv

LEMMA EndKeeps ==
  ASSUME MigInv, NEW p \in Procs, End(p)
  PROVE  MigInv'
BY LeavingKeeps, EndTyped DEF End, Goto, MigInv, TypeOK

LEMMA KillKeeps ==
  ASSUME MigInv, NEW p \in Procs, Kill(p)
  PROVE  MigInv'
BY LeavingKeeps, KillTyped DEF Kill, MigInv, TypeOK

\* Steps after which a process neither checks nor writes.
LEMMA ElsewhereKeeps ==
  ASSUME MigInv, NEW p \in Procs, Busy(p), TypeOK', alone' = alone,
         pc' \in [Procs -> Labels], pc'[p] \notin Moving \union {"idle"},
         \A q \in Procs \ {p} : pc'[q] = pc[q] /\ job'[q] = job[q],
         DOMAIN migs \subseteq DOMAIN migs'
  PROVE  MigInv'
BY OneMoves DEF Fits, Sound, Moving

LEMMA ChangesKeep ==
  ASSUME MigInv, NEW p \in Procs,
         \/ ReadForChange(p) \/ Commit(p) \/ Stage(p) \/ ReadForAccept(p) \/ AcceptDrift(p)
  PROVE  MigInv'
<1>1. TypeOK /\ pc \in [Procs -> Labels] /\ job \in [Procs -> Jobs]
  BY DEF MigInv, TypeOK
<1>2. TypeOK' /\ DOMAIN migs \subseteq DOMAIN migs'
  BY <1>1, ReadTyped, CommitTyped, StageTyped, AcceptTyped
     DEF ReadForChange, Commit, ReadForAccept, AcceptDrift
<1>3. /\ pc[p] \in {"ready", "gate", "stage"} /\ pc'[p] \in {"gate", "stage", "end"}
      /\ \A q \in Procs \ {p} : pc'[q] = pc[q] /\ job'[q] = job[q]
      /\ alone' = alone
  BY <1>1 DEF ReadForChange, Commit, Stage, ReadForAccept, AcceptDrift, Goto
<1> QED
  BY <1>2, <1>3, ElsewhereKeeps DEF Busy, Moving, TypeOK

LEMMA AskKeeps ==
  ASSUME MigInv, NEW p \in Procs, NEW kind \in {"activate", "rollback"}, Ask(p, kind)
  PROVE  MigInv'
<1>1. /\ TypeOK' /\ pc'[p] \in {"check", "end"}
      /\ job'[p].kind = kind /\ job'[p].id \in DOMAIN migs
      /\ \A q \in Procs \ {p} : job'[q] = job[q]
  BY AskTyped DEF MigInv
<1>2. Fits(p)' /\ Sound(p)'
  BY <1>1 DEF Fits, Sound, Ask
<1>3. /\ Busy(p) /\ alone' = alone /\ migs' = migs
      /\ \A q \in Procs \ {p} : pc'[q] = pc[q]
  BY DEF Ask, Goto, Busy, MigInv, TypeOK
<1> QED
  BY <1>1, <1>2, <1>3, OneMoves

LEMMA CheckKeeps ==
  ASSUME MigInv, NEW p \in Procs, Check(p)
  PROVE  MigInv'
<1>1. TypeOK' /\ Fits(p)
  BY CheckTyped, InvParts DEF MigInv
<1>2. /\ pc[p] = "check" /\ pc'[p] \in {"write", "end"} /\ alone' = alone
      /\ \A q \in Procs \ {p} : pc'[q] = pc[q]
      /\ UNCHANGED <<disk, migs, job>>
      /\ pc'[p] = "write" =>
            /\ todo'[p] = Files
            /\ \/ job[p].kind = "activate" /\ Activatable(migs[job[p].id].status)
               \/ job[p].kind = "rollback" /\ Revertible(migs[job[p].id].status)
  BY DEF Check, Goto, MigInv, TypeOK
<1>3. Fits(p)' /\ Sound(p)'
  BY <1>1, <1>2 DEF Fits, Sound, Moving
<1> QED
  BY <1>1, <1>2, <1>3, OneMoves DEF Busy

LEMMA WriteFileKeeps ==
  ASSUME MigInv, NEW p \in Procs, WriteFile(p)
  PROVE  MigInv'
<1>1. /\ TypeOK /\ TypeOK' /\ Fits(p) /\ Sound(p) /\ pc[p] = "write"
  BY WriteTyped, InvParts DEF MigInv, WriteFile
<1>2. Target(p) \in Snapshots
  BY <1>1, TargetTyped DEF Fits, Moving
<1> PICK f \in todo[p] : /\ disk' = [disk EXCEPT ![f] = Target(p)[f]]
                         /\ todo' = [todo EXCEPT ![p] = todo[p] \ {f}]
  BY DEF WriteFile
<1>3. /\ pc'[p] = AfterWrite(p) /\ alone' = alone /\ UNCHANGED <<migs, job>>
      /\ \A q \in Procs \ {p} : pc'[q] = pc[q]
      /\ todo'[p] = todo[p] \ {f} /\ todo[p] \subseteq Files
      /\ Target(p)' = Target(p)
  BY <1>1 DEF WriteFile, Goto, TypeOK, Target
<1>4. \A g \in Files : disk'[g] = IF g = f THEN Target(p)[g] ELSE disk[g]
  BY <1>1, <1>3 DEF TypeOK, Snapshots
<1>5. pc'[p] = "status" => todo[p] = {f}
  <2>1. IsFiniteSet(todo[p])
    BY <1>3, FS_Subset
  <2>2. Cardinality(todo[p]) = 1 => todo[p] = {f}
    BY <2>1, FS_CardinalityType, FS_Singleton
  <2> QED
    BY <1>3, <2>2 DEF AfterWrite
<1>6. alone[p] => \A g \in Files \ todo'[p] : disk'[g] = Target(p)[g]
  BY <1>1, <1>3, <1>4 DEF Sound
<1>7. alone[p] /\ pc'[p] = "status" => disk' = Target(p)
  <2>1. alone[p] /\ pc'[p] = "status" => \A g \in Files : disk'[g] = Target(p)[g]
    BY <1>3, <1>5, <1>6
  <2>2. disk' \in Snapshots
    BY <1>1 DEF TypeOK
  <2> QED
    BY <1>2, <2>1, <2>2 DEF Snapshots
<1>8. Fits(p)' /\ Sound(p)'
  BY <1>1, <1>3, <1>6, <1>7 DEF Fits, Sound, Moving, AfterWrite
<1> QED
  BY <1>1, <1>3, <1>8, OneMoves DEF Busy, AfterWrite

LEMMA FailuresKeep ==
  ASSUME MigInv, NEW p \in Procs, WriteFails(p) \/ UndoWrite(p)
  PROVE  MigInv'
<1>1. /\ TypeOK' /\ Fits(p) /\ Sound(p)
  BY WriteTyped, InvParts DEF MigInv
<1>2. /\ pc[p] \in {"write", "undo"} /\ pc'[p] \in {"undo", "end"} /\ alone' = alone
      /\ UNCHANGED <<migs, job>>
      /\ \A q \in Procs \ {p} : pc'[q] = pc[q]
      /\ pc'[p] = "undo" => pc[p] = "undo" \/ job[p].kind = "activate"
  BY DEF WriteFails, UndoWrite, Goto, MigInv, TypeOK
<1>3. Fits(p)' /\ Sound(p)'
  BY <1>1, <1>2 DEF Fits, Sound, Moving
<1> QED
  BY <1>1, <1>2, <1>3, OneMoves DEF Busy

LEMMA StatusKeeps ==
  ASSUME MigInv, NEW p \in Procs, SetMigrationStatus(p)
  PROVE  MigInv'
<1>1. TypeOK' /\ DOMAIN migs' = DOMAIN migs
  BY StatusTyped DEF MigInv
<1>2. /\ pc[p] = "status" /\ pc'[p] = "end" /\ alone' = alone
      /\ \A q \in Procs \ {p} : pc'[q] = pc[q] /\ job'[q] = job[q]
  BY DEF SetMigrationStatus, Goto, MigInv, TypeOK
<1> QED
  BY <1>1, <1>2, ElsewhereKeeps DEF Busy, Moving, TypeOK

LEMMA MigStep == MigInv /\ [Next]_vars => MigInv'
<1> SUFFICES ASSUME MigInv, [Next]_vars PROVE MigInv'
  OBVIOUS
<1>1. CASE UNCHANGED vars
  BY <1>1 DEF vars, MigInv, TypeOK, AloneIsAlone, JobsFit, WrittenSoFar,
     HalfDoneIsRepeatable, Busy, Target
<1>2. ASSUME NEW p \in Procs, Begin(p) \/ Step(p) \/ Kill(p)
      PROVE  MigInv'
  BY <1>2, BeginKeeps, KillKeeps, EndKeeps, ChangesKeep, AskKeeps, CheckKeeps,
     WriteFileKeeps, FailuresKeep, StatusKeeps DEF Step, AskActivate, AskRollback
<1> QED
  BY <1>1, <1>2 DEF Next, Over

-----------------------------------------------------------------------------
(* The theorems                                                            *)

\* The strengthened invariant of the migrations holds in every reachable state.
THEOREM MigrationsInductive == Spec => []MigInv
BY MigInit, MigStep, PTL DEF Spec

\* Wherever an activation or a roll-back stops, the same command is accepted again.
THEOREM HalvesAreRepeatable == Spec => []HalfDoneIsRepeatable
<1>1. MigInv => HalfDoneIsRepeatable
  BY DEF MigInv
<1> QED
  BY <1>1, MigrationsInductive, PTL

\* The status is set when every file of the snapshot is on disk (activateMigration,
\* rollbackMigration).
THEOREM MarkedIsWritten == Spec => FinishedMeansWritten
<1>1. MigInv => (\A p \in Procs : alone[p] /\ pc[p] = "status" /\ pc'[p] = "end"
                                     => disk = Target(p))
  BY DEF MigInv, WrittenSoFar
<1> QED
  BY <1>1, MigrationsInductive, PTL DEF Spec, FinishedMeansWritten

\* No process that was alone makes a record active that was rolled back.
THEOREM RollBacksAreFinal == Spec => RolledBackIsFinal
<1> DEFINE Final ==
        \A id \in DOMAIN migs :
            migs[id].status = "rolled_back" /\ migs'[id].status # "rolled_back" =>
                \E p \in Procs : pc[p] = "status" /\ job[p].id = id /\ ~ alone[p]
<1>1. MigInv /\ [Next]_vars => [Final]_vars
  <2> SUFFICES ASSUME MigInv, [Next]_vars,
                      NEW id \in DOMAIN migs, migs[id].status = "rolled_back",
                      migs'[id].status # "rolled_back"
               PROVE  \E p \in Procs : pc[p] = "status" /\ job[p].id = id /\ ~ alone[p]
    OBVIOUS
  <2>1. PICK p \in Procs : Stage(p) \/ SetMigrationStatus(p)
    BY DEF Next, Over, vars, Begin, Kill, Step, End, ReadForChange, Commit, ReadForAccept,
       AcceptDrift, AskActivate, AskRollback, Ask, Check, WriteFile, WriteFails, UndoWrite
  <2>2. SetMigrationStatus(p)
    BY <2>1, StageTyped DEF MigInv
  <2>3. job[p].id = id /\ job[p].kind = "activate" /\ pc[p] = "status"
    BY <2>2, StatusTyped DEF MigInv, SetMigrationStatus
  <2>4. ~ alone[p]
    BY <2>3 DEF MigInv, HalfDoneIsRepeatable, Activatable
  <2> QED
    BY <2>3, <2>4
<1> QED
  BY <1>1, MigrationsInductive, PTL DEF Spec, RolledBackIsFinal
=============================================================================
