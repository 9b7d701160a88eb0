------------------------ MODULE CommitProtocolProofs ------------------------
(***************************************************************************)
(* For any set of processes, files and contents and any bounds: the        *)
(* typing of the commit protocol, the safety of its version history, and   *)
(* that it implements VersionedHistory, all from one inductive invariant,  *)
(* IInv of CommitProtocol.  And what serial use promises of the files,     *)
(* from a second one on top of it, SerialInv.                              *)
(***************************************************************************)
EXTENDS CommitProtocol, TLAPS

(* Snapshots: finite functions from some of the files to contents.         *)

LEMMA NoFilesSnapshot == NoFiles \in Snapshots
  <1>1. NoFiles \in [{} -> Contents]  BY DEF NoFiles
  <1> QED  BY <1>1 DEF Snapshots

\* Adding a file that holds something to a snapshot gives a snapshot.
LEMMA WithSnapshot ==
  ASSUME NEW s \in Snapshots, NEW f \in Files, NEW c \in Contents
  PROVE  With(s, f, c) \in Snapshots
  <1>1. PICK S \in SUBSET Files : s \in [S -> Contents]  BY DEF Snapshots
  <1>2. With(s, f, c) \in [S \union {f} -> Contents]  BY <1>1 DEF With
  <1> QED  BY <1>1, <1>2 DEF Snapshots

\* A snapshot gives each of its files, and only files of Files, a content.
LEMMA SnapshotShape ==
  ASSUME NEW s \in Snapshots
  PROVE  /\ DOMAIN s \subseteq Files
         /\ \A f \in DOMAIN s : s[f] \in Contents
  BY DEF Snapshots

LEMMA InitialRowTyped == InitialRow \in Rows
  <1>1. [f \in Tracked |-> Base] \in Snapshots
    <2>1. [f \in Tracked |-> Base] \in [Tracked -> Contents]  BY FileAssumption
    <2> QED  BY <2>1, FileAssumption DEF Snapshots
  <1> QED  BY <1>1, FileAssumption DEF InitialRow, Rows

-----------------------------------------------------------------------------
\* The states a behaviour can start in satisfy the inductive invariant.
LEMMA InitIInv == Init => IInv
  <1> SUFFICES ASSUME Init PROVE IInv  OBVIOUS
  <1> USE DEF Init
  <1>1. TypeOK
    <2>1. disk \in [Files -> Contents \union {Missing}]  OBVIOUS
    <2>2. row \in Rows  BY InitialRowTyped
    <2>3. ops \in Seq(Operations) /\ Len(ops) = 0  OBVIOUS
    <2>4. pc \in [Procs -> Labels]  BY DEF Labels
    <2>5. entry \in [Procs -> Rows]  BY InitialRowTyped
    <2>6. copy \in [Procs -> Snapshots]  BY NoFilesSnapshot
    <2> QED  BY <2>1, <2>2, <2>3, <2>4, <2>5, <2>6, BoundAssumption DEF TypeOK
  <1>2. row.version = 1 /\ row.history = <<0>> /\ Len(row.history) = 1
    BY DEF InitialRow
  <1>3. HistoryMatchesVersions  BY <1>2 DEF HistoryMatchesVersions
  <1>4. NoLostCommit  BY DEF NoLostCommit
  <1>5. OperationsFollowRow  BY DEF OperationsFollowRow
  <1>6. EntriesAreRowOrOlder  BY <1>2 DEF EntriesAreRowOrOlder
  <1>7. LoopsStayInside /\ ReadBeforeCas  BY DEF LoopsStayInside, ReadBeforeCas, AtOperation
  <1> QED  BY <1>1, <1>2, <1>3, <1>4, <1>5, <1>6, <1>7 DEF IInv, Init

-----------------------------------------------------------------------------
\* Processes that lose their memory keep the types of the local variables.
LEMMA ForgetTypeOK ==
  ASSUME TypeOK, NEW S, Forget(S)
  PROVE  /\ pc' \in [Procs -> Labels] /\ entry' \in [Procs -> Rows]
         /\ copy' \in [Procs -> Snapshots] /\ todo' \in [Procs -> SUBSET Files]
         /\ cur' \in [Procs -> 0..Len(ops)]
         /\ queue' \in [Procs -> SUBSET (1..Len(ops))]
         /\ lock' \in Procs \union {None}
  <1>1. pc' \in [Procs -> Labels]  BY DEF Forget, TypeOK, Labels
  <1>2. entry' \in [Procs -> Rows]  BY InitialRowTyped DEF Forget, TypeOK
  <1>3. copy' \in [Procs -> Snapshots]  BY NoFilesSnapshot DEF Forget, TypeOK
  <1>4. todo' \in [Procs -> SUBSET Files]  BY DEF Forget, TypeOK
  <1>5. cur' \in [Procs -> 0..Len(ops)]  BY DEF Forget, TypeOK
  <1>6. queue' \in [Procs -> SUBSET (1..Len(ops))]  BY DEF Forget, TypeOK
  <1>7. lock' \in Procs \union {None}  BY DEF Forget, TypeOK
  <1> QED  BY <1>1, <1>2, <1>3, <1>4, <1>5, <1>6, <1>7

\* A journaled operation keeps its two snapshots and its version.
LEMMA OperationShape ==
  ASSUME TypeOK, NEW id \in 1..Len(ops)
  PROVE  /\ ops[id] \in Operations
         /\ ops[id].before \in Snapshots /\ ops[id].after \in Snapshots
         /\ ops[id].version \in Nat
         /\ DOMAIN ops[id].before \subseteq Files /\ DOMAIN ops[id].after \subseteq Files
         /\ \A f \in DOMAIN ops[id].before : ops[id].before[f] \in Contents
         /\ \A f \in DOMAIN ops[id].after : ops[id].after[f] \in Contents
  <1>1. ops[id] \in Operations  BY DEF TypeOK
  <1>2. ops[id].before \in Snapshots /\ ops[id].after \in Snapshots /\ ops[id].version \in Nat
    BY <1>1 DEF Operations
  <1> QED  BY <1>1, <1>2, SnapshotShape

\* The entries the two kinds of commit write are rows.
LEMMA CommittedShape ==
  ASSUME TypeOK, NEW p \in Procs, NEW id \in 1..Len(ops)
  PROVE  Committed(entry[p], id) \in Rows /\ Reconciled(entry[p], id) \in Rows
  <1>1. entry[p] \in Rows  BY DEF TypeOK
  <1>2. /\ entry[p].files \in SUBSET Files
        /\ entry[p].history \in Seq(Nat) /\ id \in Nat
    BY <1>1 DEF Rows, TypeOK
  <1>3. Append(entry[p].history, id) \in Seq(Nat)  BY <1>2
  <1>4. Committed(entry[p], id) \in Rows
    BY <1>2, <1>3, OperationShape DEF Committed, Rows
  <1>5. Reconciled(entry[p], id) \in Rows
    BY <1>1, <1>3, OperationShape DEF Reconciled, Rows
  <1> QED  BY <1>4, <1>5

\* Every step of a process keeps the types.
LEMMA StepTypeOK ==
  ASSUME IInv, NEW p \in Procs, Start(p) \/ Step(p)
  PROVE  TypeOK'
  <1>0. TypeOK /\ LoopsStayInside  BY DEF IInv
  <1> USE <1>0
  <1>1. CASE Start(p)  BY <1>1 DEF Start, TypeOK, Goto, Labels, faults
  <1>2. CASE NextPending(p)
    <2>1. PICK id \in queue[p] : /\ queue' = [queue EXCEPT ![p] = @ \ {id}]
                                /\ cur' = [cur EXCEPT ![p] = id]
                                /\ todo' = [todo EXCEPT ![p] = DOMAIN ops[id].after]
      BY <1>2 DEF NextPending
    <2>2. id \in 1..Len(ops)  BY <2>1 DEF TypeOK
    <2>3. todo' \in [Procs -> SUBSET Files]  BY <2>1, <2>2, OperationShape DEF TypeOK
    <2>4. cur' \in [Procs -> 0..Len(ops)]  BY <2>1, <2>2 DEF TypeOK
    <2>5. queue' \in [Procs -> SUBSET (1..Len(ops))]  BY <2>1 DEF TypeOK
    <2> QED  BY <1>2, <2>3, <2>4, <2>5 DEF NextPending, TypeOK, Goto, Labels, faults
  <1>3. CASE ReconcileDone(p)  BY <1>3 DEF ReconcileDone, TypeOK, Goto, Labels, faults
  <1>4. CASE MatchAfter(p)
    <2>1. cur[p] \in 1..Len(ops)  BY <1>4 DEF MatchAfter, LoopsStayInside, AtOperation
    <2>2. DOMAIN ops[cur[p]].before \subseteq Files  BY <2>1, OperationShape
    <2>3. todo' \in [Procs -> SUBSET Files]
      <3>1. \/ \E f \in todo[p] : todo' = [todo EXCEPT ![p] = @ \ {f}]
            \/ todo' = [todo EXCEPT ![p] = DOMAIN ops[cur[p]].before]
            \/ todo' = todo
        BY <1>4 DEF MatchAfter
      <3> QED  BY <2>2, <3>1 DEF TypeOK
    <2>4. pc' \in [Procs -> Labels]  BY <1>4 DEF MatchAfter, TypeOK, Goto, Labels
    <2> QED  BY <1>4, <2>3, <2>4 DEF MatchAfter, TypeOK, faults
  <1>5. CASE MatchBefore(p)  BY <1>5 DEF MatchBefore, TypeOK, Goto, Labels, faults
  <1>6. CASE Reverify(p)
    <2>1. cur[p] \in 1..Len(ops)  BY <1>6 DEF Reverify, LoopsStayInside, AtOperation
    <2>2. DOMAIN ops[cur[p]].before \subseteq Files  BY <2>1, OperationShape
    <2>3. todo' \in [Procs -> SUBSET Files] /\ pc' \in [Procs -> Labels]
      BY <1>6, <2>2 DEF Reverify, TypeOK, Goto, Labels
    <2>4. entry' \in [Procs -> Rows]  BY <1>6 DEF Reverify, TypeOK
    <2>5. rejected' \subseteq 1..Len(ops)  BY <1>6, <2>1 DEF Reverify, TypeOK
    <2> QED  BY <1>6, <2>3, <2>4, <2>5 DEF Reverify, TypeOK
  <1>7. CASE ReconcileCommit(p)
    <2>1. cur[p] \in 1..Len(ops)  BY <1>7 DEF ReconcileCommit, LoopsStayInside, AtOperation
    <2>2. row' \in Rows
      BY <1>7, <2>1, CommittedShape DEF ReconcileCommit, TypeOK
    <2>3. pc' \in [Procs -> Labels] /\ journal' \subseteq 1..Len(ops)
      BY <1>7 DEF ReconcileCommit, TypeOK, Goto, Labels
    <2> QED  BY <1>7, <2>2, <2>3 DEF ReconcileCommit, TypeOK, faults
  <1>8. CASE ReconcileUndo(p)
    <2>1. cur[p] \in 1..Len(ops) /\ todo[p] \subseteq DOMAIN ops[cur[p]].before
      BY <1>8 DEF ReconcileUndo, LoopsStayInside, AtOperation
    <2>2. \A f \in todo[p] : f \in Files /\ ops[cur[p]].before[f] \in Contents
      BY <2>1, OperationShape
    <2>3. disk' \in [Files -> Contents \union {Missing}]
      BY <1>8, <2>2 DEF ReconcileUndo, TypeOK
    <2>4. todo' \in [Procs -> SUBSET Files] /\ pc' \in [Procs -> Labels]
      BY <1>8 DEF ReconcileUndo, TypeOK, Goto, Labels
    <2> QED  BY <1>8, <2>3, <2>4 DEF ReconcileUndo, TypeOK, faults
  <1>9. CASE ReconcileDrop(p)  BY <1>9 DEF ReconcileDrop, TypeOK, Goto, Labels, faults
  <1>10. CASE AcquireLock(p)  BY <1>10 DEF AcquireLock, TypeOK, Goto, Labels, faults
  <1>11. CASE ReadEntry(p)
    <2>1. row.files \in SUBSET Files  BY DEF TypeOK, Rows
    <2>2. todo' \in [Procs -> SUBSET Files] /\ pc' \in [Procs -> Labels]
      BY <1>11, <2>1 DEF ReadEntry, TypeOK, Goto, Labels
    <2>3. entry' \in [Procs -> Rows] /\ copy' \in [Procs -> Snapshots]
      BY <1>11, NoFilesSnapshot DEF ReadEntry, TypeOK
    <2> QED  BY <1>11, <2>2, <2>3 DEF ReadEntry, TypeOK, faults
  <1>12. CASE ReadLive(p)
    <2>1. PICK f \in todo[p] :
              /\ todo' = [todo EXCEPT ![p] = @ \ {f}]
              /\ copy' = [copy EXCEPT ![p] =
                            IF disk[f] = Missing THEN @ ELSE With(@, f, disk[f])]
      BY <1>12 DEF ReadLive
    <2>2. copy[p] \in Snapshots /\ f \in Files /\ disk[f] \in Contents \union {Missing}
      BY <2>1 DEF TypeOK
    <2>3. disk[f] # Missing => With(copy[p], f, disk[f]) \in Snapshots
      BY <2>2, WithSnapshot
    <2>4. copy' \in [Procs -> Snapshots]  BY <2>1, <2>2, <2>3 DEF TypeOK
    <2>5. todo' \in [Procs -> SUBSET Files]  BY <2>1 DEF TypeOK
    <2> QED  BY <1>12, <2>4, <2>5 DEF ReadLive, TypeOK, faults
  <1>13. CASE Refuse(p)  BY <1>13 DEF Refuse, TypeOK, Goto, Labels, faults
  <1>14. CASE JournalChange(p)
    <2>1. PICK added \in SUBSET (Files \ entry[p].files) :
            \E final \in [DOMAIN copy[p] \union added -> Contents] :
              /\ ops' = Append(ops, [before |-> copy[p], after |-> final,
                                     version |-> entry[p].version + 1])
              /\ todo' = [todo EXCEPT ![p] = DOMAIN final]
      BY <1>14 DEF JournalChange
    <2>2. PICK final \in [DOMAIN copy[p] \union added -> Contents] :
              /\ ops' = Append(ops, [before |-> copy[p], after |-> final,
                                     version |-> entry[p].version + 1])
              /\ todo' = [todo EXCEPT ![p] = DOMAIN final]
      BY <2>1
    <2>3. copy[p] \in Snapshots /\ entry[p].version \in Nat  BY DEF TypeOK, Rows
    <2>4. DOMAIN copy[p] \union added \subseteq Files  BY <2>3, SnapshotShape
    <2>5. final \in Snapshots  BY <2>4 DEF Snapshots
    <2>6. [before |-> copy[p], after |-> final, version |-> entry[p].version + 1] \in Operations
      BY <2>3, <2>5 DEF Operations
    <2>7. /\ ops' \in Seq(Operations) /\ Len(ops') = Len(ops) + 1
          /\ Len(ops) \in Nat /\ Len(ops') <= MaxOps
      BY <1>14, <2>2, <2>6, BoundAssumption DEF TypeOK, JournalChange
    <2>8. todo' \in [Procs -> SUBSET Files]  BY <2>2, <2>4 DEF TypeOK
    <2>9. journal' \subseteq 1..Len(ops')
      <3>1. journal \subseteq 1..Len(ops) /\ journal' = journal \union {Len(ops) + 1}
        BY <1>14 DEF JournalChange, Journaled, TypeOK
      <3>2. 1..Len(ops) \subseteq 1..Len(ops') /\ Len(ops) + 1 \in 1..Len(ops')  BY <2>7
      <3> QED  BY <3>1, <3>2
    <2>10. cur' \in [Procs -> 0..Len(ops')]  BY <1>14, <2>7 DEF JournalChange, TypeOK
    <2>11. queue' \in [Procs -> SUBSET (1..Len(ops'))] /\ acked' \subseteq 1..Len(ops')
      <3>1. 1..Len(ops) \subseteq 1..Len(ops')  BY <2>7
      <3>2. queue' = queue /\ acked' = acked  BY <1>14 DEF JournalChange
      <3>3. SUBSET (1..Len(ops)) \subseteq SUBSET (1..Len(ops'))  BY <3>1
      <3> QED  BY <3>1, <3>2, <3>3 DEF TypeOK
    <2>12. copy' \in [Procs -> Snapshots] /\ pc' \in [Procs -> Labels]
      BY <1>14, NoFilesSnapshot DEF JournalChange, TypeOK, Goto, Labels
    <2> QED
      BY <1>14, <2>7, <2>8, <2>9, <2>10, <2>11, <2>12 DEF JournalChange, TypeOK, faults
  <1>15. CASE Backup(p)
    <2>1. cur[p] \in 1..Len(ops)  BY <1>15 DEF Backup, LoopsStayInside, AtOperation
    <2>2. DOMAIN ops[cur[p]].after \subseteq Files  BY <2>1, OperationShape
    <2>3. \A f \in todo[p] : disk[f] # Missing => With(copy[p], f, disk[f]) \in Snapshots
      <3> SUFFICES ASSUME NEW f \in todo[p], disk[f] # Missing
                   PROVE  With(copy[p], f, disk[f]) \in Snapshots
        OBVIOUS
      <3>1. f \in Files /\ disk[f] \in Contents /\ copy[p] \in Snapshots  BY DEF TypeOK
      <3> QED  BY <3>1, WithSnapshot
    <2>4. copy' \in [Procs -> Snapshots]  BY <1>15, <2>3 DEF Backup, TypeOK
    <2>5. todo' \in [Procs -> SUBSET Files]
      <3>1. PICK f \in todo[p] :
              \/ UNCHANGED todo
              \/ todo' = [todo EXCEPT ![p] = DOMAIN ops[cur[p]].after]
              \/ todo' = [todo EXCEPT ![p] = @ \ {f}]
        BY <1>15 DEF Backup
      <3>2. todo[p] \ {f} \in SUBSET Files /\ DOMAIN ops[cur[p]].after \in SUBSET Files
        BY <2>2 DEF TypeOK
      <3> QED  BY <3>1, <3>2 DEF TypeOK
    <2>6. pc' \in [Procs -> Labels]  BY <1>15 DEF Backup, TypeOK, Goto, Labels
    <2> QED  BY <1>15, <2>4, <2>5, <2>6 DEF Backup, TypeOK, faults
  <1>16. CASE WriteFile(p)
    <2>1. cur[p] \in 1..Len(ops) /\ todo[p] \subseteq DOMAIN ops[cur[p]].after
      BY <1>16 DEF WriteFile, LoopsStayInside, AtOperation
    <2>2. \A f \in todo[p] : f \in Files /\ ops[cur[p]].after[f] \in Contents
      BY <2>1, OperationShape
    <2>3. disk' \in [Files -> Contents \union {Missing}]
      BY <1>16, <2>2 DEF WriteFile, TypeOK
    <2>4. todo' \in [Procs -> SUBSET Files]  BY <1>16 DEF WriteFile, TypeOK
    <2> QED  BY <1>16, <2>3, <2>4 DEF WriteFile, TypeOK, faults
  <1>17. CASE WriteFails(p)
    <2>1. DOMAIN copy[p] \subseteq Files  BY SnapshotShape DEF TypeOK
    <2>2. todo' \in [Procs -> SUBSET Files] /\ pc' \in [Procs -> Labels]
      BY <1>17, <2>1 DEF WriteFails, TypeOK, Goto, Labels
    <2> QED  BY <1>17, <2>2 DEF WriteFails, TypeOK, faults
  <1>18. CASE UndoWrite(p) \/ UndoConflict(p)
    <2>1. todo[p] \subseteq DOMAIN copy[p]
      BY <1>18 DEF UndoWrite, UndoConflict, LoopsStayInside
    <2>2. \A f \in todo[p] : f \in Files /\ copy[p][f] \in Contents
      BY <2>1, SnapshotShape DEF TypeOK
    <2>3. disk' \in [Files -> Contents \union {Missing}]
      BY <1>18, <2>2 DEF UndoWrite, UndoConflict, TypeOK
    <2>4. todo' \in [Procs -> SUBSET Files] /\ pc' \in [Procs -> Labels]
      BY <1>18 DEF UndoWrite, UndoConflict, TypeOK, Goto, Labels
    <2> QED  BY <1>18, <2>3, <2>4 DEF UndoWrite, UndoConflict, TypeOK, faults
  <1>19. CASE Commit(p)
    <2>1. cur[p] \in 1..Len(ops)  BY <1>19 DEF Commit, LoopsStayInside, AtOperation
    <2>2. Committed(entry[p], cur[p]) \in Rows  BY <2>1, CommittedShape
    <2>3. row' \in Rows /\ entry' \in [Procs -> Rows]  BY <1>19, <2>2 DEF Commit, TypeOK
    <2>4. DOMAIN copy[p] \subseteq Files  BY SnapshotShape DEF TypeOK
    <2>5. todo' \in [Procs -> SUBSET Files] /\ pc' \in [Procs -> Labels]
      BY <1>19, <2>4 DEF Commit, TypeOK, Goto, Labels
    <2> QED  BY <1>19, <2>3, <2>5 DEF Commit, TypeOK, faults
  <1>20. CASE Complete(p)
    <2>1. cur[p] \in 1..Len(ops)  BY <1>20 DEF Complete, LoopsStayInside, AtOperation
    <2>2. row' \in Rows  BY <1>20 DEF Complete, TypeOK
    <2>3. journal' \subseteq 1..Len(ops) /\ acked' \subseteq 1..Len(ops)
      BY <1>20, <2>1 DEF Complete, TypeOK
    <2>4. pc' \in [Procs -> Labels]  BY <1>20 DEF Complete, TypeOK, Goto, Labels
    <2> QED  BY <1>20, <2>2, <2>3, <2>4 DEF Complete, TypeOK, faults
  <1>21. CASE DropPending(p)  BY <1>21 DEF DropPending, TypeOK, Goto, Labels, faults
  <1>22. CASE Finish(p)
    <2>1. Forget({p})  BY <1>22 DEF Finish
    <2> QED  BY <1>22, <2>1, ForgetTypeOK DEF Finish, TypeOK, faults
  <1> QED
    BY <1>1, <1>2, <1>3, <1>4, <1>5, <1>6, <1>7, <1>8, <1>9, <1>10, <1>11, <1>12, <1>13,
       <1>14, <1>15, <1>16, <1>17, <1>18, <1>19, <1>20, <1>21, <1>22 DEF Step

-----------------------------------------------------------------------------
(* What a step of a process does to the row, the operations, and entries.  *)

\* The row changes only when a compare-and-swap succeeds, and then by one
\* version: the operation journaled for the next version is appended.
RowGrows(id) ==
  /\ id \in 1..Len(ops) /\ ops[id].version = row.version + 1
  /\ row'.version = row.version + 1
  /\ row'.history = Append(row.history, id)
  /\ UNCHANGED ops

LEMMA RowStep ==
  ASSUME IInv, NEW p \in Procs, Start(p) \/ Step(p)
  PROVE  UNCHANGED row \/ RowGrows(cur[p])
  <1>0. /\ entry[p] \in Rows /\ row \in Rows
        /\ entry[p].version \in 1..row.version
        /\ entry[p].version = row.version => entry[p] = row
    BY DEF IInv, TypeOK, EntriesAreRowOrOlder
  <1>1. CASE ReconcileCommit(p)
    <2>1. cur[p] \in 1..Len(ops) /\ ops[cur[p]].version <= entry[p].version + 1
      BY <1>1 DEF ReconcileCommit, IInv, LoopsStayInside, AtOperation, ReadBeforeCas
    <2>2. ops[cur[p]].version \in Nat  BY <2>1, OperationShape DEF IInv
    <2>3. SUFFICES ASSUME row.version = ops[cur[p]].version - 1,
                          row' = Reconciled(entry[p], cur[p])
                   PROVE  RowGrows(cur[p])
      BY <1>1 DEF ReconcileCommit, StoredVersionIs, ReconcileExpects
    <2>4. entry[p] = row /\ ops[cur[p]].version = row.version + 1
      BY <1>0, <2>1, <2>2, <2>3 DEF Rows
    <2>5. UNCHANGED ops  BY <1>1 DEF ReconcileCommit
    <2> QED  BY <1>0, <2>1, <2>3, <2>4, <2>5 DEF RowGrows, Reconciled, Rows
  <1>2. CASE Commit(p)
    <2>1. cur[p] \in 1..Len(ops) /\ ops[cur[p]].version = entry[p].version + 1
      BY <1>2 DEF Commit, IInv, LoopsStayInside, AtOperation, ReadBeforeCas
    <2>2. SUFFICES ASSUME row.version = ops[cur[p]].version - 1,
                          row' = Committed(entry[p], cur[p])
                   PROVE  RowGrows(cur[p])
      BY <1>2 DEF Commit, StoredVersionIs
    <2>3. entry[p] = row /\ ops[cur[p]].version = row.version + 1
      BY <1>0, <2>1, <2>2 DEF Rows
    <2>4. UNCHANGED ops  BY <1>2 DEF Commit
    <2> QED  BY <1>0, <2>1, <2>2, <2>3, <2>4 DEF RowGrows, Committed, Rows
  <1>3. CASE Complete(p)
    <2>1. ops[cur[p]].version = entry[p].version
      BY <1>3 DEF Complete, IInv, ReadBeforeCas
    <2> QED  BY <1>0, <1>3, <2>1 DEF Complete, StoredVersionIs
  <1>4. CASE UNCHANGED row  BY <1>4
  <1> QED
    BY <1>1, <1>2, <1>3, <1>4
    DEF Start, Step, NextPending, ReconcileDone, MatchAfter, MatchBefore,
             Reverify, ReconcileCommit, ReconcileUndo, ReconcileDrop, AcquireLock, ReadEntry,
             ReadLive, Refuse, JournalChange, Backup, WriteFile, WriteFails, UndoWrite,
             Commit, Complete, UndoConflict, DropPending, Finish

\* Operations are only added, each for the version after one that was current.
OpsGrow(op) ==
  /\ op \in Operations /\ op.version \in 2..row.version + 1
  /\ ops' = Append(ops, op)
  /\ UNCHANGED <<row, acked>>

LEMMA OpsStep ==
  ASSUME IInv, NEW p \in Procs, Start(p) \/ Step(p)
  PROVE  UNCHANGED ops \/ OpsGrow(ops'[Len(ops) + 1])
  <1>1. CASE JournalChange(p)
    <2>1. PICK op : op.version = entry[p].version + 1 /\ ops' = Append(ops, op)
      BY <1>1 DEF JournalChange
    <2>2. ops' \in Seq(Operations)  BY StepTypeOK DEF TypeOK
    <2>3. ops \in Seq(Operations) /\ Len(ops) \in Nat  BY DEF IInv, TypeOK
    <2>4. ops'[Len(ops) + 1] = op /\ Len(ops') = Len(ops) + 1  BY <2>1, <2>3
    <2>5. op \in Operations  BY <2>2, <2>3, <2>4
    <2>6. entry[p].version \in 1..row.version /\ row.version \in Nat
      BY DEF IInv, EntriesAreRowOrOlder, TypeOK, Rows
    <2>7. UNCHANGED <<row, acked>>  BY <1>1 DEF JournalChange
    <2> QED  BY <2>1, <2>4, <2>5, <2>6, <2>7 DEF OpsGrow
  <1>2. CASE UNCHANGED ops  BY <1>2
  <1> QED
    BY <1>1, <1>2
    DEF Start, Step, NextPending, ReconcileDone, MatchAfter, MatchBefore,
             Reverify, ReconcileCommit, ReconcileUndo, ReconcileDrop, AcquireLock, ReadEntry,
             ReadLive, Refuse, JournalChange, Backup, WriteFile, WriteFails, UndoWrite,
             Commit, Complete, UndoConflict, DropPending, Finish

\* A process takes a step with its own local variables only.
LEMMA OthersUntouched ==
  ASSUME IInv, NEW p \in Procs, Start(p) \/ Step(p), NEW q \in Procs, q # p
  PROVE  /\ pc'[q] = pc[q] /\ entry'[q] = entry[q] /\ copy'[q] = copy[q]
         /\ todo'[q] = todo[q] /\ cur'[q] = cur[q]
  <1>1. TypeOK  BY DEF IInv
  <1>2. CASE Finish(p)  BY <1>1, <1>2 DEF Finish, Forget, TypeOK
  <1>3. CASE Commit(p)  BY <1>1, <1>3 DEF Commit, TypeOK, Goto
  <1> QED
    BY <1>1, <1>2, <1>3
    DEF TypeOK, Goto,
        Start, Step, NextPending, ReconcileDone, MatchAfter, MatchBefore,
             Reverify, ReconcileCommit, ReconcileUndo, ReconcileDrop, AcquireLock, ReadEntry,
             ReadLive, Refuse, JournalChange, Backup, WriteFile, WriteFails, UndoWrite,
             Commit, Complete, UndoConflict, DropPending, Finish

\* A process's entry is its old one, the row of this moment, or forgotten.
LEMMA EntryStep ==
  ASSUME IInv, NEW p \in Procs, Start(p) \/ Step(p)
  PROVE  \/ entry'[p] = entry[p]
         \/ entry'[p] = row'
         \/ entry'[p] = InitialRow
  <1>1. TypeOK  BY DEF IInv
  <1>2. CASE Finish(p)  BY <1>1, <1>2 DEF Finish, Forget, TypeOK
  <1>3. CASE Commit(p)  BY <1>1, <1>3 DEF Commit, TypeOK
  <1> QED
    BY <1>1, <1>2, <1>3
    DEF TypeOK,
        Start, Step, NextPending, ReconcileDone, MatchAfter, MatchBefore,
             Reverify, ReconcileCommit, ReconcileUndo, ReconcileDrop, AcquireLock, ReadEntry,
             ReadLive, Refuse, JournalChange, Backup, WriteFile, WriteFails, UndoWrite,
             Commit, Complete, UndoConflict, DropPending, Finish

-----------------------------------------------------------------------------
(* Preservation of each part of the invariant by a process's step.         *)

\* Operations that were journaled stay what they were.
LEMMA OperationsStay ==
  ASSUME IInv, NEW p \in Procs, Start(p) \/ Step(p), NEW id \in 1..Len(ops)
  PROVE  id \in 1..Len(ops') /\ ops'[id] = ops[id]
  <1>1. ops \in Seq(Operations) /\ Len(ops) \in Nat  BY DEF IInv, TypeOK
  <1> QED  BY <1>1, OpsStep DEF OpsGrow

LEMMA StepHistory ==
  ASSUME IInv, NEW p \in Procs, Start(p) \/ Step(p)
  PROVE  /\ HistoryMatchesVersions' /\ OperationsFollowRow'
         /\ row'.version >= 1 /\ (row'.version = 1 => row' = InitialRow)
  <1>0. /\ ops \in Seq(Operations) /\ Len(ops) \in Nat
        /\ row.version \in Nat /\ row.history \in Seq(Nat) /\ Len(row.history) \in Nat
        /\ row.version = Len(row.history) /\ row.version >= 1 /\ row.history[1] = 0
        /\ row.version = 1 => row = InitialRow
    BY DEF IInv, TypeOK, Rows, HistoryMatchesVersions
  <1>1. \A i \in 2..Len(row.history) :
          row.history[i] \in 1..Len(ops) /\ ops[row.history[i]].version = i
    BY DEF IInv, HistoryMatchesVersions
  <1>2. \A id \in 1..Len(ops) : ops[id].version \in 2..row.version + 1
    BY DEF IInv, OperationsFollowRow
  <1>3. \A i \in 2..Len(row.history) :
          row.history[i] \in 1..Len(ops') /\ ops'[row.history[i]].version = i
    BY <1>1, OperationsStay
  <1>4. CASE UNCHANGED row
    <2>1. HistoryMatchesVersions'  BY <1>0, <1>3, <1>4 DEF HistoryMatchesVersions
    <2>2. OperationsFollowRow'
      <3> SUFFICES ASSUME NEW id \in 1..Len(ops')
                   PROVE  ops'[id].version \in 2..row'.version + 1
        BY DEF OperationsFollowRow
      <3>1. CASE id \in 1..Len(ops)  BY <1>2, <1>4, <3>1, OperationsStay
      <3>2. CASE id \notin 1..Len(ops)
        <4>1. OpsGrow(ops'[Len(ops) + 1])  BY <3>2, OpsStep
        <4>2. id = Len(ops) + 1  BY <1>0, <3>2, <4>1 DEF OpsGrow
        <4> QED  BY <1>4, <4>1, <4>2 DEF OpsGrow
      <3> QED  BY <3>1, <3>2
    <2> QED  BY <1>0, <1>4, <2>1, <2>2
  <1>5. CASE RowGrows(cur[p])
    <2>1. cur[p] \in Nat  BY DEF IInv, TypeOK
    <2>2. /\ Len(row'.history) = Len(row.history) + 1
          /\ row'.history[Len(row.history) + 1] = cur[p]
          /\ \A i \in 1..Len(row.history) : row'.history[i] = row.history[i]
      BY <1>0, <1>5, <2>1 DEF RowGrows
    <2>3. HistoryMatchesVersions'
      BY <1>0, <1>3, <1>5, <2>2 DEF HistoryMatchesVersions, RowGrows
    <2>4. OperationsFollowRow'  BY <1>0, <1>2, <1>5 DEF OperationsFollowRow, RowGrows
    <2> QED  BY <1>0, <1>5, <2>3, <2>4 DEF RowGrows
  <1> QED  BY <1>4, <1>5, RowStep

\* The history only gets longer: what stands at a version stays there.
LEMMA HistoryStays ==
  ASSUME IInv, NEW p \in Procs, Start(p) \/ Step(p), NEW i \in 1..Len(row.history)
  PROVE  i \in 1..Len(row'.history) /\ row'.history[i] = row.history[i]
  <1>1. row.history \in Seq(Nat) /\ Len(row.history) \in Nat /\ cur[p] \in Nat
    BY DEF IInv, TypeOK, Rows
  <1>2. CASE UNCHANGED row  BY <1>2
  <1>3. CASE RowGrows(cur[p])
    <2>1. row'.history = Append(row.history, cur[p])  BY <1>3 DEF RowGrows
    <2> QED  BY <1>1, <2>1
  <1> QED  BY <1>2, <1>3, RowStep

LEMMA StepAcked ==
  ASSUME IInv, NEW p \in Procs, Start(p) \/ Step(p)
  PROVE  NoLostCommit'
  <1>0. acked \subseteq 1..Len(ops) /\ cur[p] \in 0..Len(ops) /\ Len(ops) \in Nat
    BY DEF IInv, TypeOK
  <1>1. /\ row.version = Len(row.history) /\ row.version \in Nat
        /\ \A id \in 1..Len(ops) : ops[id].version \in 2..row.version + 1
    BY DEF IInv, TypeOK, Rows, HistoryMatchesVersions, OperationsFollowRow
  <1>2. ASSUME NEW id \in 1..Len(ops),
               ops[id].version <= Len(row.history), row.history[ops[id].version] = id
        PROVE  /\ ops'[id].version <= Len(row'.history)
               /\ row'.history[ops'[id].version] = id
    <2>1. ops[id].version \in 1..Len(row.history)  BY <1>1, <1>2
    <2>2. ops'[id] = ops[id]  BY <1>2, OperationsStay
    <2> QED  BY <1>1, <1>2, <2>1, <2>2, HistoryStays
  <1>3. \A id \in acked : /\ ops[id].version <= Len(row.history)
                          /\ row.history[ops[id].version] = id
    BY DEF IInv, NoLostCommit
  <1>4. CASE Complete(p)
    <2>1. /\ cur[p] \in 1..Len(ops)
          /\ ops[cur[p]].version = entry[p].version
          /\ row.history[entry[p].version] = cur[p]
          /\ entry[p].version \in 1..row.version
      BY <1>4 DEF Complete, IInv, LoopsStayInside, AtOperation, ReadBeforeCas,
                  EntriesAreRowOrOlder
    <2>2. acked' \subseteq acked \union {cur[p]}  BY <1>4 DEF Complete
    <2>3. /\ ops[cur[p]].version <= Len(row.history)
          /\ row.history[ops[cur[p]].version] = cur[p]
      BY <1>1, <2>1
    <2>4. \A id \in acked' : /\ ops'[id].version <= Len(row'.history)
                             /\ row'.history[ops'[id].version] = id
      <3> SUFFICES ASSUME NEW id \in acked'
                   PROVE  /\ ops'[id].version <= Len(row'.history)
                          /\ row'.history[ops'[id].version] = id
        OBVIOUS
      <3>1. /\ id \in 1..Len(ops) /\ ops[id].version <= Len(row.history)
            /\ row.history[ops[id].version] = id
        BY <1>0, <1>3, <2>1, <2>2, <2>3
      <3> QED  BY <1>2, <3>1
    <2> QED  BY <2>4 DEF NoLostCommit
  <1>5. CASE UNCHANGED acked  BY <1>0, <1>2, <1>3, <1>5 DEF NoLostCommit
  <1> QED
    BY <1>4, <1>5
    DEF Start, Step, NextPending, ReconcileDone, MatchAfter, MatchBefore,
        Reverify, ReconcileCommit, ReconcileUndo, ReconcileDrop, AcquireLock, ReadEntry,
        ReadLive, Refuse, JournalChange, Backup, WriteFile, WriteFails, UndoWrite,
        Commit, Complete, UndoConflict, DropPending, Finish

LEMMA StepEntries ==
  ASSUME IInv, NEW p \in Procs, Start(p) \/ Step(p)
  PROVE  EntriesAreRowOrOlder'
  <1>0. /\ row.version \in Nat /\ row.version >= 1 /\ row \in Rows
        /\ row'.version \in Nat /\ row'.version >= 1
        /\ row'.version = 1 => row' = InitialRow
    BY StepTypeOK, StepHistory DEF IInv, TypeOK, Rows
  <1> SUFFICES ASSUME NEW q \in Procs
               PROVE  /\ entry'[q].version \in 1..row'.version
                      /\ entry'[q].version = row'.version => entry'[q] = row'
    BY DEF EntriesAreRowOrOlder
  <1>1. /\ entry[q].version \in 1..row.version
        /\ entry[q].version = row.version => entry[q] = row
    BY DEF IInv, EntriesAreRowOrOlder
  <1>2. row' = row \/ row'.version = row.version + 1  BY RowStep DEF RowGrows
  <1>3. CASE entry'[q] = entry[q]  BY <1>0, <1>1, <1>2, <1>3
  <1>4. CASE entry'[q] = row'  BY <1>0, <1>4
  <1>5. CASE entry'[q] = InitialRow  BY <1>0, <1>5 DEF InitialRow
  <1> QED  BY <1>3, <1>4, <1>5, EntryStep, OthersUntouched

LEMMA StepLoops ==
  ASSUME IInv, NEW p \in Procs, Start(p) \/ Step(p)
  PROVE  LoopsStayInside'
  <1>0. TypeOK /\ LoopsStayInside  BY DEF IInv
  <1> DEFINE Inside(q) ==
        /\ pc'[q] \in AtOperation => cur'[q] \in 1..Len(ops')
        /\ pc'[q] = "rec_undo" => todo'[q] \subseteq DOMAIN ops'[cur'[q]].before
        /\ pc'[q] = "write" => todo'[q] \subseteq DOMAIN ops'[cur'[q]].after
        /\ pc'[q] \in {"undo_write", "undo_conflict"} => todo'[q] \subseteq DOMAIN copy'[q]
  <1>1. ASSUME NEW q \in Procs, q # p PROVE Inside(q)
    <2>1. /\ pc'[q] = pc[q] /\ todo'[q] = todo[q] /\ cur'[q] = cur[q] /\ copy'[q] = copy[q]
      BY <1>1, OthersUntouched
    <2>2. cur[q] \in 1..Len(ops) => cur[q] \in 1..Len(ops') /\ ops'[cur[q]] = ops[cur[q]]
      BY OperationsStay
    <2> QED  BY <1>0, <2>1, <2>2 DEF LoopsStayInside, AtOperation
  <1>2. Inside(p)
    <2>1. CASE Start(p)  BY <1>0, <2>1 DEF Start, Goto, TypeOK, AtOperation
    <2>2. CASE NextPending(p)  BY <1>0, <2>2 DEF NextPending, Goto, TypeOK, AtOperation
    <2>3. CASE ReconcileDone(p)  BY <1>0, <2>3 DEF ReconcileDone, Goto, TypeOK, AtOperation
    <2>4. CASE MatchAfter(p)
      BY <1>0, <2>4 DEF MatchAfter, Goto, TypeOK, LoopsStayInside, AtOperation
    <2>5. CASE MatchBefore(p)
      BY <1>0, <2>5 DEF MatchBefore, Goto, TypeOK, LoopsStayInside, AtOperation
    <2>6. CASE Reverify(p)
      BY <1>0, <2>6 DEF Reverify, Goto, TypeOK, LoopsStayInside, AtOperation
    <2>7. CASE ReconcileCommit(p)  BY <1>0, <2>7 DEF ReconcileCommit, Goto, TypeOK, AtOperation
    <2>8. CASE ReconcileUndo(p)
      BY <1>0, <2>8 DEF ReconcileUndo, Goto, TypeOK, LoopsStayInside, AtOperation
    <2>9. CASE ReconcileDrop(p)  BY <1>0, <2>9 DEF ReconcileDrop, Goto, TypeOK, AtOperation
    <2>10. CASE AcquireLock(p)  BY <1>0, <2>10 DEF AcquireLock, Goto, TypeOK, AtOperation
    <2>11. CASE ReadEntry(p)  BY <1>0, <2>11 DEF ReadEntry, Goto, TypeOK, AtOperation
    <2>12. CASE ReadLive(p)
      BY <1>0, <2>12 DEF ReadLive, TypeOK, AtOperation
    <2>13. CASE Refuse(p)  BY <1>0, <2>13 DEF Refuse, Goto, TypeOK, AtOperation
    <2>14. CASE JournalChange(p)
      <3>1. pc'[p] = "backup" /\ cur'[p] = Len(ops) + 1
        BY <1>0, <2>14 DEF JournalChange, Goto, TypeOK
      <3>2. \E op : ops' = Append(ops, op)  BY <2>14 DEF JournalChange
      <3>3. ops \in Seq(Operations) /\ Len(ops) \in Nat  BY <1>0 DEF TypeOK
      <3>4. Len(ops') = Len(ops) + 1  BY <3>2, <3>3
      <3> QED  BY <3>1, <3>3, <3>4 DEF AtOperation
    <2>15. CASE Backup(p)
      <3>1. cur[p] \in 1..Len(ops) /\ UNCHANGED <<cur, ops>>
        BY <1>0, <2>15 DEF Backup, LoopsStayInside, AtOperation
      <3>2. \/ pc'[p] \in {"done", "backup"}
            \/ pc'[p] = "write" /\ todo'[p] = DOMAIN ops[cur[p]].after
        BY <1>0, <2>15 DEF Backup, Goto, TypeOK
      <3> QED  BY <3>1, <3>2
    <2>16. CASE WriteFile(p)
      BY <1>0, <2>16 DEF WriteFile, TypeOK, LoopsStayInside, AtOperation
    <2>17. CASE WriteFails(p)
      BY <1>0, <2>17 DEF WriteFails, Goto, TypeOK, LoopsStayInside, AtOperation
    <2>18. CASE UndoWrite(p) \/ UndoConflict(p)
      BY <1>0, <2>18 DEF UndoWrite, UndoConflict, Goto, TypeOK, LoopsStayInside, AtOperation
    <2>19. CASE Commit(p)
      BY <1>0, <2>19 DEF Commit, Goto, TypeOK, LoopsStayInside, AtOperation
    <2>20. CASE Complete(p)  BY <1>0, <2>20 DEF Complete, Goto, TypeOK, AtOperation
    <2>21. CASE DropPending(p)  BY <1>0, <2>21 DEF DropPending, Goto, TypeOK, AtOperation
    <2>22. CASE Finish(p)  BY <1>0, <2>22 DEF Finish, Forget, TypeOK, AtOperation
    <2> QED
      BY <2>1, <2>2, <2>3, <2>4, <2>5, <2>6, <2>7, <2>8, <2>9, <2>10, <2>11, <2>12,
         <2>13, <2>14, <2>15, <2>16, <2>17, <2>18, <2>19, <2>20, <2>21, <2>22 DEF Step
  <1> QED  BY <1>1, <1>2 DEF LoopsStayInside

LEMMA StepReads ==
  ASSUME IInv, NEW p \in Procs, Start(p) \/ Step(p)
  PROVE  ReadBeforeCas'
  <1>0. TypeOK /\ LoopsStayInside /\ ReadBeforeCas  BY DEF IInv
  <1> DEFINE Knows(q) ==
        /\ pc'[q] \in {"backup", "write"} => ops'[cur'[q]].version = entry'[q].version + 1
        /\ pc'[q] = "rec_commit" => ops'[cur'[q]].version <= entry'[q].version + 1
        /\ pc'[q] = "complete" => /\ ops'[cur'[q]].version = entry'[q].version
                                  /\ row'.history[entry'[q].version] = cur'[q]
  <1>1. ASSUME NEW q \in Procs, q # p PROVE Knows(q)
    <2>1. /\ pc'[q] = pc[q] /\ entry'[q] = entry[q] /\ cur'[q] = cur[q]
      BY <1>1, OthersUntouched
    <2>2. pc[q] \in AtOperation => ops'[cur[q]] = ops[cur[q]]
      BY <1>0, OperationsStay DEF LoopsStayInside
    <2>3. row'.history[entry[q].version] = row.history[entry[q].version]
      <3>1. entry[q].version \in 1..Len(row.history)
        BY DEF IInv, EntriesAreRowOrOlder, HistoryMatchesVersions
      <3> QED  BY <3>1, HistoryStays
    <2> QED  BY <1>0, <2>1, <2>2, <2>3 DEF ReadBeforeCas, AtOperation
  <1>2. Knows(p)
    <2>1. CASE Reverify(p)
      <3>1. cur[p] \in 1..Len(ops)  BY <1>0, <2>1 DEF Reverify, LoopsStayInside, AtOperation
      <3>2. ops[cur[p]].version \in 2..row.version + 1
        BY <3>1 DEF IInv, OperationsFollowRow
      <3>3. UNCHANGED <<ops, cur>>  BY <2>1 DEF Reverify
      <3>4. \/ pc'[p] = "rec_undo"
            \/ pc'[p] = "rec_commit" /\ entry'[p] = row
        BY <1>0, <2>1 DEF Reverify, Goto, TypeOK
      <3> QED  BY <3>2, <3>3, <3>4
    <2>2. CASE JournalChange(p)
      <3>1. pc'[p] = "backup" /\ cur'[p] = Len(ops) + 1 /\ entry'[p] = entry[p]
        BY <1>0, <2>2 DEF JournalChange, Goto, TypeOK
      <3>2. PICK op : op.version = entry[p].version + 1 /\ ops' = Append(ops, op)
        BY <2>2 DEF JournalChange
      <3>3. ops \in Seq(Operations) /\ Len(ops) \in Nat  BY <1>0 DEF TypeOK
      <3>4. ops'[Len(ops) + 1] = op  BY <3>2, <3>3
      <3> QED  BY <3>1, <3>2, <3>4
    <2>3. CASE Backup(p)
      BY <1>0, <2>3 DEF Backup, Goto, TypeOK, ReadBeforeCas
    <2>4. CASE WriteFile(p)  BY <1>0, <2>4 DEF WriteFile, ReadBeforeCas
    <2>5. CASE Commit(p)
      <3>1. cur[p] \in 1..Len(ops) /\ ops[cur[p]].version = entry[p].version + 1
        BY <1>0, <2>5 DEF Commit, LoopsStayInside, AtOperation, ReadBeforeCas
      <3>2. UNCHANGED <<ops, cur>>  BY <2>5 DEF Commit
      <3>3. \/ pc'[p] \in {"undo_conflict", "done"}
            \/ /\ pc'[p] = "complete" /\ entry'[p] = Committed(entry[p], cur[p])
               /\ row' = Committed(entry[p], cur[p])
        BY <1>0, <2>5 DEF Commit, Goto, TypeOK
      <3>4. /\ entry[p].history \in Seq(Nat) /\ cur[p] \in Nat
            /\ entry[p].version \in 1..row.version /\ row.version \in Nat
            /\ row.version = Len(row.history)
            /\ entry[p].version = row.version => entry[p] = row
        BY <1>0 DEF TypeOK, Rows, IInv, EntriesAreRowOrOlder, HistoryMatchesVersions
      <3>5. CASE pc'[p] = "complete"
        <4>1. row.version = entry[p].version
          BY <1>0, <2>5, <3>1, <3>4, <3>5 DEF Commit, Goto, TypeOK, StoredVersionIs
        <4>2. Len(entry[p].history) = entry[p].version  BY <3>4, <4>1
        <4>3. /\ row'.history = Append(entry[p].history, cur[p])
              /\ entry'[p].version = entry[p].version + 1
          BY <3>1, <3>3, <3>5 DEF Committed
        <4> QED  BY <3>1, <3>2, <3>4, <3>5, <4>2, <4>3
      <3> QED  BY <3>3, <3>5
    <2>6. CASE Finish(p)  BY <1>0, <2>6 DEF Finish, Forget, TypeOK
    <2>7. pc'[p] \notin {"backup", "write", "rec_commit", "complete"} => Knows(p)
      OBVIOUS
    <2>8. CASE \/ Start(p) \/ NextPending(p) \/ ReconcileDone(p) \/ MatchAfter(p)
               \/ MatchBefore(p) \/ ReconcileCommit(p) \/ ReconcileUndo(p)
               \/ ReconcileDrop(p) \/ AcquireLock(p) \/ ReadEntry(p) \/ ReadLive(p)
               \/ Refuse(p) \/ WriteFails(p) \/ UndoWrite(p) \/ Complete(p)
               \/ UndoConflict(p) \/ DropPending(p)
      BY <1>0, <2>7, <2>8
      DEF TypeOK, Goto, Start, NextPending, ReconcileDone, MatchAfter, MatchBefore,
          ReconcileCommit, ReconcileUndo, ReconcileDrop, AcquireLock, ReadEntry, ReadLive,
          Refuse, WriteFails, UndoWrite, Complete, UndoConflict, DropPending
    <2> QED  BY <2>1, <2>2, <2>3, <2>4, <2>5, <2>6, <2>8 DEF Step
  <1> QED  BY <1>1, <1>2 DEF ReadBeforeCas

-----------------------------------------------------------------------------
(* What the environment does.                                              *)

LEMMA CrashIInv ==
  ASSUME IInv, NEW S, Crash(S)
  PROVE  IInv'
  <1>0. TypeOK /\ LoopsStayInside /\ ReadBeforeCas  BY DEF IInv
  <1>1. Forget(S) /\ UNCHANGED <<disk, row, ops, journal, acked, edits, rejected>>
    BY DEF Crash
  <1>2. TypeOK'
    <2>1. crashes' \in Nat  BY <1>0 DEF Crash, TypeOK
    <2> QED  BY <1>0, <1>1, <2>1, ForgetTypeOK DEF TypeOK
  <1>3. \A q \in Procs :
          \/ /\ pc'[q] = pc[q] /\ entry'[q] = entry[q] /\ copy'[q] = copy[q]
             /\ todo'[q] = todo[q] /\ cur'[q] = cur[q]
          \/ pc'[q] = "idle" /\ entry'[q] = InitialRow
    BY <1>1 DEF Forget
  <1>4. HistoryMatchesVersions' /\ NoLostCommit' /\ OperationsFollowRow'
    BY <1>1 DEF IInv, HistoryMatchesVersions, NoLostCommit, OperationsFollowRow
  <1>5. EntriesAreRowOrOlder'
    <2>1. /\ row.version \in Nat /\ row.version >= 1
          /\ row.version = 1 => row = InitialRow
      BY DEF IInv, TypeOK, Rows
    <2>2. InitialRow.version = 1  BY DEF InitialRow
    <2> QED  BY <1>1, <1>3, <2>1, <2>2 DEF IInv, EntriesAreRowOrOlder
  <1>6. LoopsStayInside'  BY <1>0, <1>1, <1>3 DEF LoopsStayInside, AtOperation
  <1>7. ReadBeforeCas'  BY <1>0, <1>1, <1>3 DEF ReadBeforeCas
  <1> QED  BY <1>1, <1>2, <1>4, <1>5, <1>6, <1>7 DEF IInv

LEMMA EditIInv == IInv /\ Edit => IInv'
  <1> SUFFICES ASSUME IInv, Edit PROVE IInv'  OBVIOUS
  <1>1. TypeOK'
    <2>1. disk' \in [Files -> Contents \union {Missing}]  BY DEF IInv, TypeOK, Edit
    <2>2. edits' \in Nat  BY DEF IInv, TypeOK, Edit
    <2> QED  BY <2>1, <2>2 DEF IInv, TypeOK, Edit, local
  <1>2. UNCHANGED <<row, ops, acked, pc, entry, copy, todo, cur>>  BY DEF Edit, local
  <1> QED
    BY <1>1, <1>2
    DEF IInv, HistoryMatchesVersions, NoLostCommit, OperationsFollowRow,
        EntriesAreRowOrOlder, LoopsStayInside, ReadBeforeCas

LEMMA StutterIInv == IInv /\ UNCHANGED vars => IInv'
  BY DEF vars, local, faults, IInv, TypeOK, HistoryMatchesVersions, NoLostCommit,
         OperationsFollowRow, EntriesAreRowOrOlder, LoopsStayInside, ReadBeforeCas

-----------------------------------------------------------------------------
\* The inductive invariant holds in every state: a process's step keeps each of
\* its parts, crashes only forget, and edits touch nothing but the disk.
THEOREM Inductive == Spec => []IInv
  <1>1. IInv /\ [Next]_vars => IInv'
    <2> SUFFICES ASSUME IInv, [Next]_vars PROVE IInv'  OBVIOUS
    <2>1. ASSUME NEW p \in Procs, Start(p) \/ Step(p) PROVE IInv'
      BY <2>1, StepTypeOK, StepHistory, StepAcked, StepEntries, StepLoops, StepReads DEF IInv
    <2>2. ASSUME NEW S \in OsProcesses, Crash(S) PROVE IInv'  BY <2>2, CrashIInv
    <2> QED  BY <2>1, <2>2, EditIInv, StutterIInv DEF Next
  <1> QED  BY <1>1, InitIInv, PTL DEF Spec

\* Files, row, journal and the local variables of every process keep their
\* shape, however many processes run and whatever is lost in crashes.
THEOREM TypeCorrect == Spec => []TypeOK
  BY Inductive, PTL DEF IInv

\* A change that was acknowledged is never lost from the version history: the
\* compare-and-swap makes concurrent commits and reconciliations exclude each
\* other without the repository lock.
THEOREM AcknowledgedIsKept == Spec => []NoLostCommit
  BY Inductive, PTL DEF IInv

\* current_version always counts the history, and every entry of the history
\* is the operation that was journaled for that version.
THEOREM HistoryIsConsistent == Spec => []HistoryMatchesVersions
  BY Inductive, PTL DEF IInv

\* Every change of the row appends one operation and adds one to the version.
THEOREM OnlyCommitsChangeTheRow == Spec => RowChangesAreCommits
  <1> DEFINE Grows == /\ row'.version = row.version + 1
                      /\ \E id \in 1..Len(ops) : row'.history = Append(row.history, id)
  <1>1. IInv /\ [Next]_vars => [Grows]_row
    <2> SUFFICES ASSUME IInv, [Next]_vars PROVE [Grows]_row  OBVIOUS
    <2>1. ASSUME NEW p \in Procs, Start(p) \/ Step(p) PROVE [Grows]_row
      BY <2>1, RowStep DEF RowGrows
    <2>2. ASSUME NEW S \in OsProcesses, Crash(S) PROVE [Grows]_row  BY <2>2 DEF Crash
    <2>3. CASE Edit \/ UNCHANGED vars  BY <2>3 DEF Edit, vars
    <2> QED  BY <2>1, <2>2, <2>3 DEF Next
  <1> QED  BY <1>1, Inductive, PTL DEF Spec, RowChangesAreCommits

-----------------------------------------------------------------------------
\* The commit protocol implements the abstract version history: a successful
\* compare-and-swap is Record, a success told to a caller is Acknowledge, and
\* everything else the processes, crashes and edits do is invisible.
THEOREM Implements == Spec => ImplementsVersionedHistory
  <1>1. Init => VH!Init  BY DEF Init, VH!Init, InitialRow
  <1>2. IInv /\ [Next]_vars => [VH!Next]_(VH!vars)
    <2> SUFFICES ASSUME IInv, [Next]_vars PROVE [VH!Next]_(VH!vars)  OBVIOUS
    <2> USE DEF VH!vars
    <2>0. /\ Len(ops) \in Nat /\ Len(ops) <= MaxOps /\ MaxOps \in Nat
          /\ row.version \in Nat /\ row.version >= 1 /\ row.version = Len(row.history)
      BY BoundAssumption DEF IInv, TypeOK, Rows, HistoryMatchesVersions
    <2>1. ASSUME NEW p \in Procs, Start(p) \/ Step(p) PROVE [VH!Next]_(VH!vars)
      <3>1. CASE Complete(p)
        <4>1. /\ cur[p] \in 1..Len(ops) /\ ops[cur[p]].version = entry[p].version
              /\ row.history[entry[p].version] = cur[p]
              /\ entry[p].version \in 1..row.version
              /\ entry[p].version = row.version => entry[p] = row
          BY <3>1 DEF Complete, IInv, LoopsStayInside, AtOperation, ReadBeforeCas,
                      EntriesAreRowOrOlder
        <4>2. UNCHANGED row  BY <3>1, <4>1 DEF Complete, StoredVersionIs
        <4>3. CASE acked' = acked \union {cur[p]}
          <5>1. VH!InHistory(cur[p])  BY <2>0, <4>1 DEF VH!InHistory
          <5>2. VH!Acknowledge(cur[p])  BY <4>2, <4>3, <5>1 DEF VH!Acknowledge
          <5>3. cur[p] \in 1..MaxOps  BY <2>0, <4>1
          <5> QED  BY <5>2, <5>3 DEF VH!Next
        <4>4. CASE UNCHANGED acked  BY <4>2, <4>4
        <4> QED  BY <3>1, <4>3, <4>4 DEF Complete
      <3>2. CASE UNCHANGED acked
        <4>1. CASE UNCHANGED row  BY <3>2, <4>1
        <4>2. CASE RowGrows(cur[p])
          <5>1. cur[p] \in 1..MaxOps  BY <2>0, <4>2 DEF RowGrows
          <5>2. ~ VH!InHistory(cur[p])
            <6> SUFFICES ASSUME NEW i \in 1..Len(row.history), row.history[i] = cur[p]
                         PROVE  FALSE
              BY DEF VH!InHistory
            <6>1. i # 1  BY <5>1 DEF IInv, HistoryMatchesVersions
            <6>2. ops[row.history[i]].version = i
              BY <2>0, <6>1 DEF IInv, HistoryMatchesVersions
            <6> QED  BY <2>0, <4>2, <6>2 DEF RowGrows
          <5>3. VH!Record(cur[p])  BY <3>2, <4>2, <5>2 DEF VH!Record, RowGrows
          <5> QED  BY <5>1, <5>3 DEF VH!Next
        <4> QED  BY <2>1, <4>1, <4>2, RowStep
      <3> QED
        BY <2>1, <3>1, <3>2
        DEF Start, Step, NextPending, ReconcileDone, MatchAfter, MatchBefore,
            Reverify, ReconcileCommit, ReconcileUndo, ReconcileDrop, AcquireLock, ReadEntry,
            ReadLive, Refuse, JournalChange, Backup, WriteFile, WriteFails, UndoWrite,
            Commit, Complete, UndoConflict, DropPending, Finish
    <2>2. ASSUME NEW S \in OsProcesses, Crash(S) PROVE [VH!Next]_(VH!vars)
      BY <2>2 DEF Crash
    <2>3. CASE Edit \/ UNCHANGED vars  BY <2>3 DEF Edit, vars
    <2> QED  BY <2>1, <2>2, <2>3 DEF Next
  <1> QED  BY <1>1, <1>2, Inductive, PTL DEF Spec, VH!Spec, ImplementsVersionedHistory
-----------------------------------------------------------------------------
(* What a command commits on top of.                                        *)

\* A command's operation starts from the content its entry records: its drift check
\* compared the two, and neither changes until it commits.
BuildsOnRead ==
    \A p \in Cli : pc[p] \in {"backup", "write"} => ops[cur[p]].before = entry[p].hash

LEMMA StepBuilds ==
  ASSUME IInv, BuildsOnRead, NEW p \in Procs, Start(p) \/ Step(p)
  PROVE  BuildsOnRead'
  <1>0. TypeOK /\ LoopsStayInside  BY DEF IInv
  <1> SUFFICES ASSUME NEW q \in Cli, pc'[q] \in {"backup", "write"}
               PROVE  ops'[cur'[q]].before = entry'[q].hash
    BY DEF BuildsOnRead
  <1>1. q \in Procs  BY DEF Procs
  <1>2. CASE /\ pc[q] \in {"backup", "write"}
             /\ cur'[q] = cur[q] /\ entry'[q] = entry[q]
    <2>1. ops'[cur[q]] = ops[cur[q]]
      BY <1>0, <1>1, <1>2, OperationsStay DEF LoopsStayInside, AtOperation
    <2> QED  BY <1>2, <2>1 DEF BuildsOnRead
  <1>3. CASE q # p  BY <1>1, <1>2, <1>3, OthersUntouched
  <1>4. CASE q = p /\ JournalChange(p)
    <2>1. cur'[p] = Len(ops) + 1 /\ entry'[p] = entry[p]
      BY <1>0, <1>4 DEF JournalChange, TypeOK
    <2>2. p \notin Tools  BY <1>4, ProcessAssumption
    <2>3. /\ ~ Drifted(p)
          /\ \E op : op.before = copy[p] /\ ops' = Append(ops, op)
      BY <1>4, <2>2 DEF JournalChange
    <2>4. PICK op : op.before = copy[p] /\ ops' = Append(ops, op)  BY <2>3
    <2>5. ops'[Len(ops) + 1] = op  BY <1>0, <2>4 DEF TypeOK
    <2> QED  BY <1>4, <2>1, <2>3, <2>4, <2>5 DEF Drifted
  <1>5. CASE q = p /\ (Backup(p) \/ WriteFile(p))
    <2>1. pc[p] \in {"backup", "write"} /\ cur'[p] = cur[p] /\ entry'[p] = entry[p]
      BY <1>5 DEF Backup, WriteFile
    <2> QED  BY <1>2, <1>5, <2>1
  <1>6. ASSUME q = p, ~ JournalChange(p), ~ Backup(p), ~ WriteFile(p) PROVE FALSE
    BY <1>0, <1>6
    DEF TypeOK, Goto, Forget,
        Start, Step, NextPending, ReconcileDone, MatchAfter, MatchBefore,
        Reverify, ReconcileCommit, ReconcileUndo, ReconcileDrop, AcquireLock, ReadEntry,
        ReadLive, Refuse, WriteFails, UndoWrite,
        Commit, Complete, UndoConflict, DropPending, Finish
  <1> QED  BY <1>3, <1>4, <1>5, <1>6

\* A command commits only on top of the content that the version it replaces
\* records, whatever other commands, tool calls and edits do between its drift
\* check and its compare-and-swap.
THEOREM BuiltOnCurrent == Spec => CommitsBuildOnCurrent
  <1> DEFINE OnCurrent == \A p \in Cli : pc[p] = "write" /\ pc'[p] = "complete"
                                           => ops[cur[p]].before = row.hash
  <1>1. Init => BuildsOnRead  BY DEF Init, BuildsOnRead, Procs
  <1>2. IInv /\ BuildsOnRead /\ [Next]_vars => BuildsOnRead'
    <2> SUFFICES ASSUME IInv, BuildsOnRead, [Next]_vars PROVE BuildsOnRead'  OBVIOUS
    <2>1. ASSUME NEW p \in Procs, Start(p) \/ Step(p) PROVE BuildsOnRead'
      BY <2>1, StepBuilds
    <2>2. ASSUME NEW S \in OsProcesses, Crash(S) PROVE BuildsOnRead'
      BY <2>2 DEF Crash, Forget, BuildsOnRead, Procs
    <2>3. CASE Edit \/ UNCHANGED vars  BY <2>3 DEF Edit, vars, local, BuildsOnRead
    <2> QED  BY <2>1, <2>2, <2>3 DEF Next
  <1>3. IInv /\ BuildsOnRead /\ [Next]_vars => [OnCurrent]_vars
    <2> SUFFICES ASSUME IInv, BuildsOnRead, [Next]_vars,
                        NEW p \in Cli, pc[p] = "write", pc'[p] = "complete"
                 PROVE  ops[cur[p]].before = row.hash
      OBVIOUS
    <2>0. p \in Procs /\ TypeOK  BY DEF Procs, IInv
    <2>1. Commit(p)
      <3>1. PICK q \in Procs : Start(q) \/ Step(q)
        <4>1. ASSUME NEW S, Crash(S) PROVE pc'[p] \in {pc[p], "idle"}
          BY <2>0, <4>1 DEF Crash, Forget
        <4>2. CASE Edit \/ UNCHANGED vars  BY <4>2 DEF Edit, vars, local
        <4> QED  BY <4>1, <4>2 DEF Next
      <3>2. q = p  BY <2>0, <3>1, OthersUntouched
      <3> QED
        BY <2>0, <3>1, <3>2
        DEF TypeOK, Goto, Forget,
            Start, Step, NextPending, ReconcileDone, MatchAfter, MatchBefore,
            Reverify, ReconcileCommit, ReconcileUndo, ReconcileDrop, AcquireLock, ReadEntry,
            ReadLive, Refuse, JournalChange, Backup, WriteFile, WriteFails, UndoWrite,
            Complete, UndoConflict, DropPending, Finish
    <2>2. row.version = ops[cur[p]].version - 1
      BY <2>0, <2>1 DEF Commit, StoredVersionIs, Goto, TypeOK
    <2>3. /\ ops[cur[p]].version = entry[p].version + 1
          /\ entry[p].version \in Nat
          /\ entry[p].version = row.version => entry[p] = row
      BY <2>0 DEF IInv, ReadBeforeCas, EntriesAreRowOrOlder, TypeOK, Rows
    <2>4. entry[p] = row  BY <2>2, <2>3
    <2> QED  BY <2>4 DEF BuildsOnRead
  <1> QED  BY <1>1, <1>2, <1>3, Inductive, PTL DEF Spec, CommitsBuildOnCurrent
-----------------------------------------------------------------------------
(* Serial use: the files.                                                   *)

\* What the repository lock is there for, though a command reconciles before it takes
\* the lock (cli.ts:334), so that the lock alone does not give it.  One process runs
\* at a time, kills and failing statements at any moment included; no tool call works
\* on the component; changes rewrite the component's files, as modify does; nobody
\* edits them outside Purix.  Without any one of these the properties below fail.
SerialUse ==
    /\ \A p, q \in Procs : pc[p] # "idle" /\ pc[q] # "idle" => p = q
    /\ \A t \in Tools : pc[t] # "read"
    /\ \A id \in 1..Len(ops) : DOMAIN ops[id].after \subseteq Tracked
    /\ edits = 0

(* Then snapshots are of all the files the component owns, and at most one     *)
(* journal row is not yet in the history.                                      *)

Own == [Tracked -> Contents]

OwnFiles ==
    /\ row.files = Tracked /\ row.hash \in Own
    /\ \A f \in Tracked : disk[f] \in Contents
    /\ \A id \in 1..Len(ops) : ops[id].before \in Own /\ ops[id].after \in Own

\* Journal rows whose operation is not in the history.
Pending == {id \in journal : ~ InHistory(id)}

\* Only the last that was journaled can be one, and it was made from the present version.
OneIsPending ==
    /\ Pending \subseteq {Len(ops)}
    /\ \A id \in Pending : ops[id].version = row.version + 1 /\ ops[id].before = row.hash

\* The present version was rejected after it had been committed, and some rejected
\* operation is being undone, was left half undone, or is undone.
WasRejected ==
    /\ \E id \in rejected : ops[id].after = row.hash
    /\ \E id \in rejected : id \in journal \/ OnDisk(ops[id].before)

\* Without a pending one the files are those of the present version, unless it was rejected.
CleanIsSynced == Pending = {} => OnDisk(row.hash) \/ WasRejected

Torn(id) == ~ OnDisk(ops[id].before) /\ ~ OnDisk(ops[id].after)

\* The part of a snapshot that the loop of p has left behind is on disk.
Agrees(s, p) == \A f \in Tracked \ todo[p] : disk[f] = s[f]

AtJournalRow == {"rec_after", "rec_before", "rec_verify", "rec_commit", "rec_undo", "rec_drop"}

\* What reconciliation has found out so far: the pending operation is the last of its
\* list, and torn when the list is done.  What it puts back was rejected.
Reconciles(p) ==
    /\ pc[p] = "rec" => /\ queue[p] \subseteq journal
                        /\ queue[p] # {} => Pending \subseteq queue[p]
                        /\ queue[p] = {} => \A id \in Pending : Torn(id)
    /\ pc[p] \in AtJournalRow =>
         /\ queue[p] \subseteq journal /\ cur[p] \in journal
         /\ Pending \subseteq queue[p] \union {cur[p]}
         /\ \A id \in queue[p] : cur[p] < id
    /\ pc[p] = "rec_after" => todo[p] \subseteq Tracked /\ Agrees(ops[cur[p]].after, p)
    /\ pc[p] = "rec_before" => /\ todo[p] \subseteq Tracked /\ Agrees(ops[cur[p]].before, p)
                               /\ ~ OnDisk(ops[cur[p]].after)
    /\ pc[p] \in {"rec_verify", "rec_commit"} => OnDisk(ops[cur[p]].after)
    /\ pc[p] = "rec_commit" => entry[p] = row
    /\ pc[p] = "rec_undo" =>
         /\ todo[p] \subseteq Tracked /\ Agrees(ops[cur[p]].before, p)
         /\ Pending = {} => cur[p] \in rejected /\ \E id \in rejected : ops[id].after = row.hash
    /\ pc[p] = "rec_drop" => OnDisk(ops[cur[p]].before)

\* What a command knows when it works on its own change.  Its swap never fails.
Works(p) ==
    /\ pc[p] \notin {"undo_conflict", "drop"}
    /\ pc[p] \in {"read", "live", "backup", "write", "undo_write", "complete"} => p \in Cli
    /\ pc[p] \in {"lock", "read", "live"} => \A id \in Pending : Torn(id)
    /\ pc[p] \in {"live", "backup", "write", "complete"} => entry[p] = row
    /\ pc[p] = "live" => /\ todo[p] \subseteq Tracked /\ DOMAIN copy[p] = Tracked \ todo[p]
                         /\ Agrees(copy[p], p)
    /\ pc[p] \in {"backup", "write", "undo_write"} => cur[p] \in Pending
    /\ pc[p] = "write" => Agrees(ops[cur[p]].after, p)
    /\ pc[p] = "complete" => Pending = {} /\ OnDisk(row.hash)

FilesKnown == OwnFiles /\ OneIsPending /\ CleanIsSynced

SerialInv == FilesKnown /\ \A p \in Procs : Reconciles(p) /\ Works(p)

\* The files of a new component are those of its first version.
LEMMA InitSerial == Init => SerialInv
  <1> SUFFICES ASSUME Init PROVE SerialInv  OBVIOUS
  <1>1. OwnFiles
    <2>1. row.files = Tracked /\ row.hash = [f \in Tracked |-> Base] /\ ops = <<>>
      BY DEF Init, InitialRow
    <2>2. \A f \in Tracked : disk[f] = Base  BY DEF Init
    <2> QED  BY <2>1, <2>2, FileAssumption DEF OwnFiles, Own
  <1>2. Pending = {}  BY DEF Init, Pending
  <1>3. OnDisk(row.hash)  BY DEF Init, InitialRow, OnDisk
  <1>4. \A p \in Procs : pc[p] = "idle"  BY DEF Init
  <1> QED
    BY <1>1, <1>2, <1>3, <1>4
    DEF SerialInv, FilesKnown, OneIsPending, CleanIsSynced, Reconciles, Works, AtJournalRow

\* Nobody else runs before or after a step.
LEMMA OthersIdle ==
  ASSUME IInv, SerialUse, SerialUse', NEW p \in Procs, Start(p) \/ Step(p),
         NEW q \in Procs, q # p
  PROVE  pc'[q] = "idle"
  <1>1. pc'[q] = pc[q]  BY OthersUntouched
  <1>2. CASE Start(p)
    <2>1. pc'[p] # "idle"  BY <1>2 DEF Start, Goto, IInv, TypeOK
    <2> QED  BY <2>1 DEF SerialUse
  <1>3. CASE Step(p)
    <2>1. pc[p] # "idle"
      BY <1>3
      DEF Step, NextPending, ReconcileDone, MatchAfter, MatchBefore,
          Reverify, ReconcileCommit, ReconcileUndo, ReconcileDrop, AcquireLock, ReadEntry,
          ReadLive, Refuse, JournalChange, Backup, WriteFile, WriteFails, UndoWrite,
          Commit, Complete, UndoConflict, DropPending, Finish
    <2> QED  BY <1>1, <2>1 DEF SerialUse
  <1> QED  BY <1>2, <1>3

\* A step that touches neither files nor row nor journal leaves what is known of them.
LEMMA FilesStay ==
  ASSUME FilesKnown, UNCHANGED <<disk, row, ops, journal, rejected>>
  PROVE  /\ FilesKnown'
         /\ Pending' = Pending
         /\ \A id : Torn(id)' <=> Torn(id)
  BY DEF FilesKnown, OwnFiles, OneIsPending, CleanIsSynced, WasRejected, Pending, InHistory,
         OnDisk, Torn

\* The snapshots of an operation under way are of all the files.
LEMMA OperationOwn ==
  ASSUME IInv, FilesKnown, NEW p \in Procs, pc[p] \in AtOperation
  PROVE  /\ cur[p] \in 1..Len(ops)
         /\ ops[cur[p]].before \in Own /\ DOMAIN ops[cur[p]].before = Tracked
         /\ ops[cur[p]].after \in Own /\ DOMAIN ops[cur[p]].after = Tracked
  <1>1. cur[p] \in 1..Len(ops)  BY DEF IInv, LoopsStayInside
  <1> QED  BY <1>1 DEF FilesKnown, OwnFiles, Own

\* While reconciliation works on the pending operation its list is at the end.
LEMMA PendingIsLast ==
  ASSUME IInv, SerialInv, NEW p \in Procs, pc[p] \in AtJournalRow
  PROVE  /\ cur[p] \in Pending => queue[p] = {} /\ Pending = {cur[p]}
         /\ cur[p] \notin Pending => Pending \subseteq queue[p]
  <1>1. /\ queue[p] \subseteq journal /\ cur[p] \in journal
        /\ Pending \subseteq queue[p] \union {cur[p]}
        /\ \A id \in queue[p] : cur[p] < id
    BY DEF SerialInv, Reconciles
  <1>2. journal \subseteq 1..Len(ops) /\ Len(ops) \in Nat /\ Pending \subseteq {Len(ops)}
    BY DEF IInv, TypeOK, SerialInv, FilesKnown, OneIsPending
  <1>3. ASSUME cur[p] \in Pending PROVE queue[p] = {} /\ Pending = {cur[p]}
    <2>1. cur[p] = Len(ops)  BY <1>2, <1>3
    <2>2. ASSUME NEW id \in queue[p] PROVE FALSE
      <3>1. id \in 1..Len(ops) /\ Len(ops) < id  BY <1>1, <1>2, <2>1
      <3> QED  BY <1>2, <3>1
    <2> QED  BY <1>2, <1>3, <2>1, <2>2
  <1> QED  BY <1>1, <1>3

\* Reconciliation looks at the files and the journal, and changes its mind only.
LEMMA ReconcileLooks ==
  ASSUME IInv, SerialInv, NEW p \in Procs,
         \/ Start(p) \/ NextPending(p) \/ ReconcileDone(p)
         \/ MatchAfter(p) \/ MatchBefore(p),
         SerialUse'
  PROVE  FilesKnown' /\ Reconciles(p)' /\ Works(p)'
  <1>0. TypeOK /\ FilesKnown /\ Reconciles(p) /\ Works(p)  BY DEF IInv, SerialInv
  <1>1. UNCHANGED <<disk, row, ops, journal, rejected>>
    BY DEF Start, NextPending, ReconcileDone, MatchAfter, MatchBefore, faults
  <1>2. FilesKnown' /\ Pending' = Pending /\ \A id : Torn(id)' <=> Torn(id)
    BY <1>0, <1>1, FilesStay
  <1>3. \A id \in 1..Len(ops) : /\ DOMAIN ops[id].before = Tracked
                               /\ DOMAIN ops[id].after = Tracked
    BY <1>0 DEF FilesKnown, OwnFiles, Own
  <1>4. journal \subseteq 1..Len(ops) /\ Len(ops) \in Nat  BY <1>0 DEF TypeOK
  <1>5. CASE Start(p)
    <2>1. \/ pc'[p] = "rec" /\ queue'[p] = journal
          \/ pc'[p] = "read" /\ p \in Tools
      BY <1>0, <1>5 DEF Start, Goto, TypeOK
    <2>2. pc'[p] = "rec"  BY <2>1 DEF SerialUse
    <2> QED
      BY <1>1, <1>2, <2>1, <2>2 DEF Reconciles, Works, AtJournalRow, Pending
  <1>6. CASE NextPending(p)
    <2>1. PICK id \in queue[p] :
            /\ \A i \in queue[p] : id <= i
            /\ queue' = [queue EXCEPT ![p] = @ \ {id}]
            /\ cur' = [cur EXCEPT ![p] = id]
            /\ todo' = [todo EXCEPT ![p] = DOMAIN ops[id].after]
      BY <1>6 DEF NextPending
    <2>2. pc[p] = "rec" /\ pc'[p] = "rec_after"  BY <1>0, <1>6 DEF NextPending, Goto, TypeOK
    <2>3. /\ queue'[p] = queue[p] \ {id} /\ cur'[p] = id
          /\ todo'[p] = DOMAIN ops[id].after
      BY <1>0, <2>1 DEF TypeOK
    <2>4. queue[p] \subseteq journal /\ Pending \subseteq queue[p]
      BY <1>0, <2>1, <2>2 DEF Reconciles
    <2>5. todo'[p] = Tracked  BY <1>3, <1>4, <2>3, <2>4
    <2>6. Agrees(ops[cur[p]].after, p)'  BY <2>5 DEF Agrees
    <2>7. \A i \in queue'[p] : cur'[p] < i
      <3> SUFFICES ASSUME NEW i \in queue[p], i # id PROVE id < i  BY <2>3
      <3>1. i \in queue[p] /\ id \in queue[p] /\ id <= i  BY <2>1
      <3>2. i \in 1..Len(ops) /\ id \in 1..Len(ops)  BY <1>4, <2>4, <3>1
      <3> QED  BY <1>4, <3>1, <3>2
    <2> QED
      BY <1>1, <1>2, <2>2, <2>3, <2>4, <2>5, <2>6, <2>7
      DEF Reconciles, Works, AtJournalRow
  <1>7. CASE ReconcileDone(p)
    <2>1. pc'[p] \in {"lock", "done"} /\ pc[p] = "rec" /\ queue[p] = {}
      BY <1>0, <1>7 DEF ReconcileDone, Goto, TypeOK
    <2> QED  BY <1>0, <1>2, <2>1 DEF Reconciles, Works, AtJournalRow
  <1>8. CASE MatchAfter(p)
    <2>0. pc[p] = "rec_after" /\ UNCHANGED <<cur, queue, entry, copy>>
      BY <1>8 DEF MatchAfter
    <2>1. /\ DOMAIN ops[cur[p]].after = Tracked /\ DOMAIN ops[cur[p]].before = Tracked
      BY <1>0, <2>0, OperationOwn DEF AtOperation
    <2>2. CASE \E f \in todo[p] : /\ disk[f] = ops[cur[p]].after[f]
                                 /\ todo' = [todo EXCEPT ![p] = @ \ {f}] /\ UNCHANGED pc
      <3>1. PICK f \in todo[p] : disk[f] = ops[cur[p]].after[f] /\ todo'[p] = todo[p] \ {f}
        BY <1>0, <2>2 DEF TypeOK
      <3>2. Agrees(ops[cur[p]].after, p)'
        BY <1>0, <1>1, <2>0, <3>1 DEF Agrees, Reconciles
      <3> QED
        BY <1>0, <1>1, <1>2, <2>0, <2>2, <3>1, <3>2 DEF Reconciles, Works, AtJournalRow
    <2>3. CASE \E f \in todo[p] : /\ disk[f] # ops[cur[p]].after[f]
                                 /\ todo' = [todo EXCEPT ![p] = DOMAIN ops[cur[p]].before]
                                 /\ Goto(p, "rec_before")
      <3>1. pc'[p] = "rec_before" /\ todo'[p] = Tracked
        BY <1>0, <2>1, <2>3 DEF Goto, TypeOK
      <3>2. ~ OnDisk(ops[cur[p]].after)
        BY <1>0, <2>0, <2>1, <2>3 DEF OnDisk, Reconciles
      <3>3. (~ OnDisk(ops[cur[p]].after))'  BY <1>1, <2>0, <3>2 DEF OnDisk
      <3>4. Agrees(ops[cur[p]].before, p)'  BY <3>1 DEF Agrees
      <3> QED
        BY <1>0, <1>1, <1>2, <2>0, <3>1, <3>3, <3>4 DEF Reconciles, Works, AtJournalRow
    <2>4. CASE todo[p] = {} /\ Goto(p, "rec_verify")
      <3>1. pc'[p] = "rec_verify"  BY <1>0, <2>4 DEF Goto, TypeOK
      <3>2. OnDisk(ops[cur[p]].after)'
        BY <1>0, <1>1, <2>0, <2>1, <2>4 DEF OnDisk, Agrees, Reconciles
      <3> QED  BY <1>0, <1>1, <1>2, <2>0, <3>1, <3>2 DEF Reconciles, Works, AtJournalRow
    <2> QED  BY <1>8, <2>2, <2>3, <2>4 DEF MatchAfter
  <1>9. CASE MatchBefore(p)
    <2>0. pc[p] = "rec_before" /\ UNCHANGED <<cur, queue, entry, copy>>
      BY <1>9 DEF MatchBefore
    <2>1. DOMAIN ops[cur[p]].before = Tracked
      BY <1>0, <2>0, OperationOwn DEF AtOperation
    <2>2. (~ OnDisk(ops[cur[p]].after))'
      BY <1>0, <1>1, <2>0 DEF OnDisk, Reconciles
    <2>3. CASE \E f \in todo[p] : /\ disk[f] = ops[cur[p]].before[f]
                                 /\ todo' = [todo EXCEPT ![p] = @ \ {f}] /\ UNCHANGED pc
      <3>1. PICK f \in todo[p] : disk[f] = ops[cur[p]].before[f] /\ todo'[p] = todo[p] \ {f}
        BY <1>0, <2>3 DEF TypeOK
      <3>2. Agrees(ops[cur[p]].before, p)'
        BY <1>0, <1>1, <2>0, <3>1 DEF Agrees, Reconciles
      <3> QED
        BY <1>0, <1>1, <1>2, <2>0, <2>2, <2>3, <3>1, <3>2 DEF Reconciles, Works, AtJournalRow
    <2>4. CASE \E f \in todo[p] : /\ disk[f] # ops[cur[p]].before[f]
                                 /\ todo' = [todo EXCEPT ![p] = {}] /\ Goto(p, "rec")
      <3>1. pc'[p] = "rec"  BY <1>0, <2>4 DEF Goto, TypeOK
      <3>2. Torn(cur[p])  BY <1>0, <2>0, <2>1, <2>4 DEF OnDisk, Torn, Reconciles
      <3>3. /\ cur[p] \in Pending => queue[p] = {} /\ Pending = {cur[p]}
            /\ cur[p] \notin Pending => Pending \subseteq queue[p]
        BY <2>0, PendingIsLast DEF AtJournalRow
      <3> QED
        BY <1>0, <1>1, <1>2, <2>0, <3>1, <3>2, <3>3 DEF Reconciles, Works, AtJournalRow
    <2>5. CASE todo[p] = {} /\ Goto(p, "rec_drop")
      <3>1. pc'[p] = "rec_drop"  BY <1>0, <2>5 DEF Goto, TypeOK
      <3>2. OnDisk(ops[cur[p]].before)'
        BY <1>0, <1>1, <2>0, <2>1, <2>5 DEF OnDisk, Agrees, Reconciles
      <3> QED  BY <1>0, <1>1, <1>2, <2>0, <3>1, <3>2 DEF Reconciles, Works, AtJournalRow
    <2> QED  BY <1>9, <2>3, <2>4, <2>5 DEF MatchBefore
  <1> QED  BY <1>5, <1>6, <1>7, <1>8, <1>9

\* Two snapshots of all the files that are both on disk are the same.
LEMMA SameOnDisk ==
  ASSUME NEW s \in Own, NEW t \in Own, OnDisk(s), OnDisk(t)
  PROVE  s = t
  <1>1. /\ s \in [Tracked -> Contents] /\ t \in [Tracked -> Contents]
        /\ \A f \in Tracked : s[f] = t[f]
    BY DEF Own, OnDisk
  <1> QED  BY <1>1

\* Verification passes, or rejects an operation; one that was committed then had the
\* files of the present version, unless that was rejected before.
LEMMA ReconcileVerifies ==
  ASSUME IInv, SerialInv, NEW p \in Procs, Reverify(p)
  PROVE  FilesKnown' /\ Reconciles(p)' /\ Works(p)'
  <1>0. TypeOK /\ FilesKnown /\ Reconciles(p) /\ Works(p)  BY DEF IInv, SerialInv
  <1>1. pc[p] = "rec_verify" /\ UNCHANGED <<disk, row, ops, journal, cur, queue, copy>>
    BY DEF Reverify
  <1>2. /\ OnDisk(ops[cur[p]].after) /\ OnDisk(ops[cur[p]].after)'
        /\ queue[p] \subseteq journal /\ cur[p] \in journal
        /\ Pending \subseteq queue[p] \union {cur[p]}
        /\ \A id \in queue[p] : cur[p] < id
    BY <1>0, <1>1 DEF OnDisk, Reconciles, AtJournalRow
  <1>3. Pending' = Pending  BY <1>1 DEF Pending, InHistory
  <1>4. CASE Goto(p, "rec_commit") /\ entry' = [entry EXCEPT ![p] = row] /\ UNCHANGED rejected
    <2>1. pc'[p] = "rec_commit" /\ entry'[p] = row  BY <1>0, <1>4 DEF Goto, TypeOK
    <2>2. FilesKnown'  BY <1>0, <1>1, <1>4, FilesStay
    <2> QED  BY <1>1, <1>2, <1>3, <2>1, <2>2 DEF Reconciles, Works, AtJournalRow
  <1>5. CASE /\ todo' = [todo EXCEPT ![p] = DOMAIN ops[cur[p]].before]
             /\ rejected' = rejected \union {id \in {cur[p]} : InHistory(id)}
             /\ Goto(p, "rec_undo")
    <2>1. /\ DOMAIN ops[cur[p]].before = Tracked /\ ops[cur[p]].after \in Own
          /\ row.hash \in Own
      BY <1>0, <1>1, OperationOwn DEF AtOperation, FilesKnown, OwnFiles
    <2>2. pc'[p] = "rec_undo" /\ todo'[p] = Tracked /\ rejected \subseteq rejected'
      BY <1>0, <1>5, <2>1 DEF Goto, TypeOK
    <2>3. Agrees(ops[cur[p]].before, p)'  BY <2>2 DEF Agrees
    <2>4. Pending = {} => /\ cur[p] \in rejected'
                          /\ \E id \in rejected' : ops[id].after = row.hash
      <3> SUFFICES ASSUME Pending = {}
                   PROVE  /\ cur[p] \in rejected'
                          /\ \E id \in rejected' : ops[id].after = row.hash
        OBVIOUS
      <3>1. cur[p] \in rejected'  BY <1>2, <1>5 DEF Pending
      <3>2. CASE OnDisk(row.hash)
        <4>1. ops[cur[p]].after = row.hash  BY <1>2, <2>1, <3>2, SameOnDisk
        <4> QED  BY <3>1, <4>1
      <3>3. CASE ~ OnDisk(row.hash)
        BY <1>0, <2>2, <3>1, <3>3 DEF FilesKnown, CleanIsSynced, WasRejected
      <3> QED  BY <3>2, <3>3
    <2>5. FilesKnown'
      <3>1. OwnFiles' /\ OneIsPending'
        BY <1>0, <1>1, <1>3 DEF FilesKnown, OwnFiles, OneIsPending
      <3>2. CleanIsSynced'
        BY <1>0, <1>1, <1>2, <1>3, <2>4 DEF CleanIsSynced, WasRejected
      <3> QED  BY <3>1, <3>2 DEF FilesKnown
    <2> QED
      BY <1>1, <1>2, <1>3, <2>2, <2>3, <2>4, <2>5 DEF Reconciles, Works, AtJournalRow
  <1> QED  BY <1>4, <1>5 DEF Reverify

\* The files of a rejected operation are put back one by one; if it was committed, and
\* none is pending, it stands in the journal until that is done.
LEMMA ReconcilePutsBack ==
  ASSUME IInv, SerialInv, NEW p \in Procs, ReconcileUndo(p)
  PROVE  FilesKnown' /\ Reconciles(p)' /\ Works(p)'
  <1>0. TypeOK /\ FilesKnown /\ Reconciles(p) /\ Works(p)  BY DEF IInv, SerialInv
  <1>1. /\ pc[p] = "rec_undo"
        /\ UNCHANGED <<row, ops, journal, entry, copy, cur, queue, rejected>>
    BY DEF ReconcileUndo, faults
  <1>2. /\ queue[p] \subseteq journal /\ cur[p] \in journal
        /\ Pending \subseteq queue[p] \union {cur[p]}
        /\ \A id \in queue[p] : cur[p] < id
        /\ todo[p] \subseteq Tracked /\ Agrees(ops[cur[p]].before, p)
        /\ Pending = {} => cur[p] \in rejected /\ \E id \in rejected : ops[id].after = row.hash
    BY <1>0, <1>1 DEF Reconciles, AtJournalRow
  <1>3. Pending' = Pending  BY <1>1 DEF Pending, InHistory
  <1>4. ops[cur[p]].before \in Own /\ DOMAIN ops[cur[p]].before = Tracked
    BY <1>0, <1>1, OperationOwn DEF AtOperation
  <1>5. ASSUME \A f \in Tracked : disk'[f] \in Contents
        PROVE  FilesKnown'
    <2>1. OwnFiles' /\ OneIsPending'
      BY <1>0, <1>1, <1>3, <1>5 DEF FilesKnown, OwnFiles, OneIsPending
    <2>2. CleanIsSynced'  BY <1>1, <1>2, <1>3 DEF CleanIsSynced, WasRejected
    <2> QED  BY <2>1, <2>2 DEF FilesKnown
  <1>6. CASE \E f \in todo[p] : /\ disk' = [disk EXCEPT ![f] = ops[cur[p]].before[f]]
                               /\ todo' = [todo EXCEPT ![p] = @ \ {f}]
                               /\ UNCHANGED pc
    <2>1. PICK f \in todo[p] : /\ disk' = [disk EXCEPT ![f] = ops[cur[p]].before[f]]
                              /\ todo' = [todo EXCEPT ![p] = @ \ {f}]
      BY <1>6
    <2>2. todo'[p] = todo[p] \ {f} /\ f \in Tracked /\ pc'[p] = "rec_undo"
      BY <1>0, <1>1, <1>2, <1>6, <2>1 DEF TypeOK
    <2>3. \A g \in Tracked : disk'[g] = IF g = f THEN ops[cur[p]].before[f] ELSE disk[g]
      BY <1>0, <2>1, FileAssumption DEF TypeOK
    <2>4. Agrees(ops[cur[p]].before, p)'  BY <1>1, <1>2, <2>2, <2>3 DEF Agrees
    <2>5. FilesKnown'
      <3>1. \A g \in Tracked : disk'[g] \in Contents
        BY <1>0, <1>4, <2>3 DEF FilesKnown, OwnFiles, Own
      <3> QED  BY <1>5, <3>1
    <2> QED
      BY <1>1, <1>2, <1>3, <2>2, <2>4, <2>5 DEF Reconciles, Works, AtJournalRow
  <1>7. CASE todo[p] = {} /\ Goto(p, "rec_drop") /\ UNCHANGED <<disk, todo>>
    <2>1. pc'[p] = "rec_drop"  BY <1>0, <1>7 DEF Goto, TypeOK
    <2>2. OnDisk(ops[cur[p]].before)'
      BY <1>1, <1>2, <1>4, <1>7 DEF OnDisk, Agrees
    <2>3. FilesKnown'  BY <1>0, <1>5, <1>7 DEF FilesKnown, OwnFiles
    <2> QED  BY <1>1, <1>2, <1>3, <2>1, <2>2, <2>3 DEF Reconciles, Works, AtJournalRow
  <1>8. CASE Goto(p, "done") /\ UNCHANGED <<disk, todo>>
    <2>1. pc'[p] = "done"  BY <1>0, <1>8 DEF Goto, TypeOK
    <2>2. FilesKnown'  BY <1>0, <1>5, <1>8 DEF FilesKnown, OwnFiles
    <2> QED  BY <2>1, <2>2 DEF Reconciles, Works, AtJournalRow
  <1> QED  BY <1>6, <1>7, <1>8 DEF ReconcileUndo

\* A command takes the lock, reads the component, keeps a copy of the files it will
\* write, gives up or ends: files, row and journal stay.
LEMMA WorkPrepares ==
  ASSUME IInv, SerialInv, SerialUse', NEW p \in Procs,
         \/ AcquireLock(p) \/ ReadEntry(p) \/ ReadLive(p) \/ Refuse(p)
         \/ Backup(p) \/ WriteFails(p) \/ Finish(p)
  PROVE  FilesKnown' /\ Reconciles(p)' /\ Works(p)'
  <1>0. TypeOK /\ FilesKnown /\ Reconciles(p) /\ Works(p)  BY DEF IInv, SerialInv
  <1>1. UNCHANGED <<disk, row, ops, journal, rejected>>
    BY DEF AcquireLock, ReadEntry, ReadLive, Refuse, Backup, WriteFails, Finish, faults
  <1>2. FilesKnown' /\ Pending' = Pending /\ \A id : Torn(id)' <=> Torn(id)
    BY <1>0, <1>1, FilesStay
  <1>3. CASE AcquireLock(p)
    <2>1. pc[p] = "lock"  BY <1>3 DEF AcquireLock
    <2>2. \/ pc'[p] \in {"read", "done"}
          \/ pc'[p] = "rec" /\ queue'[p] = journal
      BY <1>0, <1>3 DEF AcquireLock, Goto, TypeOK
    <2>3. pc'[p] = "read" => p \in Cli  BY DEF SerialUse, Procs
    <2> QED
      BY <1>0, <1>1, <1>2, <2>1, <2>2, <2>3 DEF Reconciles, Works, AtJournalRow, Pending
  <1>4. CASE ReadEntry(p)
    <2>1. pc[p] = "read" /\ p \in Cli  BY <1>0, <1>4 DEF ReadEntry, Works
    <2>2. row.files = Tracked  BY <1>0 DEF FilesKnown, OwnFiles
    <2>3. /\ pc'[p] = "live" /\ entry'[p] = row /\ copy'[p] = NoFiles /\ todo'[p] = Tracked
      BY <1>0, <1>4, <2>2 DEF ReadEntry, Goto, TypeOK
    <2>4. DOMAIN copy'[p] = Tracked \ todo'[p] /\ Agrees(copy[p], p)'
      BY <2>3 DEF NoFiles, Agrees
    <2> QED
      BY <1>0, <1>1, <1>2, <2>1, <2>3, <2>4 DEF Reconciles, Works, AtJournalRow
  <1>5. CASE ReadLive(p)
    <2>1. PICK f \in todo[p] :
              /\ todo' = [todo EXCEPT ![p] = @ \ {f}]
              /\ copy' = [copy EXCEPT ![p] =
                            IF disk[f] = Missing THEN @ ELSE With(@, f, disk[f])]
      BY <1>5 DEF ReadLive
    <2>2. pc[p] = "live" /\ UNCHANGED <<pc, entry, cur, queue>>  BY <1>5 DEF ReadLive
    <2>3. /\ todo[p] \subseteq Tracked /\ DOMAIN copy[p] = Tracked \ todo[p]
          /\ Agrees(copy[p], p) /\ entry[p] = row /\ p \in Cli
          /\ \A id \in Pending : Torn(id)
      BY <1>0, <2>2 DEF Works
    <2>4. disk[f] # Missing
      BY <1>0, <2>1, <2>3, FileAssumption DEF FilesKnown, OwnFiles
    <2>5. todo'[p] = todo[p] \ {f} /\ copy'[p] = With(copy[p], f, disk[f])
      BY <1>0, <2>1, <2>4 DEF TypeOK
    <2>6. /\ DOMAIN copy'[p] = DOMAIN copy[p] \union {f}
          /\ \A g \in DOMAIN copy'[p] :
               copy'[p][g] = IF g = f THEN disk[f] ELSE copy[p][g]
      BY <2>5 DEF With
    <2>7. DOMAIN copy'[p] = Tracked \ todo'[p]  BY <2>1, <2>3, <2>5, <2>6
    <2>8. Agrees(copy[p], p)'  BY <1>1, <2>1, <2>3, <2>5, <2>6, <2>7 DEF Agrees
    <2> QED
      BY <1>0, <1>1, <1>2, <2>2, <2>3, <2>5, <2>7, <2>8 DEF Reconciles, Works, AtJournalRow
  <1>6. CASE Refuse(p) \/ Finish(p)
    <2>1. pc'[p] \in {"done", "idle"}
      BY <1>0, <1>6 DEF Refuse, Finish, Forget, Goto, TypeOK
    <2> QED  BY <1>0, <1>2, <2>1 DEF Reconciles, Works, AtJournalRow
  <1>7. CASE Backup(p)
    <2>1. pc[p] = "backup" /\ UNCHANGED <<entry, cur, queue>>  BY <1>7 DEF Backup
    <2>2. \/ pc'[p] \in {"done", "backup"}
          \/ pc'[p] = "write" /\ todo'[p] = DOMAIN ops[cur[p]].after
      BY <1>0, <1>7 DEF Backup, Goto, TypeOK
    <2>3. DOMAIN ops[cur[p]].after = Tracked
      BY <1>0, <2>1, OperationOwn DEF AtOperation
    <2>4. pc'[p] = "write" => Agrees(ops[cur[p]].after, p)'
      BY <1>1, <2>1, <2>2, <2>3 DEF Agrees
    <2> QED
      BY <1>0, <1>1, <1>2, <2>1, <2>2, <2>4 DEF Reconciles, Works, AtJournalRow
  <1>8. CASE WriteFails(p)
    <2>1. pc[p] = "write" /\ pc'[p] = "undo_write" /\ UNCHANGED <<cur, queue>>
      BY <1>0, <1>8 DEF WriteFails, Goto, TypeOK
    <2> QED  BY <1>0, <1>2, <2>1 DEF Reconciles, Works, AtJournalRow
  <1> QED  BY <1>3, <1>4, <1>5, <1>6, <1>7, <1>8

\* Writing the files, and writing them back: the journal row of the change is
\* pending meanwhile, so nothing is claimed of the disk as a whole.
LEMMA WorkWrites ==
  ASSUME IInv, SerialInv, NEW p \in Procs, WriteFile(p) \/ UndoWrite(p)
  PROVE  FilesKnown' /\ Reconciles(p)' /\ Works(p)'
  <1>0. TypeOK /\ FilesKnown /\ Reconciles(p) /\ Works(p) /\ LoopsStayInside
    BY DEF IInv, SerialInv
  <1>1. UNCHANGED <<row, ops, journal, entry, copy, cur, queue>>  BY DEF WriteFile, UndoWrite
  <1>2. Pending' = Pending  BY <1>1 DEF Pending, InHistory
  <1>3. p \in Cli /\ cur[p] \in Pending  BY <1>0 DEF Works, WriteFile, UndoWrite
  <1>4. /\ cur[p] \in 1..Len(ops)
        /\ ops[cur[p]].after \in Own /\ DOMAIN ops[cur[p]].after = Tracked
    BY <1>0, OperationOwn DEF AtOperation, WriteFile, UndoWrite
  <1>5. \A f \in Tracked : disk'[f] \in Contents
    <2>1. CASE WriteFile(p)
      <3>1. PICK f \in todo[p] : disk' = [disk EXCEPT ![f] = ops[cur[p]].after[f]]
        BY <2>1 DEF WriteFile
      <3>2. f \in Tracked  BY <1>0, <1>4, <2>1 DEF WriteFile, LoopsStayInside
      <3>3. ops[cur[p]].after[f] \in Contents  BY <1>4, <3>2 DEF Own
      <3> QED  BY <1>0, <3>1, <3>3 DEF FilesKnown, OwnFiles, TypeOK
    <2>2. CASE UndoWrite(p)
      <3>1. UNCHANGED disk \/ \E f \in todo[p] : disk' = [disk EXCEPT ![f] = copy[p][f]]
        BY <2>2 DEF UndoWrite
      <3>2. \A f \in todo[p] : copy[p][f] \in Contents
        BY <1>0, <2>2, SnapshotShape DEF UndoWrite, LoopsStayInside, TypeOK
      <3>3. \A f \in Files : disk'[f] = disk[f] \/ disk'[f] \in Contents
        BY <1>0, <3>1, <3>2 DEF TypeOK
      <3> QED  BY <1>0, <3>3, FileAssumption DEF FilesKnown, OwnFiles
    <2> QED  BY <2>1, <2>2
  <1>6. FilesKnown'
    BY <1>0, <1>1, <1>2, <1>3, <1>5
    DEF FilesKnown, OwnFiles, OneIsPending, CleanIsSynced
  <1>7. CASE WriteFile(p)
    <2>1. PICK f \in todo[p] : /\ disk' = [disk EXCEPT ![f] = ops[cur[p]].after[f]]
                              /\ todo' = [todo EXCEPT ![p] = @ \ {f}]
      BY <1>7 DEF WriteFile
    <2>2. pc[p] = "write" /\ pc' = pc  BY <1>7 DEF WriteFile
    <2>3. todo'[p] = todo[p] \ {f} /\ f \in Files  BY <1>0, <2>1 DEF TypeOK
    <2>4. \A g \in Files : disk'[g] = IF g = f THEN ops[cur[p]].after[f] ELSE disk[g]
      BY <1>0, <2>1 DEF TypeOK
    <2>5. Agrees(ops[cur[p]].after, p)'
      BY <1>0, <1>1, <2>2, <2>3, <2>4, FileAssumption DEF Agrees, Works
    <2>6. cur'[p] \in Pending' /\ entry'[p] = row' /\ pc'[p] = "write"
      BY <1>0, <1>1, <1>2, <1>3, <2>2 DEF Works
    <2> QED  BY <1>3, <1>6, <2>5, <2>6 DEF Reconciles, Works, AtJournalRow
  <1>8. CASE UndoWrite(p)
    <2>1. pc[p] = "undo_write" /\ pc'[p] \in {"undo_write", "done"}
      BY <1>0, <1>8 DEF UndoWrite, Goto, TypeOK
    <2>2. cur'[p] \in Pending'  BY <1>1, <1>2, <1>3
    <2> QED  BY <1>3, <1>6, <2>1, <2>2 DEF Reconciles, Works, AtJournalRow
  <1> QED  BY <1>6, <1>7, <1>8

\* The operations of the history were made for versions up to the present one.
LEMMA NextIsNotInHistory ==
  ASSUME IInv, NEW id
  PROVE  /\ id \in 1..Len(ops) /\ ops[id].version = row.version + 1 => ~ InHistory(id)
         /\ id = Len(ops) + 1 => ~ InHistory(id)
  <1>0. Len(ops) \in Nat /\ row.version \in Nat /\ row.version = Len(row.history)
    BY DEF IInv, TypeOK, Rows, HistoryMatchesVersions
  <1>1. \A i \in 1..Len(row.history) :
          \/ row.history[i] = 0
          \/ row.history[i] \in 1..Len(ops) /\ ops[row.history[i]].version = i
    <2> SUFFICES ASSUME NEW i \in 1..Len(row.history)
                 PROVE  \/ row.history[i] = 0
                        \/ row.history[i] \in 1..Len(ops) /\ ops[row.history[i]].version = i
      OBVIOUS
    <2>1. CASE i = 1  BY <2>1 DEF IInv, HistoryMatchesVersions
    <2>2. CASE i \in 2..Len(row.history)  BY <2>2 DEF IInv, HistoryMatchesVersions
    <2> QED  BY <1>0, <2>1, <2>2
  <1> QED  BY <1>0, <1>1 DEF InHistory

\* A swap that succeeds puts its operation, and no other, into the history.
LEMMA HistoryGains ==
  ASSUME IInv, NEW id, RowGrows(id), NEW i
  PROVE  InHistory(i)' <=> InHistory(i) \/ i = id
  <1>1. /\ row.history \in Seq(Nat) /\ id \in Nat /\ Len(row.history) \in Nat
        /\ row'.history = Append(row.history, id)
    BY DEF IInv, TypeOK, Rows, RowGrows
  <1>2. Len(row'.history) = Len(row.history) + 1  BY <1>1
  <1>3. \A j \in 1..Len(row.history) : row'.history[j] = row.history[j]  BY <1>1
  <1>4. row'.history[Len(row.history) + 1] = id  BY <1>1
  <1> QED  BY <1>1, <1>2, <1>3, <1>4 DEF InHistory

\* Reconciliation publishes an operation whose files are all written.
LEMMA ReconcilePublishes ==
  ASSUME IInv, SerialInv, NEW p \in Procs, ReconcileCommit(p)
  PROVE  FilesKnown' /\ Reconciles(p)' /\ Works(p)'
  <1>0. TypeOK /\ FilesKnown /\ Reconciles(p) /\ Works(p)  BY DEF IInv, SerialInv
  <1>1. /\ pc[p] = "rec_commit"
        /\ UNCHANGED <<disk, ops, entry, copy, todo, cur, queue, rejected>>
    BY DEF ReconcileCommit, faults
  <1>2. /\ queue[p] \subseteq journal /\ cur[p] \in journal
        /\ Pending \subseteq queue[p] \union {cur[p]}
        /\ \A id \in queue[p] : cur[p] < id
        /\ OnDisk(ops[cur[p]].after) /\ entry[p] = row
    BY <1>0, <1>1 DEF Reconciles, AtJournalRow
  <1>3. /\ cur[p] \in 1..Len(ops) /\ ops[cur[p]].after \in Own
        /\ ops[cur[p]].version \in Nat /\ row \in Rows /\ row.version \in Nat
    BY <1>0, <1>1, OperationOwn, OperationShape DEF AtOperation, TypeOK, Rows
  <1>4. CASE /\ StoredVersionIs(ReconcileExpects(cur[p]))
             /\ row' = Reconciled(entry[p], cur[p])
             /\ journal' = journal \ {cur[p]}
             /\ Goto(p, "rec")
    <2>1. ops[cur[p]].version = row.version + 1
      <3>1. ops[cur[p]].version - 1 = row.version
        BY <1>4 DEF StoredVersionIs, ReconcileExpects
      <3> QED  BY <1>3, <3>1
    <2>2. cur[p] \in Pending  BY <1>2, <1>3, <2>1, NextIsNotInHistory DEF Pending
    <2>3. RowGrows(cur[p])
      BY <1>1, <1>2, <1>3, <1>4, <2>1 DEF RowGrows, Reconciled, Rows
    <2>4. \A id : InHistory(id) => InHistory(id)'  BY <2>3, HistoryGains
    <2>5. Pending' = {} /\ queue[p] = {}
      <3>1. queue[p] = {} /\ Pending = {cur[p]}  BY <1>1, <2>2, PendingIsLast DEF AtJournalRow
      <3> QED  BY <1>4, <2>4, <3>1 DEF Pending
    <2>6. row'.files = row.files /\ row'.hash = ops[cur[p]].after
      BY <1>2, <1>3, <1>4 DEF Reconciled, Rows
    <2>7. OnDisk(row.hash)'  BY <1>1, <1>2, <2>6 DEF OnDisk
    <2>8. FilesKnown'
      BY <1>0, <1>1, <1>3, <2>5, <2>6, <2>7
      DEF FilesKnown, OwnFiles, OneIsPending, CleanIsSynced
    <2>9. pc'[p] = "rec" /\ queue'[p] = {}
      BY <1>0, <1>1, <1>4, <2>5 DEF Goto, TypeOK
    <2> QED  BY <2>5, <2>8, <2>9 DEF Reconciles, Works, AtJournalRow
  <1>5. CASE ~ StoredVersionIs(ReconcileExpects(cur[p])) /\ Goto(p, "rec")
             /\ UNCHANGED <<row, journal>>
    <2>1. ops[cur[p]].version - 1 # row.version
      BY <1>5 DEF StoredVersionIs, ReconcileExpects
    <2>2. cur[p] \notin Pending /\ Pending \subseteq queue[p]
      <3>1. cur[p] \notin Pending  BY <1>0, <1>3, <2>1 DEF FilesKnown, OneIsPending
      <3> QED  BY <1>2, <3>1
    <2>3. FilesKnown' /\ Pending' = Pending /\ \A id : Torn(id)' <=> Torn(id)
      BY <1>0, <1>1, <1>5, FilesStay
    <2>4. pc'[p] = "rec"  BY <1>0, <1>5 DEF Goto, TypeOK
    <2> QED
      BY <1>1, <1>2, <1>5, <2>2, <2>3, <2>4 DEF Reconciles, Works, AtJournalRow
  <1>6. CASE Goto(p, "done") /\ UNCHANGED <<row, journal>>
    <2>1. FilesKnown'  BY <1>0, <1>1, <1>6, FilesStay
    <2>2. pc'[p] = "done"  BY <1>0, <1>6 DEF Goto, TypeOK
    <2> QED  BY <2>1, <2>2 DEF Reconciles, Works, AtJournalRow
  <1> QED  BY <1>4, <1>5, <1>6 DEF ReconcileCommit

\* Reconciliation forgets an operation of which no file was written.
LEMMA ReconcileForgets ==
  ASSUME IInv, SerialInv, NEW p \in Procs, ReconcileDrop(p)
  PROVE  FilesKnown' /\ Reconciles(p)' /\ Works(p)'
  <1>0. TypeOK /\ FilesKnown /\ Reconciles(p) /\ Works(p)  BY DEF IInv, SerialInv
  <1>1. /\ pc[p] = "rec_drop" /\ journal' = journal \ {cur[p]} /\ pc'[p] = "rec"
        /\ UNCHANGED <<disk, row, ops, cur, queue, rejected>>
    BY <1>0 DEF ReconcileDrop, Goto, TypeOK, faults
  <1>2. /\ queue[p] \subseteq journal /\ cur[p] \in journal
        /\ cur[p] \notin queue[p] /\ Pending \subseteq queue[p] \union {cur[p]}
        /\ OnDisk(ops[cur[p]].before)
    <2>1. /\ queue[p] \subseteq journal /\ cur[p] \in journal
          /\ Pending \subseteq queue[p] \union {cur[p]}
          /\ \A id \in queue[p] : cur[p] < id
          /\ OnDisk(ops[cur[p]].before)
      BY <1>0, <1>1 DEF Reconciles, AtJournalRow
    <2>2. cur[p] \in Nat  BY <1>0 DEF TypeOK
    <2>3. ~ (cur[p] < cur[p])  BY <2>2
    <2> QED  BY <2>1, <2>3
  <1>3. Pending' = Pending \ {cur[p]}  BY <1>1 DEF Pending, InHistory
  <1>5. CleanIsSynced'
    <2>1. CASE cur[p] \in Pending
      <3>1. ops[cur[p]].before = row.hash  BY <1>0, <2>1 DEF FilesKnown, OneIsPending
      <3> QED  BY <1>1, <1>2, <3>1 DEF CleanIsSynced, OnDisk
    <2>2. CASE cur[p] \notin Pending
      <3>1. Pending' = {} => OnDisk(row.hash) \/ WasRejected
        BY <1>0, <1>3, <2>2 DEF FilesKnown, CleanIsSynced
      <3>2. OnDisk(row.hash) => OnDisk(row.hash)'  BY <1>1 DEF OnDisk
      <3>3. ASSUME WasRejected PROVE WasRejected'
        <4>1. PICK id \in rejected : id \in journal \/ OnDisk(ops[id].before)
          BY <3>3 DEF WasRejected
        <4>2. OnDisk(ops[id].before) => OnDisk(ops[id].before)'  BY <1>1 DEF OnDisk
        <4>3. id \in journal' \/ OnDisk(ops[id].before)'
          BY <1>1, <1>2, <4>1, <4>2 DEF OnDisk
        <4> QED  BY <1>1, <3>3, <4>1, <4>3 DEF WasRejected
      <3> QED  BY <3>1, <3>2, <3>3 DEF CleanIsSynced
    <2> QED  BY <2>1, <2>2
  <1>6. FilesKnown'
    BY <1>0, <1>1, <1>3, <1>5 DEF FilesKnown, OwnFiles, OneIsPending
  <1> QED
    BY <1>1, <1>2, <1>3, <1>6 DEF Reconciles, Works, AtJournalRow

\* A drift check that passes finds the files of the present version on disk, so
\* nothing is pending when a change is journaled.
LEMMA WorkJournals ==
  ASSUME IInv, SerialInv, SerialUse', NEW p \in Procs, JournalChange(p)
  PROVE  FilesKnown' /\ Reconciles(p)' /\ Works(p)'
  <1>0. TypeOK /\ FilesKnown /\ Works(p)  BY DEF IInv, SerialInv
  <1>1. /\ pc[p] = "live" /\ todo[p] = {} /\ pc'[p] = "backup" /\ cur'[p] = Len(ops) + 1
        /\ journal' = journal \union {Len(ops) + 1}
        /\ UNCHANGED <<disk, row, entry>>
    BY <1>0 DEF JournalChange, Journaled, Goto, TypeOK
  <1>2. /\ p \in Cli /\ p \notin Tools /\ entry[p] = row /\ DOMAIN copy[p] = Tracked
        /\ Agrees(copy[p], p) /\ \A id \in Pending : Torn(id)
    BY <1>0, <1>1, ProcessAssumption DEF Works
  <1>3. /\ ~ Drifted(p)
        /\ \E added \in SUBSET (Files \ entry[p].files) :
             \E final \in [DOMAIN copy[p] \union added -> Contents] :
               ops' = Append(ops, [before |-> copy[p], after |-> final,
                                   version |-> entry[p].version + 1])
    BY <1>2 DEF JournalChange
  <1> PICK added \in SUBSET (Files \ entry[p].files) :
         \E final \in [DOMAIN copy[p] \union added -> Contents] :
           ops' = Append(ops, [before |-> copy[p], after |-> final,
                               version |-> entry[p].version + 1])
    BY <1>3
  <1> PICK final \in [DOMAIN copy[p] \union added -> Contents] :
         ops' = Append(ops, [before |-> copy[p], after |-> final,
                             version |-> entry[p].version + 1])
    OBVIOUS
  <1>4. copy[p] = row.hash  BY <1>2, <1>3 DEF Drifted
  <1>5. OnDisk(row.hash)  BY <1>1, <1>2, <1>4 DEF OnDisk, Agrees
  <1>6. Pending = {}
    BY <1>0, <1>2, <1>5 DEF FilesKnown, OneIsPending, Torn
  <1>7. /\ ops \in Seq(Operations) /\ Len(ops) \in Nat /\ Len(ops') = Len(ops) + 1
        /\ ops'[Len(ops) + 1] = [before |-> copy[p], after |-> final,
                                 version |-> entry[p].version + 1]
        /\ \A id \in 1..Len(ops) : ops'[id] = ops[id]
    BY <1>0, <1>3 DEF TypeOK
  <1>8. final \in Own
    <2>1. DOMAIN ops'[Len(ops) + 1].after \subseteq Tracked  BY <1>7 DEF SerialUse
    <2>2. DOMAIN final = Tracked  BY <1>2, <1>7, <2>1
    <2> QED  BY <2>2 DEF Own
  <1>9. Pending' = {Len(ops) + 1}
    <2>1. ~ InHistory(Len(ops) + 1)  BY NextIsNotInHistory
    <2> QED  BY <1>1, <1>6, <2>1 DEF Pending, InHistory
  <1>10. OwnFiles'
    <2>1. \A id \in 1..Len(ops') : ops'[id].before \in Own /\ ops'[id].after \in Own
      BY <1>0, <1>4, <1>7, <1>8 DEF FilesKnown, OwnFiles
    <2> QED  BY <1>0, <1>1, <2>1 DEF FilesKnown, OwnFiles
  <1>11. OneIsPending'
    BY <1>1, <1>2, <1>4, <1>7, <1>9 DEF OneIsPending
  <1>12. FilesKnown'  BY <1>9, <1>10, <1>11 DEF FilesKnown, CleanIsSynced
  <1> QED
    BY <1>1, <1>2, <1>9, <1>12 DEF Reconciles, Works, AtJournalRow

\* The swap of a command that works alone succeeds, unless the database fails.
LEMMA WorkCommits ==
  ASSUME IInv, SerialInv, NEW p \in Procs, Commit(p)
  PROVE  FilesKnown' /\ Reconciles(p)' /\ Works(p)'
  <1>0. TypeOK /\ FilesKnown /\ Works(p) /\ LoopsStayInside  BY DEF IInv, SerialInv
  <1>1. /\ pc[p] = "write" /\ todo[p] = {}
        /\ UNCHANGED <<disk, ops, journal, copy, cur, queue, rejected>>
    BY DEF Commit, faults
  <1>2. /\ p \in Cli /\ entry[p] = row /\ cur[p] \in Pending
        /\ Agrees(ops[cur[p]].after, p)
    BY <1>0, <1>1 DEF Works
  <1>3. /\ cur[p] \in 1..Len(ops) /\ ops[cur[p]].after \in Own
        /\ DOMAIN ops[cur[p]].after = Tracked
        /\ ops[cur[p]].version = row.version + 1 /\ row \in Rows /\ row.version \in Nat
    BY <1>0, <1>1, <1>2, OperationOwn
    DEF AtOperation, FilesKnown, OneIsPending, TypeOK, Rows
  <1>4. OnDisk(ops[cur[p]].after)  BY <1>1, <1>2, <1>3 DEF OnDisk, Agrees
  <1>5. StoredVersionIs(ops[cur[p]].version - 1)  BY <1>3 DEF StoredVersionIs
  <1>6. CASE /\ row' = Committed(entry[p], cur[p])
             /\ entry' = [entry EXCEPT ![p] = Committed(entry[p], cur[p])]
             /\ Goto(p, "complete")
    <2>1. RowGrows(cur[p])
      BY <1>1, <1>2, <1>3, <1>6 DEF RowGrows, Committed, Rows
    <2>2. \A id : InHistory(id)' <=> InHistory(id) \/ id = cur[p]  BY <2>1, HistoryGains
    <2>3. Pending' = {}
      <3>1. Pending = {cur[p]}  BY <1>0, <1>2 DEF FilesKnown, OneIsPending
      <3> QED  BY <1>1, <2>2, <3>1 DEF Pending
    <2>4. row'.files = Tracked /\ row'.hash = ops[cur[p]].after
      BY <1>0, <1>2, <1>3, <1>6 DEF Committed, FilesKnown, OwnFiles
    <2>5. OnDisk(row.hash)'  BY <1>1, <1>4, <2>4 DEF OnDisk
    <2>6. FilesKnown'
      BY <1>0, <1>1, <1>3, <2>3, <2>4, <2>5
      DEF FilesKnown, OwnFiles, OneIsPending, CleanIsSynced
    <2>7. pc'[p] = "complete" /\ entry'[p] = row'  BY <1>0, <1>6 DEF Goto, TypeOK
    <2> QED  BY <1>2, <2>3, <2>5, <2>6, <2>7 DEF Reconciles, Works, AtJournalRow
  <1>7. CASE Goto(p, "done") /\ UNCHANGED <<row, entry>>
    <2>1. FilesKnown'  BY <1>0, <1>1, <1>7, FilesStay
    <2>2. pc'[p] = "done"  BY <1>0, <1>7 DEF Goto, TypeOK
    <2> QED  BY <2>1, <2>2 DEF Reconciles, Works, AtJournalRow
  <1> QED  BY <1>5, <1>6, <1>7 DEF Commit

\* Completing the change writes the entry that is stored already.
LEMMA WorkCompletes ==
  ASSUME IInv, SerialInv, NEW p \in Procs, Complete(p)
  PROVE  FilesKnown' /\ Reconciles(p)' /\ Works(p)'
  <1>0. TypeOK /\ FilesKnown /\ Works(p)  BY DEF IInv, SerialInv
  <1>1. pc[p] = "complete" /\ pc'[p] = "done" /\ UNCHANGED <<disk, ops>>
    BY <1>0 DEF Complete, Goto, TypeOK
  <1>2. entry[p] = row /\ Pending = {} /\ OnDisk(row.hash)  BY <1>0, <1>1 DEF Works
  <1>3. row' = row /\ journal' \subseteq journal  BY <1>2 DEF Complete
  <1>4. Pending' = {}  BY <1>2, <1>3 DEF Pending, InHistory
  <1>5. FilesKnown'
    BY <1>0, <1>1, <1>2, <1>3, <1>4
    DEF FilesKnown, OwnFiles, OneIsPending, CleanIsSynced, OnDisk
  <1> QED  BY <1>1, <1>5 DEF Reconciles, Works, AtJournalRow

\* A process that runs alone keeps what is known.
LEMMA SerialStep ==
  ASSUME IInv, SerialInv, SerialUse, SerialUse',
         NEW p \in Procs, Start(p) \/ Step(p)
  PROVE  SerialInv'
  <1>1. FilesKnown' /\ Reconciles(p)' /\ Works(p)'
    <2>1. ~ UndoConflict(p) /\ ~ DropPending(p)
      BY DEF SerialInv, Works, UndoConflict, DropPending
    <2> QED
      BY <2>1, ReconcileLooks, ReconcileVerifies, ReconcilePutsBack, ReconcilePublishes,
         ReconcileForgets, WorkPrepares, WorkJournals, WorkWrites, WorkCommits, WorkCompletes
      DEF Step
  <1>2. ASSUME NEW q \in Procs, q # p PROVE Reconciles(q)' /\ Works(q)'
    <2>1. pc'[q] = "idle"  BY <1>2, OthersIdle
    <2> QED  BY <2>1 DEF Reconciles, Works, AtJournalRow
  <1> QED  BY <1>1, <1>2 DEF SerialInv

\* A crash leaves files, row and journal as they are; whoever survives it knows what
\* it knew.
LEMMA SerialCrash ==
  ASSUME SerialInv, NEW S, Crash(S)
  PROVE  SerialInv'
  <1>1. Forget(S) /\ UNCHANGED <<disk, row, ops, journal, rejected>>  BY DEF Crash
  <1>2. FilesKnown' /\ Pending' = Pending /\ \A id : Torn(id)' <=> Torn(id)
    BY <1>1, FilesStay DEF SerialInv
  <1>3. ASSUME NEW q \in Procs PROVE Reconciles(q)' /\ Works(q)'
    <2>1. CASE q \in S
      <3>1. pc'[q] = "idle"  BY <1>1, <2>1 DEF Forget
      <3> QED  BY <3>1 DEF Reconciles, Works, AtJournalRow
    <2>2. CASE q \notin S
      <3>1. /\ pc'[q] = pc[q] /\ entry'[q] = entry[q] /\ copy'[q] = copy[q]
            /\ todo'[q] = todo[q] /\ cur'[q] = cur[q] /\ queue'[q] = queue[q]
        BY <1>1, <2>2 DEF Forget
      <3>2. \A s : OnDisk(s)' <=> OnDisk(s)  BY <1>1 DEF OnDisk
      <3>3. Reconciles(q) /\ Works(q)  BY DEF SerialInv
      <3>4. Reconciles(q)'
        BY <1>1, <1>2, <3>1, <3>2, <3>3 DEF Reconciles, Agrees, AtJournalRow
      <3>5. Works(q)'
        <4>1. OnDisk(row.hash)' <=> OnDisk(row.hash)  BY <1>1 DEF OnDisk
        <4> QED  BY <1>1, <1>2, <3>1, <3>3, <4>1 DEF Works, Agrees
      <3> QED  BY <3>4, <3>5
    <2> QED  BY <2>1, <2>2
  <1> QED  BY <1>2, <1>3 DEF SerialInv

\* Nothing changes, nothing is learnt.
LEMMA SerialStutter == SerialInv /\ UNCHANGED vars => SerialInv'
  <1> SUFFICES ASSUME SerialInv, UNCHANGED vars PROVE SerialInv'  OBVIOUS
  <1>1. UNCHANGED <<disk, row, ops, journal, rejected, pc, entry, copy, todo, cur, queue>>
    BY DEF vars, local, faults
  <1>2. FilesKnown' /\ Pending' = Pending /\ \A id : Torn(id)' <=> Torn(id)
    BY <1>1, FilesStay DEF SerialInv
  <1>3. \A s : OnDisk(s)' <=> OnDisk(s)  BY <1>1 DEF OnDisk
  <1>4. ASSUME NEW q \in Procs PROVE Reconciles(q)' /\ Works(q)'
    <2>1. Reconciles(q) /\ Works(q)  BY DEF SerialInv
    <2>2. Reconciles(q)'
      BY <1>1, <1>2, <1>3, <2>1 DEF Reconciles, Agrees, AtJournalRow
    <2>3. Works(q)'
      <3>1. OnDisk(row.hash)' <=> OnDisk(row.hash)  BY <1>1 DEF OnDisk
      <3> QED  BY <1>1, <1>2, <2>1, <3>1 DEF Works, Agrees
    <2> QED  BY <2>2, <2>3
  <1> QED  BY <1>2, <1>4 DEF SerialInv

\* Files that hold the snapshot of the present version are the ones it owns.
LEMMA PresentOnDisk ==
  ASSUME SerialInv, OnDisk(row.hash)
  PROVE  Synced
  <1>1. row.files = Tracked /\ row.hash \in [Tracked -> Contents]
    BY DEF SerialInv, FilesKnown, OwnFiles, Own
  <1>2. \A f \in Tracked : disk[f] = row.hash[f] /\ disk[f] # Missing
    BY <1>1, FileAssumption DEF OnDisk
  <1> QED  BY <1>1, <1>2 DEF Synced, Live

-----------------------------------------------------------------------------
\* In serial use what is known of the files holds in every state: wherever a process
\* is killed or a statement fails, the next one to run finds a pending operation made
\* from the present version, or the files of that version.
THEOREM SerialInductive == Spec /\ []SerialUse => []SerialInv
  <1>1. IInv /\ SerialInv /\ SerialUse /\ SerialUse' /\ [Next]_vars => SerialInv'
    <2> SUFFICES ASSUME IInv, SerialInv, SerialUse, SerialUse', [Next]_vars
                 PROVE  SerialInv'
      OBVIOUS
    <2>1. ASSUME NEW p \in Procs, Start(p) \/ Step(p) PROVE SerialInv'
      BY <2>1, SerialStep
    <2>2. ASSUME NEW S \in OsProcesses, Crash(S) PROVE SerialInv'  BY <2>2, SerialCrash
    <2>3. ~ Edit  BY DEF Edit, SerialUse
    <2> QED  BY <2>1, <2>2, <2>3, SerialStutter DEF Next
  <1> QED  BY <1>1, InitSerial, Inductive, PTL DEF Spec

\* With nobody running and nothing in the journal the files on disk are those of the
\* current version, or those that a committed operation had replaced and reconciliation
\* put back: no crash leaves a half-written component that nobody knows of.
THEOREM HalfWrittenIsJournaled == Spec /\ []SerialUse => []SyncedWhenClean
  <1>1. SerialInv => SyncedWhenClean
    <2> SUFFICES ASSUME SerialInv, journal = {}
                 PROVE  Synced \/ \E id \in rejected : OnDisk(ops[id].before)
      BY DEF SyncedWhenClean
    <2>1. OnDisk(row.hash) \/ \E id \in rejected : OnDisk(ops[id].before)
      BY DEF SerialInv, FilesKnown, CleanIsSynced, WasRejected, Pending
    <2> QED  BY <2>1, PresentOnDisk
  <1> QED  BY <1>1, SerialInductive, PTL

\* The content of the current version is on disk or in a journal row, in every state,
\* unless reconciliation rejected it after it had been committed.
THEOREM CurrentIsRecoverable == Spec /\ []SerialUse => []CurrentVersionRecoverable
  <1>1. SerialInv => CurrentVersionRecoverable
    <2> SUFFICES ASSUME SerialInv PROVE CurrentVersionRecoverable  OBVIOUS
    <2>1. CASE Pending = {}
      <3>1. OnDisk(row.hash) \/ \E id \in rejected : row.hash = ops[id].after
        BY <2>1 DEF SerialInv, FilesKnown, CleanIsSynced, WasRejected
      <3> QED  BY <3>1, PresentOnDisk DEF CurrentVersionRecoverable
    <2>2. CASE Pending # {}
      <3>1. PICK id \in Pending : TRUE  BY <2>2
      <3>2. id \in journal /\ ops[id].before = row.hash
        BY <3>1 DEF Pending, SerialInv, FilesKnown, OneIsPending
      <3> QED  BY <3>2 DEF CurrentVersionRecoverable
    <2> QED  BY <2>1, <2>2
  <1> QED  BY <1>1, SerialInductive, PTL

\* When a command begins its own work, what reconciliation has left in the journal are
\* operations of the history and operations whose files are torn, never one whose files
\* are untouched or fully written.
THEOREM ReconciliationResolves == Spec /\ []SerialUse => []WorkStartsReconciled
  <1>1. SerialInv => WorkStartsReconciled
    BY DEF SerialInv, Works, Torn, Pending, WorkStartsReconciled, Procs
  <1> QED  BY <1>1, SerialInductive, PTL
=============================================================================
