--------------------------- MODULE AuditChainProofs ---------------------------
(***************************************************************************)
(* For any number of processes, any retention and any bounds: the typing   *)
(* of the audit chain, that no record goes without a checkpoint, that none *)
(* goes before its time, and that a verification raises no alarm unless    *)
(* appends or prunes have raced.                                           *)
(***************************************************************************)
EXTENDS AuditChain, FiniteSetTheorems, TLAPS

\* A process that has chosen what to prune holds an id that was given out, and
\* what it will delete had expired when it looked.
PrunesAreDue ==
    \A c \in Procs : proc[c].at \in {"checkpoint", "delete"} =>
        /\ proc[c].last <= lastId
        /\ \A i \in DOMAIN rows : i <= proc[c].last => rows[i].stamp + Retention < day

\* Its checkpoint is there before it deletes.
CheckpointPrecedesDelete ==
    \A c \in Procs : proc[c].at = "delete" =>
        \E k \in 1..Len(checkpoints) : checkpoints[k].last >= proc[c].last

\* A later record is not older.
StampsGrow == \A i, j \in DOMAIN rows : i <= j => rows[i].stamp <= rows[j].stamp

\* None is from the future.
StampsArePast == \A i \in DOMAIN rows : rows[i].stamp <= day

IInv ==
    /\ TypeOK /\ PrunesAreDue /\ CheckpointPrecedesDelete /\ StampsGrow /\ StampsArePast
    /\ RemovalsAreCheckpointed

-----------------------------------------------------------------------------
\* A set of ids that were given out has a latest one, if it is not empty.
LEMMA LatestIsThere ==
  ASSUME NEW n \in Nat, NEW ids \in SUBSET (1..n), ids # {}
  PROVE  Latest(ids) \in ids /\ \A j \in ids : j <= Latest(ids)
  <1> DEFINE Above(i) == {j \in ids : i < j}
             T == {Above(i) : i \in ids}
  <1>1. IsFiniteSet(ids)
    <2>1. IsFiniteSet(1..n)  BY FS_Interval
    <2> QED  BY <2>1, FS_Subset
  <1>2. IsWellFoundedOn(StrictSubsetOrdering(ids), SUBSET ids)
    BY <1>1, FS_StrictSubsetOrderingWellFounded, FS_FiniteSubsetsOfFinite
  <1>3. T \subseteq SUBSET ids /\ T # {}  OBVIOUS
  <1>4. \E U \in T : \A V \in T : ~ (<<V, U>> \in StrictSubsetOrdering(ids))
    <2> HIDE DEF T
    <2> QED  BY <1>2, <1>3, WFMin
  <1>5. PICK i \in ids : \A V \in T : ~ (<<V, Above(i)>> \in StrictSubsetOrdering(ids))
    BY <1>4
  <1>6. \A j \in ids : j <= i
    <2>1. SUFFICES ASSUME NEW j \in ids, ~ (j <= i) PROVE FALSE  OBVIOUS
    <2>2. \A k \in ids : k \in Int  OBVIOUS
    <2>3. Above(j) \subseteq Above(i)
      <3>1. \A k \in ids : j < k => i < k  BY <2>1, <2>2
      <3> QED  BY <3>1
    <2>4. j \in Above(i) /\ j \notin Above(j)  BY <2>1, <2>2
    <2>5. <<Above(j), Above(i)>> \in StrictSubsetOrdering(ids)
      <3>1. Above(j) \in SUBSET ids /\ Above(i) \in SUBSET ids  OBVIOUS
      <3>2. Above(j) # Above(i)  BY <2>4
      <3> QED  BY <2>3, <3>1, <3>2 DEF StrictSubsetOrdering
    <2> QED  BY <1>5, <2>5
  <1> QED  BY <1>6 DEF Latest

-----------------------------------------------------------------------------
\* Tables of before stay tables when an id is given out.
LEMMA TablesStay ==
  ASSUME NEW n \in Nat, NEW m \in Nat, n <= m, NEW t, IsTable(t, n)
  PROVE  IsTable(t, m)
  BY DEF IsTable

\* A process that is done, or was killed, is typed like any other.
LEMMA IdleTyped ==
  /\ Idle \in [at : Labels, hash : Nat, last : Nat, seen : {Idle.seen}, alarm : BOOLEAN]
  /\ \A n \in Nat : IsTable(Idle.seen, n)
  <1>1. Idle.seen = <<>>  BY DEF Idle
  <1>2. \A n \in Nat : IsTable(<<>>, n)
    <2>1. DOMAIN <<>> = {}  OBVIOUS
    <2>2. <<>> \in [{} -> Records]  OBVIOUS
    <2> QED  BY <2>1, <2>2 DEF IsTable
  <1> QED  BY <1>1, <1>2 DEF Idle, Labels, Genesis

-----------------------------------------------------------------------------
\* An empty chain without checkpoints satisfies the invariant.
LEMMA InitIInv == Init => IInv
  <1> SUFFICES ASSUME Init PROVE IInv  OBVIOUS
  <1>1. TypeOK
    <2>1. IsTable(rows, lastId)  BY IdleTyped DEF Init, Idle
    <2>2. proc = [c \in Procs |-> proc[c]]  BY DEF Init
    <2>3. ASSUME NEW c \in Procs
          PROVE  /\ proc[c] \in [at : Labels, hash : Nat, last : Nat, seen : {proc[c].seen},
                                 alarm : BOOLEAN]
                 /\ IsTable(proc[c].seen, lastId)
      <3>1. proc[c] = Idle /\ lastId \in Nat  BY DEF Init
      <3> QED  BY <3>1, IdleTyped
    <2>4. /\ lastId \in Nat /\ day \in Nat /\ kills \in Nat
          /\ forked \in BOOLEAN /\ crossed \in BOOLEAN  BY DEF Init
    <2>5. checkpoints \in Seq([last : Nat, hash : Nat])  BY DEF Init
    <2> QED  BY <2>1, <2>2, <2>3, <2>4, <2>5 DEF TypeOK
  <1>2. PrunesAreDue /\ CheckpointPrecedesDelete
    BY DEF Init, PrunesAreDue, CheckpointPrecedesDelete, Idle
  <1>3. StampsGrow /\ StampsArePast
    <2>1. DOMAIN rows = {}  BY DEF Init
    <2> QED  BY <2>1 DEF StampsGrow, StampsArePast
  <1>4. RemovalsAreCheckpointed  BY DEF Init, RemovalsAreCheckpointed
  <1> QED  BY <1>1, <1>2, <1>3, <1>4 DEF IInv

-----------------------------------------------------------------------------
\* The processes are typed again after a step that changes one of them.
LEMMA ProcTyped ==
  ASSUME TypeOK, lastId' \in Nat, lastId <= lastId',
         NEW c \in Procs, NEW r, proc' = [proc EXCEPT ![c] = r],
         r \in [at : Labels, hash : Nat, last : Nat, seen : {r.seen}, alarm : BOOLEAN],
         IsTable(r.seen, lastId')
  PROVE  /\ proc' = [d \in Procs |-> proc'[d]]
         /\ \A d \in Procs :
              /\ proc'[d] \in [at : Labels, hash : Nat, last : Nat, seen : {proc'[d].seen},
                               alarm : BOOLEAN]
              /\ IsTable(proc'[d].seen, lastId')
         /\ proc'[c] = r
         /\ \A d \in Procs \ {c} : proc'[d] = proc[d]
  <1>1. DOMAIN proc = Procs  BY DEF TypeOK
  <1>2. proc'[c] = r /\ \A d \in Procs \ {c} : proc'[d] = proc[d]  BY <1>1
  <1>3. proc' = [d \in Procs |-> proc'[d]]  BY <1>1
  <1>4. ASSUME NEW d \in Procs
        PROVE  /\ proc'[d] \in [at : Labels, hash : Nat, last : Nat, seen : {proc'[d].seen},
                                alarm : BOOLEAN]
               /\ IsTable(proc'[d].seen, lastId')
    <2>1. CASE d = c  BY <2>1, <1>2
    <2>2. CASE d # c
      <3>1. proc'[d] = proc[d]  BY <2>2, <1>2
      <3>2. IsTable(proc[d].seen, lastId)  BY DEF TypeOK
      <3>3. DOMAIN proc[d].seen \subseteq 1..lastId'  BY <3>2 DEF TypeOK, IsTable
      <3>4. proc[d].seen \in [DOMAIN proc[d].seen -> Records]  BY <3>2 DEF IsTable
      <3>5. IsTable(proc'[d].seen, lastId')  BY <3>1, <3>3, <3>4 DEF IsTable, Records
      <3> QED  BY <3>1, <3>5 DEF TypeOK
    <2> QED  BY <2>1, <2>2
  <1> QED  BY <1>2, <1>3, <1>4

\* What typing says of one process.
LEMMA ProcShape ==
  ASSUME TypeOK, NEW c \in Procs
  PROVE  /\ proc[c].at \in Labels /\ proc[c].hash \in Nat /\ proc[c].last \in Nat
         /\ proc[c].alarm \in BOOLEAN
         /\ proc[c] = [at |-> proc[c].at, hash |-> proc[c].hash, last |-> proc[c].last,
                       seen |-> proc[c].seen, alarm |-> proc[c].alarm]
  BY DEF TypeOK

\* The hash of the latest row, if there is one, is a number.
LEMMA HashTyped ==
  ASSUME TypeOK
  PROVE  LastHash \in Nat
  <1>1. CASE DOMAIN rows = {}  BY <1>1 DEF LastHash, Genesis
  <1>2. CASE DOMAIN rows # {}
    <2>1. lastId \in Nat /\ DOMAIN rows \in SUBSET (1..lastId)  BY DEF TypeOK, IsTable
    <2>2. Latest(DOMAIN rows) \in DOMAIN rows  BY <1>2, <2>1, LatestIsThere
    <2>3. rows[Latest(DOMAIN rows)] \in Records  BY <2>2 DEF TypeOK, IsTable
    <2> QED  BY <1>2, <2>3 DEF LastHash, Records
  <1> QED  BY <1>1, <1>2

-----------------------------------------------------------------------------
\* Every step keeps the types.
LEMMA TypeStep == TypeOK /\ [Next]_vars => TypeOK'
  <1> SUFFICES ASSUME TypeOK, [Next]_vars PROVE TypeOK'  OBVIOUS
  <1> USE ChainAssumption
  <1>1. CASE UNCHANGED vars
    BY <1>1 DEF vars, TypeOK, IsTable, Records
  <1>2. CASE Tick
    <2>1. day' \in Nat  BY <1>2 DEF Tick, TypeOK
    <2> QED  BY <1>2, <2>1 DEF Tick, TypeOK, IsTable, Records
  <1>3. ASSUME NEW c \in Procs, ReadLast(c) PROVE TypeOK'
    <2> DEFINE hash == LastHash
               r == [Idle EXCEPT !.at = "insert", !.hash = hash]
    <2>1. proc' = [proc EXCEPT ![c] = r]  BY <1>3 DEF ReadLast
    <2>2. hash \in Nat  BY HashTyped
    <2> HIDE DEF hash
    <2>3. r \in [at : Labels, hash : Nat, last : Nat, seen : {r.seen}, alarm : BOOLEAN]
          /\ r.seen = Idle.seen
      BY <2>2 DEF Idle, Labels
    <2>4. lastId' = lastId /\ lastId' \in Nat  BY <1>3 DEF ReadLast, TypeOK
    <2>5. IsTable(r.seen, lastId')  BY <2>3, <2>4, IdleTyped
    <2>6. IsTable(rows', lastId')  BY <1>3 DEF ReadLast, TypeOK
    <2> HIDE DEF r
    <2>7. UNCHANGED <<checkpoints, day, kills, forked, crossed>>  BY <1>3 DEF ReadLast
    <2> QED  BY <2>1, <2>3, <2>4, <2>5, <2>6, <2>7, ProcTyped DEF TypeOK
  <1>4. ASSUME NEW c \in Procs, Insert(c) PROVE TypeOK'
    <2>1. lastId' = lastId + 1 /\ lastId' \in Nat /\ lastId <= lastId'
      BY <1>4 DEF Insert, TypeOK
    <2>2. IsTable(Idle.seen, lastId')  BY <2>1, IdleTyped
    <2>3. IsTable(rows', lastId')
      <3> DEFINE row == [prev |-> proc[c].hash, hash |-> lastId + 1, stamp |-> day]
      <3>1. row \in Records  BY ProcShape DEF Records, TypeOK
      <3>2. rows' = [i \in DOMAIN rows \union {lastId + 1} |->
                        IF i = lastId + 1 THEN row ELSE rows[i]]  BY <1>4 DEF Insert
      <3> HIDE DEF row
      <3>3. DOMAIN rows' \subseteq 1..lastId'  BY <2>1, <3>2 DEF TypeOK, IsTable
      <3>4. \A i \in DOMAIN rows : rows[i] \in Records  BY DEF TypeOK, IsTable
      <3>5. rows' \in [DOMAIN rows' -> Records]  BY <3>1, <3>2, <3>4
      <3> QED  BY <3>3, <3>5 DEF IsTable, Records
    <2>4. forked' \in BOOLEAN  BY <1>4 DEF Insert
    <2> QED  BY <1>4, <2>1, <2>2, <2>3, <2>4, IdleTyped, ProcTyped DEF Insert, End, TypeOK
  <1>5. ASSUME NEW c \in Procs, Select(c) PROVE TypeOK'
    <2> DEFINE last == Latest(Expired)
               r == [Idle EXCEPT !.at = "checkpoint", !.last = last, !.hash = rows[last].hash]
    <2>1. last \in DOMAIN rows /\ last \in Nat /\ rows[last].hash \in Nat
      <3>1. lastId \in Nat /\ Expired \in SUBSET (1..lastId) /\ Expired # {}
        BY <1>5 DEF Select, Expired, TypeOK, IsTable
      <3>2. last \in Expired  BY <3>1, LatestIsThere
      <3> HIDE DEF last
      <3>3. last \in DOMAIN rows  BY <3>2 DEF Expired
      <3>4. rows[last] \in Records  BY <3>3 DEF TypeOK, IsTable
      <3> QED  BY <3>3, <3>4 DEF Records, TypeOK, IsTable
    <2>2. proc' = [proc EXCEPT ![c] = r]  BY <1>5 DEF Select
    <2> HIDE DEF last
    <2>3. r \in [at : Labels, hash : Nat, last : Nat, seen : {r.seen}, alarm : BOOLEAN]
          /\ r.seen = Idle.seen
      <3> DEFINE hash == rows[last].hash
      <3>1. hash \in Nat /\ r = [Idle EXCEPT !.at = "checkpoint", !.last = last, !.hash = hash]
        BY <2>1
      <3> HIDE DEF hash
      <3> QED  BY <2>1, <3>1 DEF Idle, Labels
    <2>4. lastId' = lastId /\ lastId' \in Nat  BY <1>5 DEF Select, TypeOK
    <2>5. IsTable(r.seen, lastId')  BY <2>3, <2>4, IdleTyped
    <2>6. IsTable(rows', lastId')  BY <1>5 DEF Select, TypeOK
    <2> HIDE DEF r
    <2>7. UNCHANGED <<checkpoints, day, kills, forked, crossed>>  BY <1>5 DEF Select
    <2> QED  BY <2>2, <2>3, <2>4, <2>5, <2>6, <2>7, ProcTyped DEF TypeOK
  <1>6. ASSUME NEW c \in Procs, Checkpoint(c) PROVE TypeOK'
    <2> DEFINE r == [proc[c] EXCEPT !.at = "delete"]
    <2>1. proc' = [proc EXCEPT ![c] = r]  BY <1>6 DEF Checkpoint
    <2>2. r = [at |-> "delete", hash |-> proc[c].hash, last |-> proc[c].last,
               seen |-> proc[c].seen, alarm |-> proc[c].alarm]
      <3>1. proc[c] = [at |-> proc[c].at, hash |-> proc[c].hash, last |-> proc[c].last,
                       seen |-> proc[c].seen, alarm |-> proc[c].alarm]  BY ProcShape
      <3> QED  BY <3>1
    <2>3. r \in [at : Labels, hash : Nat, last : Nat, seen : {r.seen}, alarm : BOOLEAN]
      BY <2>2, ProcShape DEF Labels
    <2>4. lastId' = lastId /\ lastId' \in Nat  BY <1>6 DEF Checkpoint, TypeOK
    <2>5. IsTable(r.seen, lastId')
      <3>1. IsTable(proc[c].seen, lastId)  BY DEF TypeOK
      <3> QED  BY <2>2, <2>4, <3>1 DEF IsTable, Records
    <2>6. IsTable(rows', lastId')  BY <1>6 DEF Checkpoint, WriteCheckpoint, TypeOK, IsTable, Records
    <2>7. checkpoints' \in Seq([last : Nat, hash : Nat])
      BY <1>6, ProcShape DEF Checkpoint, WriteCheckpoint, TypeOK
    <2>8. crossed' \in BOOLEAN  BY <1>6 DEF Checkpoint, WriteCheckpoint
    <2> HIDE DEF r
    <2> QED  BY <1>6, <2>1, <2>3, <2>4, <2>5, <2>6, <2>7, <2>8, ProcTyped DEF Checkpoint, TypeOK
  <1>7. ASSUME NEW c \in Procs, Delete(c) PROVE TypeOK'
    <2>1. lastId' = lastId /\ lastId' \in Nat  BY <1>7 DEF Delete, TypeOK
    <2>2. IsTable(Idle.seen, lastId')  BY <2>1, IdleTyped
    <2>3. IsTable(rows', lastId')
      <3>1. rows' = [i \in Kept(c) |-> rows[i]]  BY <1>7 DEF Delete
      <3>2. Kept(c) \subseteq DOMAIN rows  BY DEF Kept
      <3> QED  BY <2>1, <3>1, <3>2 DEF TypeOK, IsTable, Records
    <2> QED  BY <1>7, <2>1, <2>2, <2>3, IdleTyped, ProcTyped DEF Delete, End, TypeOK
  <1>8. ASSUME NEW c \in Procs, ReadRows(c) PROVE TypeOK'
    <2> DEFINE r == [Idle EXCEPT !.at = "verify", !.seen = rows]
    <2>1. proc' = [proc EXCEPT ![c] = r]  BY <1>8 DEF ReadRows
    <2>2. r \in [at : Labels, hash : Nat, last : Nat, seen : {r.seen}, alarm : BOOLEAN]
          /\ r.seen = rows
      BY DEF Idle, Labels, Genesis
    <2>3. lastId' = lastId /\ lastId' \in Nat  BY <1>8 DEF ReadRows, TypeOK
    <2>4. IsTable(rows', lastId') /\ rows' = rows  BY <1>8 DEF ReadRows, TypeOK
    <2>5. IsTable(r.seen, lastId')  BY <2>2, <2>4
    <2> HIDE DEF r
    <2>6. UNCHANGED <<checkpoints, day, kills, forked, crossed>>  BY <1>8 DEF ReadRows
    <2> QED  BY <2>1, <2>2, <2>3, <2>4, <2>5, <2>6, ProcTyped DEF TypeOK
  <1>9. ASSUME NEW c \in Procs, Verify(c) PROVE TypeOK'
    <2> DEFINE alarm == ~ Valid(proc[c].seen)
               r == [Idle EXCEPT !.at = "verified", !.alarm = alarm]
    <2>1. alarm \in BOOLEAN  OBVIOUS
    <2>2. proc' = [proc EXCEPT ![c] = r]  BY <1>9 DEF Verify
    <2> HIDE DEF alarm
    <2>3. r \in [at : Labels, hash : Nat, last : Nat, seen : {r.seen}, alarm : BOOLEAN]
          /\ r.seen = Idle.seen
      BY <2>1 DEF Idle, Labels, Genesis
    <2>4. lastId' = lastId /\ lastId' \in Nat  BY <1>9 DEF Verify, TypeOK
    <2>5. IsTable(r.seen, lastId')  BY <2>3, <2>4, IdleTyped
    <2>6. IsTable(rows', lastId')  BY <1>9 DEF Verify, TypeOK, IsTable, Records
    <2> HIDE DEF r
    <2> QED  BY <1>9, <2>2, <2>3, <2>4, <2>5, <2>6, ProcTyped DEF Verify, TypeOK
  <1>10. ASSUME NEW c \in Procs, Report(c) \/ Kill(c) PROVE TypeOK'
    <2>1. lastId' = lastId /\ lastId' \in Nat  BY <1>10 DEF Report, Kill, TypeOK
    <2>2. IsTable(Idle.seen, lastId')  BY <2>1, IdleTyped
    <2>3. IsTable(rows', lastId')  BY <1>10 DEF Report, Kill, TypeOK, IsTable, Records
    <2>4. kills' \in Nat  BY <1>10 DEF Report, Kill, TypeOK
    <2>5. proc' = [proc EXCEPT ![c] = Idle]  BY <1>10 DEF Report, Kill, End
    <2> QED  BY <1>10, <2>1, <2>2, <2>3, <2>4, <2>5, IdleTyped, ProcTyped DEF Report, Kill, TypeOK
  <1> QED  BY <1>1, <1>2, <1>3, <1>4, <1>5, <1>6, <1>7, <1>8, <1>9, <1>10 DEF Next

-----------------------------------------------------------------------------
\* An element of a sequence is of the sequence's type.
LEMMA ElementTyped ==
  ASSUME NEW S, NEW s \in Seq(S), NEW k \in 1..Len(s)
  PROVE  s[k] \in S
  OBVIOUS

\* A step that only takes a process away from pruning changes nothing the other
\* parts speak of.
LEMMA QuietStep ==
  ASSUME IInv, NEW c \in Procs, \A d \in Procs \ {c} : proc'[d] = proc[d],
         proc'[c].at \notin {"checkpoint", "delete"},
         UNCHANGED <<rows, lastId, checkpoints, day>>
  PROVE  (PrunesAreDue /\ CheckpointPrecedesDelete /\ StampsGrow /\ StampsArePast
            /\ RemovalsAreCheckpointed)'
  <1>1. \A d \in Procs : d = c \/ proc'[d] = proc[d]  OBVIOUS
  <1>2. PrunesAreDue'  BY <1>1 DEF IInv, PrunesAreDue
  <1>3. CheckpointPrecedesDelete'  BY <1>1 DEF IInv, CheckpointPrecedesDelete
  <1>4. (StampsGrow /\ StampsArePast /\ RemovalsAreCheckpointed)'
    BY DEF IInv, StampsGrow, StampsArePast, RemovalsAreCheckpointed
  <1> QED  BY <1>2, <1>3, <1>4

\* A new record is the last and of today, and has an id no prune holds.
LEMMA InsertStep ==
  ASSUME IInv, NEW c \in Procs, Insert(c)
  PROVE  (PrunesAreDue /\ CheckpointPrecedesDelete /\ StampsGrow /\ StampsArePast
            /\ RemovalsAreCheckpointed)'
  <1> DEFINE row == [prev |-> proc[c].hash, hash |-> lastId + 1, stamp |-> day]
  <1>1. rows' = [i \in DOMAIN rows \union {lastId + 1} |->
                    IF i = lastId + 1 THEN row ELSE rows[i]]  BY DEF Insert
  <1>2. row.stamp = day  OBVIOUS
  <1> HIDE DEF row
  <1>3. lastId \in Nat /\ lastId' = lastId + 1 /\ DOMAIN rows \subseteq 1..lastId
    BY DEF IInv, TypeOK, IsTable, Insert
  <1>4. /\ DOMAIN rows' = DOMAIN rows \union {lastId + 1}
        /\ rows'[lastId + 1] = row
        /\ \A i \in DOMAIN rows : rows'[i] = rows[i] /\ i \in Nat /\ i <= lastId
    BY <1>1, <1>3
  <1>5. UNCHANGED <<checkpoints, day>>  BY DEF Insert
  <1>6. \A d \in Procs : proc'[d] = IF d = c THEN Idle ELSE proc[d]
    BY DEF Insert, End, IInv, TypeOK
  <1>7. PrunesAreDue'
    <2> SUFFICES ASSUME NEW d \in Procs, proc'[d].at \in {"checkpoint", "delete"}
                 PROVE  /\ proc'[d].last <= lastId'
                        /\ \A i \in DOMAIN rows' : i <= proc'[d].last =>
                                rows'[i].stamp + Retention < day'
      BY DEF PrunesAreDue
    <2>1. d # c /\ proc'[d] = proc[d]  BY <1>6 DEF Idle
    <2>2. proc[d].last \in Nat  BY ProcShape DEF IInv
    <2>3. proc[d].last <= lastId  BY <2>1 DEF IInv, PrunesAreDue
    <2> QED  BY <1>3, <1>4, <1>5, <2>1, <2>2, <2>3 DEF IInv, PrunesAreDue
  <1>8. CheckpointPrecedesDelete'
    BY <1>5, <1>6 DEF IInv, CheckpointPrecedesDelete, Idle
  <1>9. day \in Nat /\ \A i \in DOMAIN rows : rows[i].stamp \in Nat
    BY DEF IInv, TypeOK, IsTable, Records
  <1>10. StampsGrow'
    <2>1. \A i \in DOMAIN rows : ~ (lastId + 1 <= i)  BY <1>3, <1>4
    <2>2. \A i \in DOMAIN rows : rows[i].stamp <= day  BY DEF IInv, StampsArePast
    <2> QED  BY <1>2, <1>3, <1>4, <1>9, <2>1, <2>2 DEF IInv, StampsGrow
  <1>11. StampsArePast'  BY <1>2, <1>4, <1>5, <1>9 DEF IInv, StampsArePast
  <1>12. RemovalsAreCheckpointed'  BY <1>3, <1>4, <1>5 DEF IInv, RemovalsAreCheckpointed
  <1> QED  BY <1>7, <1>8, <1>10, <1>11, <1>12

\* What a prune selects has expired, with everything before it.
LEMMA SelectStep ==
  ASSUME IInv, NEW c \in Procs, Select(c)
  PROVE  (PrunesAreDue /\ CheckpointPrecedesDelete /\ StampsGrow /\ StampsArePast
            /\ RemovalsAreCheckpointed)'
  <1> DEFINE last == Latest(Expired)
             r == [Idle EXCEPT !.at = "checkpoint", !.last = last, !.hash = rows[last].hash]
  <1>1. lastId \in Nat /\ DOMAIN rows \subseteq 1..lastId
    BY DEF IInv, TypeOK, IsTable
  <1>2. last \in Expired
    BY <1>1, LatestIsThere DEF Select, Expired
  <1>3. proc' = [proc EXCEPT ![c] = r]  BY DEF Select
  <1> HIDE DEF last
  <1>4. r.at = "checkpoint" /\ r.last = last  BY DEF Idle
  <1> HIDE DEF r
  <1>5. \A d \in Procs : proc'[d] = IF d = c THEN r ELSE proc[d]
    BY <1>3 DEF IInv, TypeOK
  <1>6. UNCHANGED <<rows, lastId, checkpoints, day>>  BY DEF Select
  <1>7. last \in DOMAIN rows /\ rows[last].stamp + Retention < day  BY <1>2 DEF Expired
  <1>8. \A i \in DOMAIN rows : i <= last => rows[i].stamp + Retention < day
    <2>1. \A i \in DOMAIN rows : rows[i].stamp \in Nat  BY DEF IInv, TypeOK, IsTable, Records
    <2>2. \A i \in DOMAIN rows : i <= last => rows[i].stamp <= rows[last].stamp
      BY <1>7 DEF IInv, StampsGrow
    <2> QED  BY <1>7, <2>1, <2>2, ChainAssumption DEF IInv, TypeOK
  <1>9. PrunesAreDue'
    BY <1>1, <1>4, <1>5, <1>6, <1>7, <1>8 DEF IInv, PrunesAreDue
  <1>10. CheckpointPrecedesDelete'
    BY <1>4, <1>5, <1>6 DEF IInv, CheckpointPrecedesDelete
  <1>11. (StampsGrow /\ StampsArePast /\ RemovalsAreCheckpointed)'
    BY <1>6 DEF IInv, StampsGrow, StampsArePast, RemovalsAreCheckpointed
  <1> QED  BY <1>9, <1>10, <1>11

\* The checkpoint that is written covers what its process will delete.
LEMMA CheckpointStep ==
  ASSUME IInv, NEW c \in Procs, Checkpoint(c)
  PROVE  (PrunesAreDue /\ CheckpointPrecedesDelete /\ StampsGrow /\ StampsArePast
            /\ RemovalsAreCheckpointed)'
  <1>1. \A d \in Procs : proc'[d] = IF d = c THEN [proc[c] EXCEPT !.at = "delete"] ELSE proc[d]
    BY DEF Checkpoint, IInv, TypeOK
  <1>2. proc[c].at = "checkpoint"  BY DEF Checkpoint, At
  <1>3. proc'[c].last = proc[c].last /\ \A d \in Procs \ {c} : proc'[d] = proc[d]
    <2>1. [proc[c] EXCEPT !.at = "delete"].last = proc[c].last  BY ProcShape DEF IInv
    <2> QED  BY <1>1, <2>1
  <1>4. UNCHANGED <<rows, lastId, day>>  BY DEF Checkpoint, WriteCheckpoint
  <1> DEFINE e == [last |-> proc[c].last, hash |-> proc[c].hash]
  <1>5. checkpoints' = Append(checkpoints, e)  BY DEF Checkpoint, WriteCheckpoint
  <1>6. checkpoints \in Seq([last : Nat, hash : Nat]) /\ e \in [last : Nat, hash : Nat]
    BY ProcShape DEF IInv, TypeOK
  <1>7. e.last = proc[c].last /\ proc[c].last \in Nat  BY ProcShape DEF IInv
  <1> HIDE DEF e
  <1>8. /\ Len(checkpoints') = Len(checkpoints) + 1 /\ Len(checkpoints) \in Nat
        /\ checkpoints'[Len(checkpoints')] = e
        /\ \A k \in 1..Len(checkpoints) : checkpoints'[k] = checkpoints[k]
    BY <1>5, <1>6
  <1>9. PrunesAreDue'
    BY <1>2, <1>3, <1>4 DEF IInv, PrunesAreDue
  <1>10. CheckpointPrecedesDelete'
    <2> SUFFICES ASSUME NEW d \in Procs, proc'[d].at = "delete"
                 PROVE  \E k \in 1..Len(checkpoints') : checkpoints'[k].last >= proc'[d].last
      BY DEF CheckpointPrecedesDelete
    <2>1. CASE d = c
      <3>1. Len(checkpoints') \in 1..Len(checkpoints')  BY <1>8
      <3> QED  BY <1>3, <1>7, <1>8, <2>1, <3>1
    <2>2. CASE d # c
      <3>1. PICK k \in 1..Len(checkpoints) : checkpoints[k].last >= proc[d].last
        BY <1>3, <2>2 DEF IInv, CheckpointPrecedesDelete
      <3> QED  BY <1>3, <1>8, <2>2, <3>1
    <2> QED  BY <2>1, <2>2
  <1>11. (StampsGrow /\ StampsArePast)'  BY <1>4 DEF IInv, StampsGrow, StampsArePast
  <1>12. RemovalsAreCheckpointed'
    <2> SUFFICES ASSUME NEW i \in 1..lastId, i \notin DOMAIN rows
                 PROVE  \E k \in 1..Len(checkpoints') : checkpoints'[k].last >= i
      BY <1>4 DEF RemovalsAreCheckpointed
    <2>1. PICK k \in 1..Len(checkpoints) : checkpoints[k].last >= i
      BY DEF IInv, RemovalsAreCheckpointed
    <2> QED  BY <1>8, <2>1
  <1> QED  BY <1>9, <1>10, <1>11, <1>12

\* What goes is covered by the checkpoint of the process that deletes it.
LEMMA DeleteStep ==
  ASSUME IInv, NEW c \in Procs, Delete(c)
  PROVE  (PrunesAreDue /\ CheckpointPrecedesDelete /\ StampsGrow /\ StampsArePast
            /\ RemovalsAreCheckpointed)'
  <1>1. \A d \in Procs : proc'[d] = IF d = c THEN Idle ELSE proc[d]
    BY DEF Delete, End, IInv, TypeOK
  <1>2. proc[c].at = "delete" /\ proc[c].last \in Nat  BY ProcShape DEF Delete, At, IInv
  <1>3. UNCHANGED <<lastId, checkpoints, day>>  BY DEF Delete
  <1>4. /\ DOMAIN rows' = {i \in DOMAIN rows : i > proc[c].last}
        /\ \A i \in DOMAIN rows' : rows'[i] = rows[i]
    BY DEF Delete, Kept
  <1>5. PrunesAreDue'  BY <1>1, <1>3, <1>4 DEF IInv, PrunesAreDue, Idle
  <1>6. CheckpointPrecedesDelete'  BY <1>1, <1>3 DEF IInv, CheckpointPrecedesDelete, Idle
  <1>7. (StampsGrow /\ StampsArePast)'  BY <1>3, <1>4 DEF IInv, StampsGrow, StampsArePast
  <1>8. RemovalsAreCheckpointed'
    <2> SUFFICES ASSUME NEW i \in 1..lastId, i \notin DOMAIN rows'
                 PROVE  \E k \in 1..Len(checkpoints) : checkpoints[k].last >= i
      BY <1>3 DEF RemovalsAreCheckpointed
    <2>1. CASE i \notin DOMAIN rows  BY <2>1 DEF IInv, RemovalsAreCheckpointed
    <2>2. CASE i \in DOMAIN rows
      <3>1. i <= proc[c].last /\ i \in Nat  BY <1>2, <1>4, <2>2 DEF IInv, TypeOK
      <3>2. PICK k \in 1..Len(checkpoints) : checkpoints[k].last >= proc[c].last
        BY <1>2 DEF IInv, CheckpointPrecedesDelete
      <3>3. checkpoints[k].last \in Nat
        <4>1. checkpoints \in Seq([last : Nat, hash : Nat])  BY DEF IInv, TypeOK
        <4>2. checkpoints[k] \in [last : Nat, hash : Nat]  BY <4>1, ElementTyped
        <4> QED  BY <4>2
      <3> QED  BY <1>2, <3>1, <3>2, <3>3
    <2> QED  BY <2>1, <2>2
  <1> QED  BY <1>5, <1>6, <1>7, <1>8

-----------------------------------------------------------------------------
\* The invariant of the audit chain: for every step of every process.
THEOREM ChainInductive == Spec => []IInv
  <1>1. Init => IInv  BY InitIInv
  <1>2. IInv /\ [Next]_vars => IInv'
    <2> SUFFICES ASSUME IInv, [Next]_vars PROVE IInv'  OBVIOUS
    <2>1. TypeOK'  BY TypeStep DEF IInv
    <2>2. CASE UNCHANGED vars
      BY <2>1, <2>2 DEF vars, IInv, PrunesAreDue, CheckpointPrecedesDelete, StampsGrow,
                        StampsArePast, RemovalsAreCheckpointed
    <2>3. CASE Tick
      <3>1. UNCHANGED <<rows, lastId, checkpoints, proc>> /\ day' = day + 1  BY <2>3 DEF Tick
      <3>2. day \in Nat /\ \A i \in DOMAIN rows : rows[i].stamp \in Nat
        BY DEF IInv, TypeOK, IsTable, Records
      <3>3. PrunesAreDue'  BY <3>1, <3>2, ChainAssumption DEF IInv, PrunesAreDue
      <3>4. StampsArePast'  BY <3>1, <3>2 DEF IInv, StampsArePast
      <3> QED  BY <2>1, <3>1, <3>3, <3>4
               DEF IInv, CheckpointPrecedesDelete, StampsGrow, RemovalsAreCheckpointed
    <2>4. ASSUME NEW c \in Procs, ReadLast(c) \/ ReadRows(c) \/ Verify(c) \/ Report(c) \/ Kill(c)
          PROVE  IInv'
      <3>1. DOMAIN proc = Procs  BY DEF IInv, TypeOK
      <3>2. UNCHANGED <<rows, lastId, checkpoints, day>>
        BY <2>4 DEF ReadLast, ReadRows, Verify, Report, Kill
      <3>3. /\ \A d \in Procs \ {c} : proc'[d] = proc[d]
            /\ proc'[c].at \notin {"checkpoint", "delete"}
        <4>1. CASE ReadLast(c)
          <5> DEFINE r == [Idle EXCEPT !.at = "insert", !.hash = LastHash]
          <5>1. r.at = "insert"  BY DEF Idle
          <5>2. proc' = [proc EXCEPT ![c] = r]  BY <4>1 DEF ReadLast
          <5> HIDE DEF r
          <5> QED  BY <3>1, <5>1, <5>2
        <4>2. CASE ReadRows(c)
          <5> DEFINE r == [Idle EXCEPT !.at = "verify", !.seen = rows]
          <5>1. r.at = "verify"  BY DEF Idle
          <5>2. proc' = [proc EXCEPT ![c] = r]  BY <4>2 DEF ReadRows
          <5> HIDE DEF r
          <5> QED  BY <3>1, <5>1, <5>2
        <4>3. CASE Verify(c)
          <5> DEFINE r == [Idle EXCEPT !.at = "verified", !.alarm = ~ Valid(proc[c].seen)]
          <5>1. r.at = "verified"  BY DEF Idle
          <5>2. proc' = [proc EXCEPT ![c] = r]  BY <4>3 DEF Verify
          <5> HIDE DEF r
          <5> QED  BY <3>1, <5>1, <5>2
        <4>4. CASE Report(c) \/ Kill(c)
          <5>1. proc' = [proc EXCEPT ![c] = Idle]  BY <4>4 DEF Report, Kill, End
          <5>2. Idle.at = "idle"  BY DEF Idle
          <5> QED  BY <3>1, <5>1, <5>2
        <4> QED  BY <2>4, <4>1, <4>2, <4>3, <4>4
      <3> QED  BY <2>1, <3>2, <3>3, QuietStep DEF IInv
    <2>5. ASSUME NEW c \in Procs, Insert(c) PROVE IInv'  BY <2>1, <2>5, InsertStep DEF IInv
    <2>6. ASSUME NEW c \in Procs, Select(c) PROVE IInv'  BY <2>1, <2>6, SelectStep DEF IInv
    <2>7. ASSUME NEW c \in Procs, Checkpoint(c) PROVE IInv'
      BY <2>1, <2>7, CheckpointStep DEF IInv
    <2>8. ASSUME NEW c \in Procs, Delete(c) PROVE IInv'  BY <2>1, <2>8, DeleteStep DEF IInv
    <2> QED  BY <2>2, <2>3, <2>4, <2>5, <2>6, <2>7, <2>8 DEF Next
  <1> QED  BY <1>1, <1>2, PTL DEF Spec

\* Every value of every variable is of its type.
THEOREM ChainTyped == Spec => []TypeOK
  <1>1. IInv => TypeOK  BY DEF IInv
  <1> QED  BY <1>1, ChainInductive, PTL

\* No record goes without a checkpoint that covers it, however prunes overlap
\* with each other and with appends, and wherever one is killed.
THEOREM NothingGoesUncovered == Spec => []RemovalsAreCheckpointed
  <1>1. IInv => RemovalsAreCheckpointed  BY DEF IInv
  <1> QED  BY <1>1, ChainInductive, PTL

\* No record goes before its retention is over.
THEOREM OnlyExpiredGo == Spec => PrunesOnlyExpired
  <1> DEFINE A == \A i \in DOMAIN rows : i \in DOMAIN rows' \/ rows[i].stamp + Retention < day
  <1>1. IInv /\ [Next]_vars => [A]_vars
    <2> SUFFICES ASSUME IInv, [Next]_vars PROVE [A]_vars  OBVIOUS
    <2>1. CASE rows' = rows  BY <2>1
    <2>2. ASSUME NEW c \in Procs, Insert(c) PROVE A
      <3>1. DOMAIN rows' = DOMAIN rows \union {lastId + 1}  BY <2>2 DEF Insert
      <3> QED  BY <3>1
    <2>3. ASSUME NEW c \in Procs, Delete(c) PROVE A
      <3>1. DOMAIN rows' = {i \in DOMAIN rows : i > proc[c].last}  BY <2>3 DEF Delete, Kept
      <3>2. proc[c].at = "delete" /\ proc[c].last \in Nat /\ \A i \in DOMAIN rows : i \in Nat
        BY <2>3, ProcShape DEF Delete, At, IInv, TypeOK, IsTable
      <3>3. \A i \in DOMAIN rows : i <= proc[c].last => rows[i].stamp + Retention < day
        BY <3>2 DEF IInv, PrunesAreDue
      <3> QED  BY <3>1, <3>2, <3>3
    <2>4. CASE Tick  BY <2>1, <2>4 DEF Tick
    <2>5. ASSUME NEW c \in Procs, ReadLast(c) \/ Select(c) \/ Checkpoint(c) \/ ReadRows(c)
                                    \/ Verify(c) \/ Report(c) \/ Kill(c)
          PROVE  rows' = rows
      BY <2>5 DEF ReadLast, Select, Checkpoint, WriteCheckpoint, ReadRows, Verify, Report, Kill
    <2>6. CASE UNCHANGED vars  BY <2>6
    <2> QED  BY <2>1, <2>2, <2>3, <2>4, <2>5, <2>6 DEF Next
  <1> QED  BY <1>1, ChainInductive, PTL DEF Spec, PrunesOnlyExpired

-----------------------------------------------------------------------------
(* Why verification raises no alarm.                                        *)

\* The hash of a record is its number.
HashesAreIds(t) == \A i \in DOMAIN t : t[i].hash = i

\* A record names the one before it, if that is still there.
Linked(t) == \A i \in DOMAIN t : i - 1 \in DOMAIN t => t[i].prev = i - 1

\* Prunes take records from the front only.
Unbroken(t, n) == \A i \in DOMAIN t : \A k \in i..n : k \in DOMAIN t
Contiguous(t) == \A i, j \in DOMAIN t : \A k \in i..j : k \in DOMAIN t

\* What is missing before a record is covered by a checkpoint.
Covered(t, points) ==
    \A i \in DOMAIN t : \/ i = 1 \/ i - 1 \in DOMAIN t
                        \/ \E k \in 1..Len(points) : points[k].last >= i - 1

\* A table as verification has to find it.
Sound(t, points, fork) ==
    HashesAreIds(t) /\ Contiguous(t) /\ Covered(t, points) /\ (~ fork => Linked(t))

CheckpointsGrow ==
    \A j, k \in 1..Len(checkpoints) : j <= k => checkpoints[j].last <= checkpoints[k].last

RowsSound == HashesAreIds(rows) /\ Unbroken(rows, lastId) /\ (~ forked => Linked(rows))
SeenSound == \A c \in Procs : Sound(proc[c].seen, checkpoints, forked)

AlarmInv == RowsSound /\ SeenSound /\ (~ crossed => CheckpointsGrow) /\ AlarmsOnlyOnRaces

\* A set of ids that were given out has a first one, if it is not empty.
LEMMA FirstIsThere ==
  ASSUME NEW n \in Nat, NEW ids \in SUBSET (1..n), ids # {}
  PROVE  First(ids) \in ids /\ \A j \in ids : First(ids) <= j
  <1> DEFINE R == {n + 1 - i : i \in ids}
  <1>1. R \in SUBSET (1..n) /\ R # {}
    <2>1. \A i \in ids : n + 1 - i \in 1..n  OBVIOUS
    <2> QED  BY <2>1
  <1> HIDE DEF R
  <1>2. Latest(R) \in R /\ \A j \in R : j <= Latest(R)  BY <1>1, LatestIsThere
  <1>3. PICK i \in ids : Latest(R) = n + 1 - i  BY <1>2 DEF R
  <1>4. \A j \in ids : n + 1 - j <= n + 1 - i  BY <1>2, <1>3 DEF R
  <1>5. \A j \in ids : i <= j  BY <1>4
  <1> QED  BY <1>5 DEF First

\* A sound table is valid, whatever checkpoints were added since it was read.
LEMMA SoundIsValid ==
  ASSUME TypeOK, NEW t, IsTable(t, lastId), Sound(t, checkpoints, forked),
         ~ forked, CheckpointsGrow
  PROVE  Valid(t)
  <1>1. lastId \in Nat /\ DOMAIN t \in SUBSET (1..lastId)  BY DEF TypeOK, IsTable
  <1>2. HashesAreIds(t) /\ Contiguous(t) /\ Covered(t, checkpoints) /\ Linked(t)  BY DEF Sound
  <1>3. ASSUME NEW i \in DOMAIN t PROVE LinkHolds(t, i)
    <2> DEFINE Before == {j \in DOMAIN t : j < i}
    <2> SUFFICES ASSUME i # First(DOMAIN t) PROVE t[i].prev = t[Latest(Before)].hash
      BY DEF LinkHolds
    <2>1. First(DOMAIN t) \in DOMAIN t /\ First(DOMAIN t) < i
      <3>1. First(DOMAIN t) \in DOMAIN t /\ First(DOMAIN t) <= i  BY <1>1, FirstIsThere
      <3>2. First(DOMAIN t) \in Nat /\ i \in Nat  BY <1>1, <3>1
      <3> QED  BY <3>1, <3>2
    <2>2. i - 1 \in First(DOMAIN t)..i  BY <1>1, <2>1
    <2>3. i - 1 \in DOMAIN t  BY <1>2, <2>1, <2>2 DEF Contiguous
    <2>4. i - 1 \in Before /\ Before \in SUBSET (1..lastId)  BY <1>1, <2>3
    <2>5. Latest(Before) \in Before /\ \A j \in Before : j <= Latest(Before)
      BY <1>1, <2>4, LatestIsThere
    <2>6. Latest(Before) = i - 1
      <3>1. Latest(Before) < i /\ Latest(Before) \in Nat /\ i \in Nat  BY <1>1, <2>5
      <3>2. i - 1 <= Latest(Before)  BY <2>4, <2>5
      <3> HIDE DEF Before
      <3> QED  BY <3>1, <3>2
    <2> HIDE DEF Before
    <2>7. t[i].prev = i - 1 /\ t[i - 1].hash = i - 1  BY <1>2, <2>3 DEF Linked, HashesAreIds
    <2> QED  BY <2>6, <2>7
  <1>4. ASSUME DOMAIN t # {}, checkpoints # <<>>
        PROVE  First(DOMAIN t) <= checkpoints[Len(checkpoints)].last + 1
    <2>1. First(DOMAIN t) \in DOMAIN t /\ \A j \in DOMAIN t : First(DOMAIN t) <= j
      BY <1>1, <1>4, FirstIsThere
    <2>2. checkpoints \in Seq([last : Nat, hash : Nat])  BY DEF TypeOK
    <2>3. Len(checkpoints) \in 1..Len(checkpoints)  BY <1>4, <2>2
    <2>4. \A k \in 1..Len(checkpoints) : checkpoints[k].last \in Nat
      <3>1. \A k \in 1..Len(checkpoints) : checkpoints[k] \in [last : Nat, hash : Nat]
        BY <2>2, ElementTyped
      <3> QED  BY <3>1
    <2>5. CASE First(DOMAIN t) = 1  BY <2>3, <2>4, <2>5
    <2>6. CASE First(DOMAIN t) - 1 \in DOMAIN t
      <3>1. First(DOMAIN t) <= First(DOMAIN t) - 1 /\ First(DOMAIN t) \in Nat  BY <1>1, <2>1, <2>6
      <3> QED  BY <3>1
    <2>7. ASSUME NEW k \in 1..Len(checkpoints), checkpoints[k].last >= First(DOMAIN t) - 1
          PROVE  First(DOMAIN t) <= checkpoints[Len(checkpoints)].last + 1
      <3>1. checkpoints[k].last <= checkpoints[Len(checkpoints)].last
        BY <2>2, <2>3 DEF CheckpointsGrow
      <3>2. First(DOMAIN t) \in Nat  BY <1>1, <2>1
      <3> QED  BY <2>3, <2>4, <2>7, <3>1, <3>2
    <2> QED  BY <1>2, <2>1, <2>5, <2>6, <2>7 DEF Covered
  <1> QED  BY <1>3, <1>4 DEF Valid

\* Checkpoints and forks are never taken back, so a table that was read stays sound.
LEMMA SoundStays ==
  ASSUME NEW t, NEW points, NEW more, NEW fork, NEW later,
         Sound(t, points, fork), fork => later,
         \A k \in 1..Len(points) : k \in 1..Len(more) /\ more[k] = points[k]
  PROVE  Sound(t, more, later)
  <1>1. Covered(t, more)
    <2> SUFFICES ASSUME NEW i \in DOMAIN t, i # 1, i - 1 \notin DOMAIN t
                 PROVE  \E k \in 1..Len(more) : more[k].last >= i - 1
      BY DEF Covered
    <2>1. PICK k \in 1..Len(points) : points[k].last >= i - 1  BY DEF Sound, Covered
    <2> QED  BY <2>1
  <1> QED  BY <1>1 DEF Sound

\* A process that has read nothing has nothing to call broken.
LEMMA NothingSeen ==
  ASSUME NEW points, NEW fork
  PROVE  Sound(<<>>, points, fork)
  <1>1. DOMAIN <<>> = {}  OBVIOUS
  <1> QED  BY <1>1 DEF Sound, HashesAreIds, Contiguous, Covered, Linked

\* The rows of the database are a table verification has to find valid.
LEMMA RowsAreSound ==
  ASSUME IInv, RowsSound
  PROVE  Sound(rows, checkpoints, forked)
  <1>1. lastId \in Nat /\ DOMAIN rows \subseteq 1..lastId  BY DEF IInv, TypeOK, IsTable
  <1>2. Contiguous(rows)
    <2>1. \A i, j \in DOMAIN rows : \A k \in i..j : k \in i..lastId  BY <1>1
    <2> QED  BY <2>1 DEF RowsSound, Unbroken, Contiguous
  <1>3. Covered(rows, checkpoints)
    <2> SUFFICES ASSUME NEW i \in DOMAIN rows, i # 1, i - 1 \notin DOMAIN rows
                 PROVE  \E k \in 1..Len(checkpoints) : checkpoints[k].last >= i - 1
      BY DEF Covered
    <2>1. i - 1 \in 1..lastId  BY <1>1
    <2> QED  BY <2>1 DEF IInv, RemovalsAreCheckpointed
  <1> QED  BY <1>2, <1>3 DEF Sound, RowsSound

\* An append is linked to the last record, or it is a fork; a prune takes the front.
LEMMA RowsStep ==
  ASSUME IInv, RowsSound, NEW c \in Procs, Insert(c) \/ Delete(c)
  PROVE  RowsSound'
  <1>1. lastId \in Nat /\ DOMAIN rows \in SUBSET (1..lastId)  BY DEF IInv, TypeOK, IsTable
  <1>2. CASE Delete(c)
    <2>1. /\ DOMAIN rows' = {i \in DOMAIN rows : i > proc[c].last}
          /\ \A i \in DOMAIN rows' : rows'[i] = rows[i]
          /\ UNCHANGED <<lastId, forked>>
      BY <1>2 DEF Delete, Kept
    <2>2. proc[c].last \in Nat  BY ProcShape DEF IInv
    <2>3. Unbroken(rows', lastId)
      <3> SUFFICES ASSUME NEW i \in DOMAIN rows', NEW k \in i..lastId PROVE k \in DOMAIN rows'
        BY DEF Unbroken
      <3>1. k \in DOMAIN rows  BY <2>1 DEF RowsSound, Unbroken
      <3>2. k > proc[c].last  BY <1>1, <2>1, <2>2
      <3> QED  BY <2>1, <3>1, <3>2
    <2>4. HashesAreIds(rows')  BY <2>1 DEF RowsSound, HashesAreIds
    <2>5. ~ forked => Linked(rows')  BY <2>1 DEF RowsSound, Linked
    <2> QED  BY <2>1, <2>3, <2>4, <2>5 DEF RowsSound
  <1>3. CASE Insert(c)
    <2> DEFINE row == [prev |-> proc[c].hash, hash |-> lastId + 1, stamp |-> day]
    <2>1. /\ rows' = [i \in DOMAIN rows \union {lastId + 1} |->
                        IF i = lastId + 1 THEN row ELSE rows[i]]
          /\ forked' = (forked \/ (DOMAIN rows # {} /\ row.prev # LastHash))
          /\ lastId' = lastId + 1
      BY <1>3 DEF Insert
    <2>2. row.hash = lastId + 1  OBVIOUS
    <2> HIDE DEF row
    <2>3. /\ DOMAIN rows' = DOMAIN rows \union {lastId + 1}
          /\ rows'[lastId + 1] = row
          /\ \A i \in DOMAIN rows : rows'[i] = rows[i] /\ i # lastId + 1
      BY <1>1, <2>1
    <2>4. HashesAreIds(rows')  BY <2>2, <2>3 DEF RowsSound, HashesAreIds
    <2>5. Unbroken(rows', lastId + 1)
      <3> SUFFICES ASSUME NEW i \in DOMAIN rows', NEW k \in i..lastId + 1, k # lastId + 1
                   PROVE  k \in DOMAIN rows
        BY <2>3 DEF Unbroken
      <3>1. i \in DOMAIN rows /\ k \in i..lastId  BY <1>1, <2>3
      <3> QED  BY <3>1 DEF RowsSound, Unbroken
    <2>6. ASSUME ~ forked' PROVE Linked(rows')
      <3>1. ~ forked /\ (DOMAIN rows = {} \/ row.prev = LastHash)
        BY <2>1, <2>6
      <3>2. Linked(rows)  BY <3>1 DEF RowsSound
      <3>3. lastId \in DOMAIN rows => row.prev = lastId
        <4> SUFFICES ASSUME lastId \in DOMAIN rows PROVE row.prev = lastId  OBVIOUS
        <4>1. /\ Latest(DOMAIN rows) \in DOMAIN rows
              /\ \A j \in DOMAIN rows : j <= Latest(DOMAIN rows)
          BY <1>1, LatestIsThere
        <4>2. Latest(DOMAIN rows) = lastId
          <5>1. Latest(DOMAIN rows) <= lastId /\ lastId <= Latest(DOMAIN rows)  BY <1>1, <4>1
          <5>2. Latest(DOMAIN rows) \in Nat  BY <1>1, <4>1
          <5> QED  BY <1>1, <5>1, <5>2
        <4> QED  BY <3>1, <4>2 DEF LastHash, RowsSound, HashesAreIds
      <3> SUFFICES ASSUME NEW i \in DOMAIN rows', i - 1 \in DOMAIN rows'
                   PROVE  rows'[i].prev = i - 1
        BY DEF Linked
      <3>4. CASE i = lastId + 1
        <4>1. i - 1 = lastId /\ lastId # lastId + 1  BY <1>1, <3>4
        <4>2. lastId \in DOMAIN rows  BY <2>3, <4>1
        <4> QED  BY <2>3, <3>3, <3>4, <4>1, <4>2
      <3>5. CASE i \in DOMAIN rows
        <4>1. i - 1 # lastId + 1  BY <1>1, <3>5
        <4>2. i - 1 \in DOMAIN rows  BY <2>3, <4>1
        <4> QED  BY <2>3, <3>2, <3>5, <4>2 DEF Linked
      <3> QED  BY <2>3, <3>4, <3>5
    <2> QED  BY <2>1, <2>4, <2>5, <2>6 DEF RowsSound
  <1> QED  BY <1>2, <1>3

\* Of checkpoints written without overtaking, the last reaches furthest.
LEMMA CheckpointsStep ==
  ASSUME TypeOK, ~ crossed => CheckpointsGrow, NEW c \in Procs, Checkpoint(c)
  PROVE  /\ ~ crossed' => ~ crossed /\ CheckpointsGrow'
         /\ \A k \in 1..Len(checkpoints) :
                k \in 1..Len(checkpoints') /\ checkpoints'[k] = checkpoints[k]
  <1> DEFINE e == [last |-> proc[c].last, hash |-> proc[c].hash]
  <1>1. /\ checkpoints' = Append(checkpoints, e)
        /\ crossed' = (crossed \/ \E k \in 1..Len(checkpoints) : checkpoints[k].last > e.last)
    BY DEF Checkpoint, WriteCheckpoint
  <1>2. checkpoints \in Seq([last : Nat, hash : Nat]) /\ e \in [last : Nat, hash : Nat]
    BY ProcShape DEF TypeOK
  <1>3. e.last \in Nat  BY <1>2
  <1> HIDE DEF e
  <1>4. /\ Len(checkpoints) \in Nat /\ Len(checkpoints') = Len(checkpoints) + 1
        /\ checkpoints'[Len(checkpoints) + 1] = e
        /\ \A k \in 1..Len(checkpoints) : checkpoints'[k] = checkpoints[k]
    BY <1>1, <1>2
  <1>5. \A k \in 1..Len(checkpoints) : checkpoints[k].last \in Nat
    <2>1. \A k \in 1..Len(checkpoints) : checkpoints[k] \in [last : Nat, hash : Nat]
      BY <1>2, ElementTyped
    <2> QED  BY <2>1
  <1>6. ASSUME ~ crossed' PROVE ~ crossed /\ CheckpointsGrow'
    <2>1. ~ crossed /\ \A k \in 1..Len(checkpoints) : ~ (checkpoints[k].last > e.last)
      BY <1>1, <1>6
    <2>2. \A k \in 1..Len(checkpoints) : checkpoints[k].last <= e.last
      BY <1>3, <1>5, <2>1
    <2>3. CheckpointsGrow  BY <2>1
    <2> SUFFICES ASSUME NEW j \in 1..Len(checkpoints'), NEW k \in 1..Len(checkpoints'), j <= k
                 PROVE  checkpoints'[j].last <= checkpoints'[k].last
      BY <2>1 DEF CheckpointsGrow
    <2>4. CASE k \in 1..Len(checkpoints)
      <3>1. j \in 1..Len(checkpoints)  BY <1>4, <2>4
      <3> QED  BY <1>4, <2>3, <2>4, <3>1 DEF CheckpointsGrow
    <2>5. CASE k = Len(checkpoints) + 1 /\ j \in 1..Len(checkpoints)
      BY <1>4, <2>2, <2>5
    <2>6. CASE k = Len(checkpoints) + 1 /\ j = k  BY <1>3, <1>4, <2>6
    <2> QED  BY <1>4, <2>4, <2>5, <2>6
  <1> QED  BY <1>4, <1>6

\* A process keeps the rows it read, reads them or forgets them; an alarm is raised by
\* verification only.
LEMMA SeenStep ==
  ASSUME TypeOK, [Next]_vars, NEW d \in Procs
  PROVE  /\ \/ proc'[d].seen \in {proc[d].seen, <<>>}
            \/ proc'[d].seen = rows /\ UNCHANGED <<rows, forked, checkpoints>>
         /\ proc'[d].alarm => \/ proc[d].alarm
                              \/ ~ Valid(proc[d].seen) /\ UNCHANGED <<forked, crossed>>
  <1>0. DOMAIN proc = Procs  BY DEF TypeOK
  <1> DEFINE Goal ==
        /\ \/ proc'[d].seen \in {proc[d].seen, <<>>}
           \/ proc'[d].seen = rows /\ UNCHANGED <<rows, forked, checkpoints>>
        /\ proc'[d].alarm => \/ proc[d].alarm
                             \/ ~ Valid(proc[d].seen) /\ UNCHANGED <<forked, crossed>>
  <1> SUFFICES Goal  OBVIOUS
  <1>1. CASE proc' = proc  BY <1>1
  <1>2. ASSUME NEW c \in Procs, NEW r, proc' = [proc EXCEPT ![c] = r],
               \/ r.seen \in {proc[c].seen, <<>>}
               \/ r.seen = rows /\ UNCHANGED <<rows, forked, checkpoints>>,
               r.alarm => \/ proc[c].alarm
                          \/ ~ Valid(proc[c].seen) /\ UNCHANGED <<forked, crossed>>
        PROVE  Goal
    <2>1. proc'[d] = IF d = c THEN r ELSE proc[d]  BY <1>0, <1>2
    <2> QED  BY <1>2, <2>1
  <1>3. ASSUME NEW c \in Procs,
               Insert(c) \/ Delete(c) \/ Report(c) \/ Kill(c)
        PROVE  proc' = [proc EXCEPT ![c] = Idle]
    BY <1>3 DEF Insert, Delete, Report, Kill, End
  <1>4. Idle.seen = <<>> /\ Idle.alarm = FALSE  BY DEF Idle
  <1>5. ASSUME NEW c \in Procs, ReadLast(c)
        PROVE  \E r : proc' = [proc EXCEPT ![c] = r] /\ r.seen = <<>> /\ r.alarm = FALSE
    <2> DEFINE r == [Idle EXCEPT !.at = "insert", !.hash = LastHash]
    <2>1. r.seen = <<>> /\ r.alarm = FALSE  BY DEF Idle
    <2>2. proc' = [proc EXCEPT ![c] = r]  BY <1>5 DEF ReadLast
    <2> HIDE DEF r
    <2> QED  BY <2>1, <2>2
  <1>6. ASSUME NEW c \in Procs, Select(c)
        PROVE  \E r : proc' = [proc EXCEPT ![c] = r] /\ r.seen = <<>> /\ r.alarm = FALSE
    <2> DEFINE r == [Idle EXCEPT !.at = "checkpoint", !.last = Latest(Expired),
                                 !.hash = rows[Latest(Expired)].hash]
    <2>1. r.seen = <<>> /\ r.alarm = FALSE  BY DEF Idle
    <2>2. proc' = [proc EXCEPT ![c] = r]  BY <1>6 DEF Select
    <2> HIDE DEF r
    <2> QED  BY <2>1, <2>2
  <1>7. ASSUME NEW c \in Procs, Checkpoint(c)
        PROVE  \E r : /\ proc' = [proc EXCEPT ![c] = r]
                      /\ r.seen = proc[c].seen /\ r.alarm = proc[c].alarm
    <2> DEFINE r == [proc[c] EXCEPT !.at = "delete"]
    <2>1. r.seen = proc[c].seen /\ r.alarm = proc[c].alarm  BY ProcShape
    <2>2. proc' = [proc EXCEPT ![c] = r]  BY <1>7 DEF Checkpoint
    <2> HIDE DEF r
    <2> QED  BY <2>1, <2>2
  <1>8. ASSUME NEW c \in Procs, ReadRows(c)
        PROVE  /\ \E r : proc' = [proc EXCEPT ![c] = r] /\ r.seen = rows /\ r.alarm = FALSE
               /\ UNCHANGED <<rows, forked, checkpoints>>
    <2> DEFINE r == [Idle EXCEPT !.at = "verify", !.seen = rows]
    <2>1. r.seen = rows /\ r.alarm = FALSE  BY DEF Idle
    <2>2. /\ proc' = [proc EXCEPT ![c] = r]
          /\ UNCHANGED <<rows, forked, checkpoints>>
      BY <1>8 DEF ReadRows
    <2> HIDE DEF r
    <2> QED  BY <2>1, <2>2
  <1>9. ASSUME NEW c \in Procs, Verify(c)
        PROVE  /\ \E r : /\ proc' = [proc EXCEPT ![c] = r]
                         /\ r.seen = <<>> /\ r.alarm = ~ Valid(proc[c].seen)
               /\ UNCHANGED <<forked, crossed>>
    <2> DEFINE r == [Idle EXCEPT !.at = "verified", !.alarm = ~ Valid(proc[c].seen)]
    <2>1. r.seen = <<>> /\ r.alarm = ~ Valid(proc[c].seen)  BY DEF Idle
    <2>2. proc' = [proc EXCEPT ![c] = r] /\ UNCHANGED <<forked, crossed>>
      BY <1>9 DEF Verify
    <2> HIDE DEF r
    <2> QED  BY <2>1, <2>2
  <1>10. CASE Tick \/ UNCHANGED vars  BY <1>1, <1>10 DEF Tick, vars
  <1>11. ASSUME NEW c \in Procs, Insert(c) \/ Delete(c) \/ Report(c) \/ Kill(c)
         PROVE  Goal
    BY <1>2, <1>3, <1>4, <1>11
  <1>12. ASSUME NEW c \in Procs, ReadLast(c) \/ Select(c) PROVE Goal
    <2>1. PICK r : proc' = [proc EXCEPT ![c] = r] /\ r.seen = <<>> /\ r.alarm = FALSE
      BY <1>5, <1>6, <1>12
    <2> QED  BY <1>2, <2>1
  <1>13. ASSUME NEW c \in Procs, Checkpoint(c) PROVE Goal
    <2>1. PICK r : /\ proc' = [proc EXCEPT ![c] = r]
                   /\ r.seen = proc[c].seen /\ r.alarm = proc[c].alarm
      BY <1>7, <1>13
    <2> QED  BY <1>2, <2>1
  <1>14. ASSUME NEW c \in Procs, ReadRows(c) PROVE Goal
    <2>1. PICK r : proc' = [proc EXCEPT ![c] = r] /\ r.seen = rows /\ r.alarm = FALSE
      BY <1>8, <1>14
    <2> QED  BY <1>2, <1>8, <1>14, <2>1
  <1>15. ASSUME NEW c \in Procs, Verify(c) PROVE Goal
    <2>1. PICK r : /\ proc' = [proc EXCEPT ![c] = r]
                   /\ r.seen = <<>> /\ r.alarm = ~ Valid(proc[c].seen)
      BY <1>9, <1>15
    <2>2. UNCHANGED <<forked, crossed>>  BY <1>9, <1>15
    <2>3. r.alarm => ~ Valid(proc[c].seen)  BY <2>1
    <2> QED  BY <1>2, <2>1, <2>2, <2>3
  <1> HIDE DEF Goal
  <1> QED  BY <1>10, <1>11, <1>12, <1>13, <1>14, <1>15 DEF Next

\* Verification calls the chain broken only after two appends overlapped or an older
\* checkpoint was written behind a newer one, for any number of processes and however
\* their statements interleave.
THEOREM NoFalseAlarm == Spec => []AlarmsOnlyOnRaces
  <1>1. Init => AlarmInv
    <2> SUFFICES ASSUME Init PROVE AlarmInv  OBVIOUS
    <2>1. DOMAIN rows = {} /\ Len(checkpoints) = 0  BY DEF Init
    <2>2. RowsSound  BY <2>1 DEF RowsSound, HashesAreIds, Unbroken, Linked
    <2>3. \A c \in Procs : proc[c] = Idle  BY DEF Init
    <2>4. \A c \in Procs : proc[c].seen = <<>> /\ proc[c].alarm = FALSE
      <3>1. Idle.seen = <<>> /\ Idle.alarm = FALSE  BY DEF Idle
      <3> QED  BY <2>3, <3>1
    <2>5. SeenSound  BY <2>4, NothingSeen DEF SeenSound
    <2> QED  BY <2>1, <2>2, <2>4, <2>5 DEF AlarmInv, CheckpointsGrow, AlarmsOnlyOnRaces
  <1>2. IInv /\ AlarmInv /\ [Next]_vars => AlarmInv'
    <2> SUFFICES ASSUME IInv, AlarmInv, [Next]_vars PROVE AlarmInv'  OBVIOUS
    <2>0. TypeOK  BY DEF IInv
    <2>1. \/ UNCHANGED <<rows, lastId, forked>>
          \/ \E c \in Procs : Insert(c) \/ Delete(c)
      BY DEF Next, vars, Tick, ReadLast, Select, Checkpoint, WriteCheckpoint, ReadRows,
             Verify, Report, Kill
    <2>2. RowsSound'
      <3>1. CASE UNCHANGED <<rows, lastId, forked>>
        BY <3>1 DEF AlarmInv, RowsSound, HashesAreIds, Unbroken, Linked
      <3> QED  BY <2>1, <3>1, RowsStep DEF AlarmInv
    <2>3. /\ UNCHANGED <<checkpoints, crossed>> \/ \E c \in Procs : Checkpoint(c)
          /\ forked => forked'
      <3>1. CASE Tick \/ UNCHANGED vars  BY <3>1 DEF Tick, vars
      <3>2. ASSUME NEW c \in Procs, Insert(c)
            PROVE  UNCHANGED <<checkpoints, crossed>> /\ (forked => forked')
        BY <3>2 DEF Insert
      <3>3. ASSUME NEW c \in Procs, Checkpoint(c) PROVE forked' = forked
        BY <3>3 DEF Checkpoint
      <3>4. ASSUME NEW c \in Procs,
                   \/ ReadLast(c) \/ Select(c) \/ Delete(c) \/ ReadRows(c) \/ Verify(c)
                   \/ Report(c) \/ Kill(c)
            PROVE  UNCHANGED <<checkpoints, crossed, forked>>
        BY <3>4 DEF ReadLast, Select, Delete, ReadRows, Verify, Report, Kill
      <3> QED  BY <3>1, <3>2, <3>3, <3>4 DEF Next
    <2>4. /\ ~ crossed' => ~ crossed /\ CheckpointsGrow'
          /\ \A k \in 1..Len(checkpoints) :
                k \in 1..Len(checkpoints') /\ checkpoints'[k] = checkpoints[k]
      <3>1. CASE UNCHANGED <<checkpoints, crossed>>
        BY <3>1 DEF AlarmInv, CheckpointsGrow
      <3> QED  BY <2>0, <2>3, <3>1, CheckpointsStep DEF AlarmInv
    <2>5. SeenSound'
      <3> SUFFICES ASSUME NEW c \in Procs
                   PROVE  Sound(proc'[c].seen, checkpoints', forked')
        BY DEF SeenSound
      <3>1. CASE proc'[c].seen = proc[c].seen
        <4>1. Sound(proc[c].seen, checkpoints, forked)  BY DEF AlarmInv, SeenSound
        <4> QED  BY <2>3, <2>4, <3>1, <4>1, SoundStays
      <3>2. CASE proc'[c].seen = <<>>  BY <3>2, NothingSeen
      <3>3. CASE proc'[c].seen = rows /\ UNCHANGED <<rows, forked, checkpoints>>
        BY <3>3, RowsAreSound DEF AlarmInv
      <3> QED  BY <2>0, <3>1, <3>2, <3>3, SeenStep
    <2>6. AlarmsOnlyOnRaces'
      <3> SUFFICES ASSUME NEW c \in Procs, proc'[c].alarm, ~ forked', ~ crossed' PROVE FALSE
        BY DEF AlarmsOnlyOnRaces
      <3>1. ~ forked /\ ~ crossed  BY <2>3, <2>4
      <3>2. ~ proc[c].alarm  BY <3>1 DEF AlarmInv, AlarmsOnlyOnRaces
      <3>3. ~ Valid(proc[c].seen)  BY <2>0, <3>2, SeenStep
      <3>4. IsTable(proc[c].seen, lastId)  BY <2>0 DEF TypeOK
      <3>5. Sound(proc[c].seen, checkpoints, forked)  BY DEF AlarmInv, SeenSound
      <3> QED  BY <2>0, <3>1, <3>3, <3>4, <3>5, SoundIsValid DEF AlarmInv
    <2> QED  BY <2>2, <2>4, <2>5, <2>6 DEF AlarmInv
  <1> QED  BY <1>1, <1>2, ChainInductive, PTL DEF Spec, AlarmInv
=============================================================================
