------------------------------ MODULE AuditChain ------------------------------
(***************************************************************************)
(* The chain of audit records: each row holds the hash of the row before   *)
(* it.  Several processes append, prune and verify; each statement is      *)
(* atomic in the database, an operation of several statements is not, and  *)
(* a process may be killed between two of them.                            *)
(*                                                                         *)
(* A hash is a number of its own for each record: no two records have the  *)
(* same predecessor, time and payload, and nobody rewrites one.            *)
(***************************************************************************)
EXTENDS Naturals, Sequences

CONSTANTS
    Procs,
    Retention,   \* auditRetentionDays, in days
    MaxDays,     \* bound: days that pass
    MaxRecords,  \* bound: records appended
    MaxKills     \* bound: processes killed

ASSUME ChainAssumption ==
    Retention \in Nat /\ MaxDays \in Nat /\ MaxRecords \in Nat /\ MaxKills \in Nat

VARIABLES
    rows,         \* audit_chain: id -> [prev, hash, stamp]
    lastId,       \* of the autoincrement sequence
    checkpoints,  \* audit_checkpoints, oldest first
    day,
    proc,         \* per process: where it is and what it has read
    kills,
    forked,       \* history: a record was chained to one that was not the last
    crossed       \* history: a checkpoint was written behind a later one

vars == <<rows, lastId, checkpoints, day, proc, kills, forked, crossed>>

Genesis == 0
Idle == [at |-> "idle", hash |-> Genesis, last |-> 0, seen |-> <<>>, alarm |-> FALSE]

Labels == {"idle", "insert", "checkpoint", "delete", "verify", "verified"}
Records == [prev : Nat, hash : Nat, stamp : Nat]
IsTable(t, n) == DOMAIN t \subseteq 1..n /\ t \in [DOMAIN t -> Records]

TypeOK ==
    /\ lastId \in Nat /\ day \in Nat /\ kills \in Nat
    /\ IsTable(rows, lastId)
    /\ checkpoints \in Seq([last : Nat, hash : Nat])
    /\ forked \in BOOLEAN /\ crossed \in BOOLEAN
    /\ proc = [c \in Procs |-> proc[c]]
    /\ \A c \in Procs :
        /\ proc[c] \in [at : Labels, hash : Nat, last : Nat, seen : {proc[c].seen},
                        alarm : BOOLEAN]
        /\ IsTable(proc[c].seen, lastId)

Init ==
    /\ rows = <<>> /\ lastId = 0 /\ checkpoints = <<>> /\ day = 0
    /\ proc = [c \in Procs |-> Idle]
    /\ kills = 0 /\ forked = FALSE /\ crossed = FALSE

-----------------------------------------------------------------------------
\* The greatest and the least of a set of ids that is not empty.
Latest(ids) == CHOOSE i \in ids : \A j \in ids : j <= i
First(ids) == CHOOSE i \in ids : \A j \in ids : i <= j

LastHash == IF DOMAIN rows = {} THEN Genesis ELSE rows[Latest(DOMAIN rows)].hash

\* audit_chain WHERE timestamp < cutoff
Expired == {i \in DOMAIN rows : rows[i].stamp + Retention < day}

FirstToo(table, i) ==   \* mutant: the first row has to name a predecessor as well
    table[i].prev = IF i = First(DOMAIN table) THEN Genesis
                   ELSE table[Latest({j \in DOMAIN table : j < i})].hash
\* The first row that is left names one that is gone.
LinkHolds(table, i) ==
    i # First(DOMAIN table) =>
        table[i].prev = table[Latest({j \in DOMAIN table : j < i})].hash

\* verifyAuditChain, on the rows read first and the checkpoints as they are.
Valid(table) ==
    /\ \A i \in DOMAIN table : LinkHolds(table, i)
    /\ DOMAIN table # {} /\ checkpoints # <<>> =>
        LET first == First(DOMAIN table)
            checkpoint == checkpoints[Len(checkpoints)]
        IN first <= checkpoint.last + 1 \/ table[first].prev = checkpoint.hash

-----------------------------------------------------------------------------
At(c, label) == proc[c].at = label
End(c) == proc' = [proc EXCEPT ![c] = Idle]

\* appendAuditRecord: SELECT, then INSERT.
ReadLast(c) ==
    /\ At(c, "idle") /\ lastId < MaxRecords
    /\ proc' = [proc EXCEPT ![c] = [Idle EXCEPT !.at = "insert", !.hash = LastHash]]
    /\ UNCHANGED <<rows, lastId, checkpoints, day, kills, forked, crossed>>

Insert(c) ==
    LET row == [prev |-> proc[c].hash, hash |-> lastId + 1, stamp |-> day] IN
    /\ At(c, "insert")
    /\ rows' = [i \in DOMAIN rows \union {lastId + 1} |-> IF i = lastId + 1 THEN row ELSE rows[i]]
    /\ lastId' = lastId + 1
    /\ forked' = (forked \/ (DOMAIN rows # {} /\ row.prev # LastHash))
    /\ End(c)
    /\ UNCHANGED <<checkpoints, day, kills, crossed>>

\* pruneAuditChain: SELECT, INSERT of a checkpoint, DELETE.
Select(c) ==
    /\ At(c, "idle") /\ Expired # {}
    /\ LET last == Latest(Expired) IN
        proc' = [proc EXCEPT ![c] = [Idle EXCEPT !.at = "checkpoint", !.last = last,
                                                !.hash = rows[last].hash]]
    /\ UNCHANGED <<rows, lastId, checkpoints, day, kills, forked, crossed>>

DeleteFirst(c) ==   \* mutant: the rows are gone before the checkpoint is there
    /\ rows' = [i \in {j \in DOMAIN rows : j > proc[c].last} |-> rows[i]]
    /\ UNCHANGED <<checkpoints, crossed>>
WriteCheckpoint(c) ==
    /\ checkpoints' = Append(checkpoints, [last |-> proc[c].last, hash |-> proc[c].hash])
    /\ crossed' = (crossed \/ \E k \in 1..Len(checkpoints) : checkpoints[k].last > proc[c].last)
    /\ UNCHANGED rows

Checkpoint(c) ==
    /\ At(c, "checkpoint")
    /\ WriteCheckpoint(c)
    /\ proc' = [proc EXCEPT ![c].at = "delete"]
    /\ UNCHANGED <<lastId, day, kills, forked>>

Kept(c) == {i \in DOMAIN rows : i > proc[c].last}

Delete(c) ==
    /\ At(c, "delete")
    /\ rows' = [i \in Kept(c) |-> rows[i]]
    /\ End(c)
    /\ UNCHANGED <<lastId, checkpoints, day, kills, forked, crossed>>

\* verifyAuditChain reads the rows, then the latest checkpoint.
ReadRows(c) ==
    /\ At(c, "idle")
    /\ proc' = [proc EXCEPT ![c] = [Idle EXCEPT !.at = "verify", !.seen = rows]]
    /\ UNCHANGED <<rows, lastId, checkpoints, day, kills, forked, crossed>>

Verify(c) ==
    /\ At(c, "verify")
    /\ proc' = [proc EXCEPT ![c] = [Idle EXCEPT !.at = "verified", !.alarm = ~ Valid(proc[c].seen)]]
    /\ UNCHANGED <<rows, lastId, checkpoints, day, kills, forked, crossed>>

Report(c) ==
    /\ At(c, "verified") /\ End(c)
    /\ UNCHANGED <<rows, lastId, checkpoints, day, kills, forked, crossed>>

Kill(c) ==
    /\ ~ At(c, "idle") /\ kills < MaxKills
    /\ kills' = kills + 1
    /\ End(c)
    /\ UNCHANGED <<rows, lastId, checkpoints, day, forked, crossed>>

\* Appending takes less than a day.
Tick ==
    /\ day < MaxDays /\ \A c \in Procs : ~ At(c, "insert")
    /\ day' = day + 1
    /\ UNCHANGED <<rows, lastId, checkpoints, proc, kills, forked, crossed>>

Next ==
    \/ Tick
    \/ \E c \in Procs :
        \/ ReadLast(c) \/ Insert(c)
        \/ Select(c) \/ Checkpoint(c) \/ Delete(c)
        \/ ReadRows(c) \/ Verify(c) \/ Report(c)
        \/ Kill(c)

Spec == Init /\ [][Next]_vars

-----------------------------------------------------------------------------
(* Properties.                                                             *)

\* Verification calls the chain broken only after two appends have overlapped or
\* an older checkpoint was written behind a newer one: no prune, no kill in the
\* middle of one and no append beside one is taken for tampering.
AlarmsOnlyOnRaces == \A c \in Procs : proc[c].alarm => forked \/ crossed

\* A record that is gone is covered by a checkpoint, also when a prune was killed
\* or two of them overlapped (pruneAuditChain writes the checkpoint first).
RemovalsAreCheckpointed ==
    \A i \in 1..lastId :
        i \in DOMAIN rows \/ \E k \in 1..Len(checkpoints) : checkpoints[k].last >= i

\* No prune removes a record that is within the retention, whatever was appended
\* between its statements (auditRetentionDays).
PrunesOnlyExpired ==
    [][\A i \in DOMAIN rows : i \in DOMAIN rows' \/ rows[i].stamp + Retention < day]_vars
=============================================================================
