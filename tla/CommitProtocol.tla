--------------------------- MODULE CommitProtocol ---------------------------
(***************************************************************************)
(* The versioned commit of one component: the files on disk, the           *)
(* component's row of the manifest table, the pending_operations journal,  *)
(* and the processes that commit changes and reconcile interrupted ones.   *)
(*                                                                         *)
(* Every await of the code, every file read or written and every SQL       *)
(* statement is a step of its own, because another process (or another     *)
(* tool call of the MCP server) can run there.  computeSyncHash is         *)
(* collision free: a hash is the snapshot it was computed from.            *)
(*                                                                         *)
(* The writers of the row that compare no version, accept-drift, restore   *)
(* and the like, are in ManifestGraph, with the cascade that follows a     *)
(* reconciled change of the contract.  Of reconciliation, the branches for *)
(* an entry that is gone and for a path that leads out of the target       *)
(* directory are left out, which leave files, row and journal alone, and   *)
(* the one for an interrupted create: nothing journals a create.           *)
(***************************************************************************)
EXTENDS Naturals, Sequences, FiniteSets

CONSTANTS
    Cli,             \* command-line processes: reconcile, then lock, then work
    Tools,           \* tool calls of the MCP server: no lock, no reconcile
    Files,           \* paths below the target directory
    Tracked,         \* the paths the component owns at the start
    Contents,        \* what a file can hold
    Base,            \* what the tracked files hold at the start
    Missing,         \* no file at this path
    None,            \* nobody holds the repository lock
    MaxOps,          \* bound: operations journaled in a behaviour
    MaxCrashes,      \* bound: processes killed in a behaviour
    MaxEdits,        \* bound: edits made outside Purix in a behaviour
    IoFails,         \* may a file write or a database statement fail?
    ReverifyCanFail  \* may files that passed the sandbox fail in place later?

Procs == Cli \union Tools

ASSUME ProcessAssumption == Cli \intersect Tools = {} /\ None \notin Procs
ASSUME FileAssumption ==
    /\ Tracked \subseteq Files /\ Tracked # {}
    /\ Base \in Contents /\ Missing \notin Contents
ASSUME BoundAssumption ==
    /\ MaxOps \in Nat /\ MaxCrashes \in Nat /\ MaxEdits \in Nat
    /\ IoFails \in BOOLEAN /\ ReverifyCanFail \in BOOLEAN

VARIABLES
    disk,     \* path -> content
    row,      \* the component's manifest row
    ops,      \* every operation ever journaled; its index is its id
    journal,  \* ids of the rows present in pending_operations
    lock,     \* holder of .purix/repo.lock
    pc,       \* per process: where it stands
    entry,    \* per process: its own copy of the manifest entry
    copy,     \* per process: file contents it has read into memory
    todo,     \* per process: paths left in the loop it is in
    cur,      \* per process: the operation it works on, 0 for none
    queue,    \* per process: journaled operations it has still to reconcile
    acked,    \* operations whose caller was told they are committed
    crashes, edits,
    rejected  \* history: operations that were committed when files that had passed the
              \* sandbox failed to verify in place

local == <<pc, entry, copy, todo, cur, queue>>
faults == <<crashes, edits, rejected>>
vars == <<disk, row, ops, journal, lock, local, acked, faults>>

Snapshots == UNION {[S -> Contents] : S \in SUBSET Files}
Rows == [version : Nat, files : SUBSET Files, hash : Snapshots, history : Seq(Nat)]
Operations == [before : Snapshots, after : Snapshots, version : Nat]

NoFiles == [f \in {} |-> Missing]
With(s, f, c) == [g \in DOMAIN s \union {f} |-> IF g = f THEN c ELSE s[g]]

\* What readComponentFiles returns for a set of paths: missing ones are skipped.
Live(paths) == [f \in {g \in paths : disk[g] # Missing} |-> disk[f]]

InitialRow == [version |-> 1, files |-> Tracked,
               hash |-> [f \in Tracked |-> Base], history |-> <<0>>]

\* The WHERE clause of commitManifestVersioned.
AnyVersion(v) == row.version # 0     \* mutant: compares the component only
StoredVersionIs(v) == row.version = v

Init ==
    /\ disk \in {d \in [Files -> Contents \union {Missing}] :
                    \A f \in Tracked : d[f] = Base}
    /\ row = InitialRow
    /\ ops = <<>> /\ journal = {} /\ lock = None /\ acked = {}
    /\ pc = [p \in Procs |-> "idle"]
    /\ entry = [p \in Procs |-> InitialRow]
    /\ copy = [p \in Procs |-> NoFiles]
    /\ todo = [p \in Procs |-> {}]
    /\ cur = [p \in Procs |-> 0]
    /\ queue = [p \in Procs |-> {}]
    /\ crashes = 0 /\ edits = 0 /\ rejected = {}

Goto(p, label) == pc' = [pc EXCEPT ![p] = label]

InHistory(id) == \E i \in 1..Len(row.history) : row.history[i] = id

-----------------------------------------------------------------------------
(* Starting a command, and reconciliation of the journal.                  *)

\* The preAction hook reconciles before it takes the lock; a tool call does
\* neither, and purix_reconcile is a tool of its own.
Start(p) ==
    /\ pc[p] = "idle"
    /\ \/ /\ Goto(p, "rec")
          /\ queue' = [queue EXCEPT ![p] = journal]
       \/ /\ p \in Tools
          /\ Goto(p, "read")
          /\ UNCHANGED queue
    /\ UNCHANGED <<disk, row, ops, journal, lock, entry, copy, todo, cur, acked, faults>>

\* Reconciliation works through the list it read, whatever became of the rows; the
\* list has the rows as they were inserted.
NextPending(p) ==
    /\ pc[p] = "rec"
    /\ \E id \in queue[p] :
        /\ \A i \in queue[p] : id <= i
        /\ queue' = [queue EXCEPT ![p] = @ \ {id}]
        /\ cur' = [cur EXCEPT ![p] = id]
        /\ todo' = [todo EXCEPT ![p] = DOMAIN ops[id].after]
        /\ Goto(p, "rec_after")
    /\ UNCHANGED <<disk, row, ops, journal, lock, entry, copy, acked, faults>>

ReconcileDone(p) ==
    /\ pc[p] = "rec" /\ queue[p] = {}
    /\ Goto(p, IF p \in Cli /\ lock # p THEN "lock" ELSE "done")
    /\ UNCHANGED <<disk, row, ops, journal, lock, entry, copy, todo, cur, queue, acked, faults>>

\* matchesOnDisk reads one file after the other and stops at a mismatch.
MatchAfter(p) ==
    /\ pc[p] = "rec_after"
    /\ \/ \E f \in todo[p] :
            IF disk[f] = ops[cur[p]].after[f]
            THEN todo' = [todo EXCEPT ![p] = @ \ {f}] /\ UNCHANGED pc
            ELSE /\ todo' = [todo EXCEPT ![p] = DOMAIN ops[cur[p]].before]
                 /\ Goto(p, "rec_before")
       \/ todo[p] = {} /\ Goto(p, "rec_verify") /\ UNCHANGED todo
    /\ UNCHANGED <<disk, row, ops, journal, lock, entry, copy, cur, queue, acked, faults>>

\* Mutant: what matches neither snapshot is cleared like what matches before.
ClearTornToo(p) ==
    /\ pc[p] = "rec_before"
    /\ todo' = [todo EXCEPT ![p] = {}]
    /\ Goto(p, "rec_drop")
    /\ UNCHANGED <<disk, row, ops, journal, lock, entry, copy, cur, queue, acked, faults>>

MatchBefore(p) ==
    /\ pc[p] = "rec_before"
    /\ \/ \E f \in todo[p] :
            IF disk[f] = ops[cur[p]].before[f]
            THEN todo' = [todo EXCEPT ![p] = @ \ {f}] /\ UNCHANGED pc
            ELSE todo' = [todo EXCEPT ![p] = {}] /\ Goto(p, "rec")
       \/ todo[p] = {} /\ Goto(p, "rec_drop") /\ UNCHANGED todo
    /\ UNCHANGED <<disk, row, ops, journal, lock, entry, copy, cur, queue, acked, faults>>

\* The files are verified where they lie, then the manifest entry is read.  A flaky
\* test, a tool that is gone or a language that cannot be told rejects them.
Reverify(p) ==
    /\ pc[p] = "rec_verify"
    /\ \/ /\ entry' = [entry EXCEPT ![p] = row]
          /\ Goto(p, "rec_commit")
          /\ UNCHANGED <<todo, rejected>>
       \/ /\ ReverifyCanFail
          /\ todo' = [todo EXCEPT ![p] = DOMAIN ops[cur[p]].before]
          /\ rejected' = rejected \union {id \in {cur[p]} : InHistory(id)}
          /\ Goto(p, "rec_undo")
          /\ UNCHANGED entry
    /\ UNCHANGED <<disk, row, ops, journal, lock, copy, cur, queue, acked, crashes, edits>>

\* The entry reconciliation writes: paths the change added are not merged in.
Reconciled(e, id) ==
    [e EXCEPT !.version = ops[id].version,
              !.hash = ops[id].after,
              !.history = Append(@, id)]

\* The version reconciliation expects the stored row to have.
AlreadyAdvanced(id) == ops[id].version   \* mutant: the defect that was fixed here
ReconcileExpects(id) == ops[id].version - 1

\* completeModification: compare-and-swap and deletion of the journal row in
\* one transaction; on a version mismatch the row stays "for manual review".
ReconcileCommit(p) ==
    /\ pc[p] = "rec_commit"
    /\ \/ /\ StoredVersionIs(ReconcileExpects(cur[p]))
          /\ row' = Reconciled(entry[p], cur[p])
          /\ journal' = journal \ {cur[p]}
          /\ Goto(p, "rec")
       \/ /\ ~ StoredVersionIs(ReconcileExpects(cur[p]))
          /\ Goto(p, "rec")
          /\ UNCHANGED <<row, journal>>
       \/ /\ IoFails /\ Goto(p, "done")
          /\ UNCHANGED <<row, journal>>
    /\ UNCHANGED <<disk, ops, lock, entry, copy, todo, cur, queue, acked, faults>>

\* Verification failed: the before snapshot is written back, file by file.
ReconcileUndo(p) ==
    /\ pc[p] = "rec_undo"
    /\ \/ \E f \in todo[p] :
            /\ disk' = [disk EXCEPT ![f] = ops[cur[p]].before[f]]
            /\ todo' = [todo EXCEPT ![p] = @ \ {f}]
            /\ UNCHANGED pc
       \/ /\ todo[p] = {} /\ Goto(p, "rec_drop")
          /\ UNCHANGED <<disk, todo>>
       \/ /\ IoFails /\ todo[p] # {} /\ Goto(p, "done")
          /\ UNCHANGED <<disk, todo>>
    /\ UNCHANGED <<row, ops, journal, lock, entry, copy, cur, queue, acked, faults>>

ReconcileDrop(p) ==
    /\ pc[p] = "rec_drop"
    /\ journal' = journal \ {cur[p]}
    /\ Goto(p, "rec")
    /\ UNCHANGED <<disk, row, ops, lock, entry, copy, todo, cur, queue, acked, faults>>

-----------------------------------------------------------------------------
(* The lock, and reading the component: State Resolver and drift check.    *)

\* Taken here in one step; a lock file left by a killed process counts as free.
AcquireLock(p) ==
    /\ pc[p] = "lock"
    /\ \/ /\ lock = None /\ lock' = p
          /\ \/ Goto(p, "read") /\ UNCHANGED queue
             \/ Goto(p, "rec") /\ queue' = [queue EXCEPT ![p] = journal]
       \/ /\ lock # None /\ Goto(p, "done")
          /\ UNCHANGED <<lock, queue>>
    /\ UNCHANGED <<disk, row, ops, journal, entry, copy, todo, cur, acked, faults>>

ReadEntry(p) ==
    /\ pc[p] = "read"
    /\ entry' = [entry EXCEPT ![p] = row]
    /\ copy' = [copy EXCEPT ![p] = NoFiles]
    /\ todo' = [todo EXCEPT ![p] = row.files]
    /\ Goto(p, "live")
    /\ UNCHANGED <<disk, row, ops, journal, lock, cur, queue, acked, faults>>

ReadLive(p) ==
    /\ pc[p] = "live"
    /\ \E f \in todo[p] :
        /\ todo' = [todo EXCEPT ![p] = @ \ {f}]
        /\ copy' = [copy EXCEPT ![p] =
                        IF disk[f] = Missing THEN @ ELSE With(@, f, disk[f])]
    /\ UNCHANGED <<disk, row, ops, journal, lock, pc, entry, cur, queue, acked, faults>>

\* Drift, a gate, the human or the model says no: nothing was written.
Refuse(p) ==
    /\ pc[p] = "live" /\ todo[p] = {}
    /\ Goto(p, "done")
    /\ UNCHANGED <<disk, row, ops, journal, lock, entry, copy, todo, cur, queue, acked, faults>>

NeverDrifted(p) == copy[p] = NoFiles   \* mutant: only a component without files drifted
Drifted(p) == copy[p] # entry[p].hash

-----------------------------------------------------------------------------
(* commitVersionedChange.                                                  *)

NotJournaled(id) == journal   \* mutant: the files are written without a journal row
Journaled(id) == journal \union {id}

\* An approved change is journaled.  modify rewrites the files it read; ingest
\* may add paths.  Only the MCP modify tool does not look for drift.
JournalChange(p) ==
    /\ pc[p] = "live" /\ todo[p] = {} /\ copy[p] # NoFiles
    /\ Len(ops) < MaxOps
    /\ \E added \in SUBSET (Files \ entry[p].files) :
        /\ Drifted(p) => p \in Tools /\ added = {}
        /\ \E final \in [DOMAIN copy[p] \union added -> Contents] :
            /\ ops' = Append(ops, [before |-> copy[p], after |-> final,
                                   version |-> entry[p].version + 1])
            /\ todo' = [todo EXCEPT ![p] = DOMAIN final]
    /\ journal' = Journaled(Len(ops) + 1)
    /\ cur' = [cur EXCEPT ![p] = Len(ops) + 1]
    /\ copy' = [copy EXCEPT ![p] = NoFiles]
    /\ Goto(p, "backup")
    /\ UNCHANGED <<disk, row, lock, entry, queue, acked, faults>>

\* applyModificationFiles first reads every file it will write; a file that
\* does not exist yet makes it throw, and the journal row stays.
Backup(p) ==
    /\ pc[p] = "backup"
    /\ \E f \in todo[p] :
        IF disk[f] = Missing
        THEN Goto(p, "done") /\ UNCHANGED <<todo, copy>>
        ELSE /\ copy' = [copy EXCEPT ![p] = With(@, f, disk[f])]
             /\ IF todo[p] = {f}
                THEN /\ todo' = [todo EXCEPT ![p] = DOMAIN ops[cur[p]].after]
                     /\ Goto(p, "write")
                ELSE todo' = [todo EXCEPT ![p] = @ \ {f}] /\ UNCHANGED pc
    /\ UNCHANGED <<disk, row, ops, journal, lock, entry, cur, queue, acked, faults>>

WriteFile(p) ==
    /\ pc[p] = "write"
    /\ \E f \in todo[p] :
        /\ disk' = [disk EXCEPT ![f] = ops[cur[p]].after[f]]
        /\ todo' = [todo EXCEPT ![p] = @ \ {f}]
    /\ UNCHANGED <<row, ops, journal, lock, pc, entry, copy, cur, queue, acked, faults>>

\* A write fails: the files already written are put back, each of which may
\* fail too, and the journal row stays.
WriteFails(p) ==
    /\ IoFails /\ pc[p] = "write" /\ todo[p] # {}
    /\ todo' = [todo EXCEPT ![p] = DOMAIN copy[p] \ @]
    /\ Goto(p, "undo_write")
    /\ UNCHANGED <<disk, row, ops, journal, lock, entry, copy, cur, queue, acked, faults>>

UndoWrite(p) ==
    /\ pc[p] = "undo_write"
    /\ \/ \E f \in todo[p] :
            /\ \/ disk' = [disk EXCEPT ![f] = copy[p][f]]
               \/ IoFails /\ UNCHANGED disk
            /\ todo' = [todo EXCEPT ![p] = @ \ {f}]
            /\ UNCHANGED pc
       \/ /\ todo[p] = {} /\ Goto(p, "done")
          /\ UNCHANGED <<disk, todo>>
    /\ UNCHANGED <<row, ops, journal, lock, entry, copy, cur, queue, acked, faults>>

\* The entry a commit writes.
Uncounted(e, id) ==   \* mutant: current_version keeps its value
    [version |-> e.version, files |-> e.files \union DOMAIN ops[id].after,
     hash |-> ops[id].after, history |-> Append(e.history, id)]

Committed(e, id) ==
    [version |-> ops[id].version,
     files |-> e.files \union DOMAIN ops[id].after,
     hash |-> ops[id].after,
     history |-> Append(e.history, id)]

\* commitManifestWithRetry: compare-and-swap on current_version; when all the
\* retries find the database busy it throws and the files stay as written.
Commit(p) ==
    /\ pc[p] = "write" /\ todo[p] = {}
    /\ \/ /\ StoredVersionIs(ops[cur[p]].version - 1)
          /\ row' = Committed(entry[p], cur[p])
          /\ entry' = [entry EXCEPT ![p] = Committed(entry[p], cur[p])]
          /\ Goto(p, "complete")
          /\ UNCHANGED todo
       \/ /\ ~ StoredVersionIs(ops[cur[p]].version - 1)
          /\ todo' = [todo EXCEPT ![p] = DOMAIN copy[p]]
          /\ Goto(p, "undo_conflict")
          /\ UNCHANGED <<row, entry>>
       \/ /\ IoFails /\ Goto(p, "done")
          /\ UNCHANGED <<row, entry, todo>>
    /\ UNCHANGED <<disk, ops, journal, lock, copy, cur, queue, acked, faults>>

\* completeModification at the new version: the same entry is written again
\* and the journal row deleted, in one transaction; its result is ignored.
Complete(p) ==
    /\ pc[p] = "complete"
    /\ \/ /\ IF StoredVersionIs(ops[cur[p]].version)
             THEN row' = entry[p] /\ journal' = journal \ {cur[p]}
             ELSE UNCHANGED <<row, journal>>
          /\ acked' = acked \union {cur[p]}
       \/ IoFails /\ UNCHANGED <<row, journal, acked>>
    /\ Goto(p, "done")
    /\ UNCHANGED <<disk, ops, lock, entry, copy, todo, cur, queue, faults>>

\* A conflict: rollbackModification writes the backups back, then the journal
\* row is deleted; a write that fails leaves the rest as it is, and the row.
UndoConflict(p) ==
    /\ pc[p] = "undo_conflict"
    /\ \/ \E f \in todo[p] :
            /\ disk' = [disk EXCEPT ![f] = copy[p][f]]
            /\ todo' = [todo EXCEPT ![p] = @ \ {f}]
            /\ UNCHANGED pc
       \/ /\ todo[p] = {} /\ Goto(p, "drop")
          /\ UNCHANGED <<disk, todo>>
       \/ /\ IoFails /\ todo[p] # {} /\ Goto(p, "done")
          /\ UNCHANGED <<disk, todo>>
    /\ UNCHANGED <<row, ops, journal, lock, entry, copy, cur, queue, acked, faults>>

\* Mutant: the caller of a change that met a conflict is told it is committed.
AckConflict(p) ==
    /\ pc[p] = "drop"
    /\ journal' = journal \ {cur[p]}
    /\ acked' = acked \union {cur[p]}
    /\ Goto(p, "done")
    /\ UNCHANGED <<disk, row, ops, lock, entry, copy, todo, cur, queue, faults>>

DropPending(p) ==
    /\ pc[p] = "drop"
    /\ journal' = journal \ {cur[p]}
    /\ Goto(p, "done")
    /\ UNCHANGED <<disk, row, ops, lock, entry, copy, todo, cur, queue, acked, faults>>

-----------------------------------------------------------------------------
(* The end of a command, and what the environment does.                    *)

Forget(S) ==
    /\ pc' = [p \in Procs |-> IF p \in S THEN "idle" ELSE pc[p]]
    /\ entry' = [p \in Procs |-> IF p \in S THEN InitialRow ELSE entry[p]]
    /\ copy' = [p \in Procs |-> IF p \in S THEN NoFiles ELSE copy[p]]
    /\ todo' = [p \in Procs |-> IF p \in S THEN {} ELSE todo[p]]
    /\ cur' = [p \in Procs |-> IF p \in S THEN 0 ELSE cur[p]]
    /\ queue' = [p \in Procs |-> IF p \in S THEN {} ELSE queue[p]]
    /\ lock' = IF lock \in S THEN None ELSE lock

\* The postAction hook, or the failure path of main, releases the lock.
Finish(p) ==
    /\ pc[p] = "done"
    /\ Forget({p})
    /\ UNCHANGED <<disk, row, ops, journal, acked, faults>>

\* Killing a process loses its memory; the tool calls share the server's fate.
Crash(S) ==
    /\ crashes < MaxCrashes
    /\ \E p \in S : pc[p] # "idle"
    /\ crashes' = crashes + 1
    /\ Forget(S)
    /\ UNCHANGED <<disk, row, ops, journal, acked, edits, rejected>>

OsProcesses == {{p} : p \in Cli} \union {Tools}

\* Someone edits, creates or deletes a file outside Purix.
Edit ==
    /\ edits < MaxEdits
    /\ \E f \in Files, c \in Contents \union {Missing} :
        disk[f] # c /\ disk' = [disk EXCEPT ![f] = c]
    /\ edits' = edits + 1
    /\ UNCHANGED <<row, ops, journal, lock, local, acked, crashes, rejected>>

Step(p) ==
    \/ NextPending(p) \/ ReconcileDone(p) \/ MatchAfter(p) \/ MatchBefore(p)
    \/ Reverify(p) \/ ReconcileCommit(p) \/ ReconcileUndo(p) \/ ReconcileDrop(p)
    \/ AcquireLock(p) \/ ReadEntry(p) \/ ReadLive(p) \/ Refuse(p)
    \/ JournalChange(p) \/ Backup(p) \/ WriteFile(p) \/ WriteFails(p)
    \/ UndoWrite(p) \/ Commit(p) \/ Complete(p) \/ UndoConflict(p)
    \/ DropPending(p) \/ Finish(p)

Next ==
    \/ \E p \in Procs : Start(p) \/ Step(p)
    \/ \E S \in OsProcesses : Crash(S)
    \/ Edit

Spec == Init /\ [][Next]_vars

-----------------------------------------------------------------------------
(* Correctness.                                                            *)

Labels == {"idle", "rec", "rec_after", "rec_before", "rec_verify", "rec_commit",
           "rec_undo", "rec_drop", "lock", "read", "live", "backup", "write",
           "undo_write", "undo_conflict", "drop", "complete", "done"}

\* Every variable of the model keeps the shape of the store or the local
\* variable it stands for.
TypeOK ==
    /\ disk \in [Files -> Contents \union {Missing}]
    /\ row \in Rows
    /\ ops \in Seq(Operations) /\ Len(ops) <= MaxOps
    /\ journal \subseteq 1..Len(ops)
    /\ lock \in Procs \union {None}
    /\ pc \in [Procs -> Labels]
    /\ entry \in [Procs -> Rows]
    /\ copy \in [Procs -> Snapshots]
    /\ todo \in [Procs -> SUBSET Files]
    /\ cur \in [Procs -> 0..Len(ops)]
    /\ queue \in [Procs -> SUBSET (1..Len(ops))]
    /\ acked \subseteq 1..Len(ops)
    /\ crashes \in Nat /\ edits \in Nat
    /\ rejected \subseteq 1..Len(ops)

\* A change whose caller was told it is committed stays in the component's
\* version history for good, at the version that was reported: the
\* compare-and-swap of commitManifestVersioned loses no update.
NoLostCommit ==
    \A id \in acked : /\ ops[id].version <= Len(row.history)
                      /\ row.history[ops[id].version] = id

\* current_version counts the history, and the entry at each version is the
\* operation that was journaled for that version.
HistoryMatchesVersions ==
    /\ row.version = Len(row.history)
    /\ row.history[1] = 0
    /\ \A i \in 2..Len(row.history) :
        /\ row.history[i] \in 1..Len(ops)
        /\ ops[row.history[i]].version = i

\* Every change of the row, reconciliation's included, publishes exactly one
\* new version on top of the one it replaces; nothing is rewritten in place.
RowChangesAreCommits ==
    [][ /\ row'.version = row.version + 1
        /\ \E id \in 1..Len(ops) : row'.history = Append(row.history, id)
      ]_row

\* The commit protocol implements the abstract version history.
VH == INSTANCE VersionedHistory WITH Ids <- 1..MaxOps, history <- row.history
ImplementsVersionedHistory == VH!Spec

\* A command that detects drift commits only on top of the very content that
\* the version it replaces recorded: nothing can change the row between its
\* drift check and its compare-and-swap without the swap failing.
CommitsBuildOnCurrent ==
    [][\A p \in Cli : pc[p] = "write" /\ pc'[p] = "complete"
                        => ops[cur[p]].before = row.hash]_vars

Quiet == \A p \in Procs : pc[p] = "idle"
Synced == Live(row.files) = row.hash

OnDisk(s) == \A f \in DOMAIN s : disk[f] = s[f]

\* With no command running and nothing in the journal the files on disk are
\* those of the current version, or those that a committed change had replaced
\* and reconciliation put back because the change failed to verify in place: no
\* crash or failed write leaves a half written component that nobody knows of.
SyncedWhenClean ==
    Quiet /\ journal = {} => Synced \/ \E id \in rejected : OnDisk(ops[id].before)

\* The content of the current version is gone only if it was rejected after it
\* was committed: else what is not on disk stands in the journal, as the before
\* or the after snapshot of some row.
CurrentVersionRecoverable ==
    \/ Synced
    \/ \E id \in journal : row.hash \in {ops[id].before, ops[id].after}
    \/ \E id \in rejected : row.hash = ops[id].after

\* When a command begins its own work, the uncommitted operations left in the
\* journal are those whose files are torn: neither untouched nor fully written.
WorkStartsReconciled ==
    \A p \in Cli : pc[p] = "read" =>
        \A id \in journal : \/ InHistory(id)
                            \/ ~ OnDisk(ops[id].before) /\ ~ OnDisk(ops[id].after)

\* The preAction hook promises that an interrupted operation of an earlier run
\* is resolved before new work starts: none is left whose commit is on record.
InterruptedCommitResolved ==
    \A p \in Cli : pc[p] = "read" => \A id \in journal : ~ InHistory(id)

-----------------------------------------------------------------------------
(* The inductive invariant behind the theorems of CommitProtocolProofs.    *)

\* An operation was journaled for the version after one that was current.
OperationsFollowRow == \A id \in 1..Len(ops) : ops[id].version \in 2..row.version + 1

\* A process's copy of the entry is the row, or older than the row.
EntriesAreRowOrOlder ==
    \A p \in Procs : /\ entry[p].version \in 1..row.version
                     /\ entry[p].version = row.version => entry[p] = row

\* A process that works on an operation holds one that exists, and in a loop
\* over its files it has only files of that operation left.
AtOperation == {"rec_after", "rec_before", "rec_verify", "rec_commit", "rec_undo",
                "rec_drop", "backup", "write", "undo_write", "undo_conflict",
                "drop", "complete"}
LoopsStayInside ==
    \A p \in Procs :
        /\ pc[p] \in AtOperation => cur[p] \in 1..Len(ops)
        /\ pc[p] = "rec_undo" => todo[p] \subseteq DOMAIN ops[cur[p]].before
        /\ pc[p] = "write" => todo[p] \subseteq DOMAIN ops[cur[p]].after
        /\ pc[p] \in {"undo_write", "undo_conflict"} => todo[p] \subseteq DOMAIN copy[p]

\* What a process knows about versions at its compare-and-swap.
ReadBeforeCas ==
    \A p \in Procs :
        /\ pc[p] \in {"backup", "write"} => ops[cur[p]].version = entry[p].version + 1
        /\ pc[p] = "rec_commit" => ops[cur[p]].version <= entry[p].version + 1
        /\ pc[p] = "complete" => /\ ops[cur[p]].version = entry[p].version
                                 /\ row.history[entry[p].version] = cur[p]

IInv ==
    /\ TypeOK /\ HistoryMatchesVersions /\ NoLostCommit
    /\ row.version >= 1 /\ (row.version = 1 => row = InitialRow)
    /\ OperationsFollowRow /\ EntriesAreRowOrOlder
    /\ LoopsStayInside /\ ReadBeforeCas
=============================================================================
