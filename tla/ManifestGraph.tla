---------------------------- MODULE ManifestGraph ---------------------------
(***************************************************************************)
(* The manifest table as a graph: components, their depends_on and         *)
(* depended_on_by lists, and the commands that create, delete, modify and  *)
(* accept components, back the table up and restore it.  Every SQL         *)
(* statement is one step.  Except for the commits, which compare           *)
(* current_version, every writer reads a row, changes its copy and writes  *)
(* the copy back with an unconditional upsert.                             *)
(*                                                                         *)
(* A command of the CLI holds the repository lock while it works, taken    *)
(* here in one step.  Before that its process has run reconciliation,      *)
(* without the lock: a run of its own here, which may meet a command at    *)
(* work, and other reconciliations.                                        *)
(*                                                                         *)
(* Files are left out: what reconciliation finds on disk, and what the     *)
(* verification of it says, may be anything.  version_history is the set   *)
(* of the commands that made a version.  A row's other fields are left     *)
(* out: a cascade, which sets verification_status, writes back what it     *)
(* read.  loose is no column of the table: it records which of depends_on  *)
(* linkComponents passed over, the unknown ids and the component's own.    *)
(*                                                                         *)
(* Not here: the tools of the MCP server, which run the same code without  *)
(* the lock, and the upserts of the indexer and of readManifest when it    *)
(* migrates a row.                                                         *)
(***************************************************************************)
EXTENDS Naturals, FiniteSets

CONSTANTS
    Procs,        \* processes that run a command, or reconcile
    Comps,        \* component ids
    None,         \* nobody, nothing
    MaxCommands,  \* bound: commands and reconciliations run in a behaviour
    MaxCrashes    \* bound: processes killed in a behaviour

Row == [version : Nat, history : SUBSET (1..MaxCommands),
        deps : SUBSET Comps, loose : SUBSET Comps, dependents : SUBSET Comps]
NoRow == [version |-> 0, history |-> {}, deps |-> {}, loose |-> {}, dependents |-> {}]

\* A row of pending_operations: the change of one command to one component.
Change == [of : Comps, number : 1..MaxCommands, version : Nat]

ASSUME NoneAssumption == None \notin Procs \union Comps \union Change
ASSUME BoundAssumption == MaxCommands \in Nat /\ MaxCrashes \in Nat

VARIABLES
    rows,     \* the manifest table: existing component -> row
    journal,  \* the table pending_operations
    backup,   \* the two tables in the file of backup create, or None
    lock,
    pc,       \* per process: where it stands
    about,    \* per process: the component its command is about
    number,   \* per process: the number of its command, 0 for a reconciliation
    entry,    \* per process: its copy of that component's row
    todo,     \* per process: components left in the loop it is in
    at, copy, \* per process: the row it is rewriting, and its copy of it
    queue,    \* per process: journal rows that its reconciliation has still to take
    change,   \* per process: the journal row of its change, or None
    commands, crashes,
    beside    \* history: has a reconciliation worked beside another process?

tables == <<rows, journal, backup>>
work == <<about, number, entry, change, queue>>
loop == <<todo, at, copy>>
counters == <<commands, crashes, beside>>
vars == <<tables, lock, pc, work, loop, counters>>

Exists(c) == c \in DOMAIN rows

\* INSERT ... ON CONFLICT DO UPDATE: whatever the table holds is replaced.
Upsert(c, r) == [d \in DOMAIN rows \union {c} |-> IF d = c THEN r ELSE rows[d]]

Init ==
    /\ rows = [c \in {} |-> NoRow]
    /\ journal = {} /\ backup = None
    /\ lock = None
    /\ pc = [p \in Procs |-> "idle"]
    /\ about = [p \in Procs |-> None]
    /\ number = [p \in Procs |-> 0]
    /\ entry = [p \in Procs |-> NoRow]
    /\ todo = [p \in Procs |-> {}]
    /\ at = [p \in Procs |-> None]
    /\ copy = [p \in Procs |-> NoRow]
    /\ queue = [p \in Procs |-> {}]
    /\ change = [p \in Procs |-> None]
    /\ commands = 0 /\ crashes = 0 /\ beside = FALSE

Goto(p, label) == pc' = [pc EXCEPT ![p] = label]
Work(p, S) == todo' = [todo EXCEPT ![p] = S]

AtWork == {p \in Procs : pc[p] # "idle"}
Reconciling(p) == pc[p] # "idle" /\ number[p] = 0

-----------------------------------------------------------------------------
(* A command or a reconciliation begins, and ends.                         *)

NotWaiting == TRUE   \* mutant: a command does not wait for the lock
LockFree == lock = None

Begin(p) ==
    /\ pc[p] = "idle" /\ commands < MaxCommands /\ LockFree
    /\ lock' = p
    /\ commands' = commands + 1
    /\ number' = [number EXCEPT ![p] = commands + 1]
    /\ \E c \in Comps : about' = [about EXCEPT ![p] = c]
    /\ \E first \in {"create", "delete", "force_delete", "modify", "accept",
                     "export", "restore"} : Goto(p, first)
    /\ beside' = (beside \/ \E q \in Procs : Reconciling(q))
    /\ UNCHANGED <<tables, entry, change, queue, loop, crashes>>

\* Reconciliation reads the journal; an empty one ends it.  Nobody holds it up.
Reconcile(p) ==
    /\ pc[p] = "idle" /\ commands < MaxCommands /\ journal # {}
    /\ commands' = commands + 1
    /\ queue' = [queue EXCEPT ![p] = journal]
    /\ Goto(p, "reconcile")
    /\ beside' = (beside \/ AtWork # {})
    /\ UNCHANGED <<tables, lock, about, number, entry, change, loop, crashes>>

Forget(p) ==
    /\ Goto(p, "idle")
    /\ about' = [about EXCEPT ![p] = None]
    /\ number' = [number EXCEPT ![p] = 0]
    /\ entry' = [entry EXCEPT ![p] = NoRow]
    /\ Work(p, {})
    /\ at' = [at EXCEPT ![p] = None]
    /\ copy' = [copy EXCEPT ![p] = NoRow]
    /\ queue' = [queue EXCEPT ![p] = {}]
    /\ change' = [change EXCEPT ![p] = None]
    /\ lock' = IF lock = p THEN None ELSE lock

End(p) ==
    /\ pc[p] = "end" \/ (pc[p] = "reconcile" /\ queue[p] = {})
    /\ Forget(p)
    /\ UNCHANGED <<tables, counters>>

Crash(p) ==
    /\ pc[p] # "idle" /\ crashes < MaxCrashes
    /\ crashes' = crashes + 1
    /\ Forget(p)
    /\ UNCHANGED <<tables, commands, beside>>

-----------------------------------------------------------------------------
(* create, and linkComponents.                                             *)

\* The name must be new; planning and the approval of the human follow.
CheckNew(p) ==
    /\ pc[p] = "create"
    /\ Goto(p, IF Exists(about[p]) THEN "end" ELSE "planned")
    /\ UNCHANGED <<tables, lock, work, loop, counters>>

\* What linkComponents passes over: no row to link to, or the component itself.
Unlinked(c, plan) == plan \ (DOMAIN rows \ {c})

\* writeManifestWithLimitCheck, with the plan's depends_on as it stands.
Register(p) ==
    /\ pc[p] = "planned"
    /\ \E plan \in SUBSET Comps :
        /\ rows' = Upsert(about[p], [NoRow EXCEPT !.version = 1, !.deps = plan,
                                                !.loose = Unlinked(about[p], plan)])
        /\ Work(p, plan)
        /\ Goto(p, IF plan = {} THEN "end" ELSE "link")
    /\ UNCHANGED <<journal, backup, lock, work, at, copy, counters>>

\* The entry is read again; a dependency that is not there is not linked.
LinkRead(p) ==
    /\ pc[p] = "link"
    /\ IF Exists(about[p])
       THEN /\ entry' = [entry EXCEPT ![p] = rows[about[p]]]
            /\ Work(p, todo[p] \intersect (DOMAIN rows \ {about[p]}))
            /\ Goto(p, "linked")
       ELSE Goto(p, "end") /\ UNCHANGED <<entry, todo>>
    /\ UNCHANGED <<tables, lock, about, number, change, queue, at, copy, counters>>

LinkWrite(p) ==
    /\ pc[p] = "linked"
    /\ IF todo[p] = {}
       THEN Goto(p, "end") /\ UNCHANGED rows
       ELSE /\ rows' = Upsert(about[p], [entry[p] EXCEPT !.deps = @ \union todo[p]])
            /\ Goto(p, "add")
    /\ UNCHANGED <<journal, backup, lock, work, loop, counters>>

-----------------------------------------------------------------------------
(* delete, modify and accept-drift: the entry they read.                   *)

\* Refused while there are dependents, unless forced; then the human is asked.
DeleteRead(p) ==
    /\ pc[p] \in {"delete", "force_delete"}
    /\ IF Exists(about[p])
          /\ (rows[about[p]].dependents = {} \/ pc[p] = "force_delete")
       THEN /\ entry' = [entry EXCEPT ![p] = rows[about[p]]]
            /\ Work(p, rows[about[p]].deps)
            /\ Goto(p, "unlink")
       ELSE Goto(p, "end") /\ UNCHANGED <<entry, todo>>
    /\ UNCHANGED <<tables, lock, about, number, change, queue, at, copy, counters>>

ReadEntry(p) ==
    /\ pc[p] \in {"modify", "accept"}
    /\ IF Exists(about[p])
       THEN /\ entry' = [entry EXCEPT ![p] = rows[about[p]]]
            /\ Goto(p, IF pc[p] = "modify" THEN "journal" ELSE "baseline")
       ELSE Goto(p, "end") /\ UNCHANGED entry
    /\ UNCHANGED <<tables, lock, about, number, change, queue, loop, counters>>

\* The journal row comes first; if the files cannot be written it stays.
JournalChange(p) ==
    /\ pc[p] = "journal"
    /\ LET j == [of |-> about[p], number |-> number[p], version |-> entry[p].version + 1]
       IN  journal' = journal \union {j} /\ change' = [change EXCEPT ![p] = j]
    /\ Goto(p, "commit") \/ Goto(p, "end")
    /\ UNCHANGED <<rows, backup, lock, about, number, entry, queue, loop, counters>>

\* Dependents are verified again after a change of the contract.
Cascade(p, after) ==
    \/ Work(p, entry[p].dependents) /\ Goto(p, "cascade")
    \/ Goto(p, after) /\ UNCHANGED todo

NewVersion(r, v, n) == [r EXCEPT !.version = v, !.history = @ \union {n}]
NextVersion(p) == NewVersion(entry[p], entry[p].version + 1, number[p])

\* The guard of commitManifestVersioned, which then writes the whole row.
StillAt(c, v) == Exists(c) /\ rows[c].version = v

\* A conflict rolls the files back and drops the journal row.
Commit(p) ==
    /\ pc[p] = "commit"
    /\ IF StillAt(about[p], entry[p].version)
       THEN /\ rows' = Upsert(about[p], NextVersion(p))
            /\ entry' = [entry EXCEPT ![p] = NextVersion(p)]
            /\ Goto(p, "complete")
            /\ UNCHANGED journal
       ELSE /\ journal' = journal \ {change[p]}
            /\ Goto(p, "end")
            /\ UNCHANGED <<rows, entry>>
    /\ UNCHANGED <<backup, lock, about, number, change, queue, loop, counters>>

\* completeModification: the row is compared and written once more, and the
\* journal row deleted, in one transaction.
Complete(p) ==
    /\ pc[p] = "complete"
    /\ IF StillAt(about[p], entry[p].version)
       THEN rows' = Upsert(about[p], entry[p]) /\ journal' = journal \ {change[p]}
       ELSE UNCHANGED <<rows, journal>>
    /\ Cascade(p, "end")
    /\ UNCHANGED <<backup, lock, work, at, copy, counters>>

\* acceptDrift compares nothing.
AcceptBaseline(p) ==
    /\ pc[p] = "baseline"
    /\ rows' = Upsert(about[p], NextVersion(p))
    /\ Work(p, entry[p].dependents) /\ Goto(p, "cascade")
    /\ UNCHANGED <<journal, backup, lock, work, at, copy, counters>>

-----------------------------------------------------------------------------
(* Reconciliation, one journal row after the other.                        *)

\* What the files of a change, and verifying them, tell reconciliation: to leave the
\* row for a human, to drop it (nothing landed, or what did was rejected and put
\* back), or to commit what landed, over the entry as it is by now, if there is one.
TakeChange(p) ==
    /\ pc[p] = "reconcile"
    /\ \E j \in queue[p] :
        /\ queue' = [queue EXCEPT ![p] = @ \ {j}]
        /\ \/ UNCHANGED <<journal, pc, about, entry, change>>
           \/ journal' = journal \ {j} /\ UNCHANGED <<pc, about, entry, change>>
           \/ /\ Exists(j.of)
              /\ about' = [about EXCEPT ![p] = j.of]
              /\ entry' = [entry EXCEPT ![p] = rows[j.of]]
              /\ change' = [change EXCEPT ![p] = j]
              /\ Goto(p, "landed")
              /\ UNCHANGED journal
    /\ UNCHANGED <<rows, backup, lock, number, loop, counters>>

\* completeModification again; a row that has moved on leaves the journal as it is.
CompleteLanded(p) ==
    /\ pc[p] = "landed"
    /\ IF StillAt(about[p], change[p].version - 1)
       THEN /\ rows' = Upsert(about[p], NewVersion(entry[p], change[p].version,
                                                   change[p].number))
            /\ journal' = journal \ {change[p]}
            /\ Cascade(p, "reconcile")
       ELSE Goto(p, "reconcile") /\ UNCHANGED <<rows, journal, todo>>
    /\ UNCHANGED <<backup, lock, work, at, copy, counters>>

-----------------------------------------------------------------------------
(* The loops that read, change and write one row after the other.          *)

NotAdded(c, r) == r           \* mutant: a dependency does not learn its dependent
AddDependent(c, r) == [r EXCEPT !.dependents = @ \union {c}]
RemoveDependent(c, r) == [r EXCEPT !.dependents = @ \ {c}]
ReferenceKept(c, r) == r      \* mutant: a forced delete leaves depends_on alone
RemoveDependencyReference(c, r) == [r EXCEPT !.deps = @ \ {c}]

Changed(p) ==
    CASE pc[p] = "add"     -> AddDependent(about[p], copy[p])
      [] pc[p] = "unlink"  -> RemoveDependent(about[p], copy[p])
      [] pc[p] = "unrefer" -> RemoveDependencyReference(about[p], copy[p])
      [] OTHER             -> copy[p]

\* A row that is gone is skipped.
LoopRead(p) ==
    /\ pc[p] \in {"add", "unlink", "unrefer", "cascade"} /\ at[p] = None
    /\ \E c \in todo[p] :
        /\ Work(p, todo[p] \ {c})
        /\ IF Exists(c)
           THEN at' = [at EXCEPT ![p] = c] /\ copy' = [copy EXCEPT ![p] = rows[c]]
           ELSE UNCHANGED <<at, copy>>
    /\ UNCHANGED <<tables, lock, pc, work, counters>>

\* A list that already is as it should be is not written; a status always is.
LoopWrite(p) ==
    /\ at[p] # None
    /\ rows' = IF Changed(p) # copy[p] \/ pc[p] = "cascade"
               THEN Upsert(at[p], Changed(p)) ELSE rows
    /\ at' = [at EXCEPT ![p] = None]
    /\ copy' = [copy EXCEPT ![p] = NoRow]
    /\ UNCHANGED <<journal, backup, lock, pc, work, todo, counters>>

LoopEnd(p) ==
    /\ at[p] = None /\ todo[p] = {}
    /\ \/ pc[p] = "add" /\ Goto(p, "end") /\ UNCHANGED todo
       \/ /\ pc[p] = "cascade" /\ UNCHANGED todo
          /\ Goto(p, IF Reconciling(p) THEN "reconcile" ELSE "end")
       \/ pc[p] = "unlink" /\ Goto(p, "unrefer") /\ Work(p, entry[p].dependents)
       \/ pc[p] = "unrefer" /\ Goto(p, "remove") /\ UNCHANGED todo
    /\ UNCHANGED <<tables, lock, work, at, copy, counters>>

\* deleteManifestEntry
RemoveRow(p) ==
    /\ pc[p] = "remove"
    /\ rows' = [c \in DOMAIN rows \ {about[p]} |-> rows[c]]
    /\ Goto(p, "end")
    /\ UNCHANGED <<journal, backup, lock, work, loop, counters>>

-----------------------------------------------------------------------------
(* backup create and backup restore.                                       *)

ExportManifestData(p) ==
    /\ pc[p] = "export"
    /\ backup' = [rows |-> rows, journal |-> journal]
    /\ Goto(p, "end")
    /\ UNCHANGED <<rows, journal, lock, work, loop, counters>>

\* Without a backup that can be read the human is not asked.
ReadBackup(p) ==
    /\ pc[p] = "restore"
    /\ Goto(p, IF backup = None THEN "end" ELSE "import")
    /\ UNCHANGED <<tables, lock, work, loop, counters>>

\* If the human agrees both tables are wiped and replaced, in one transaction.
ImportManifestData(p) ==
    /\ pc[p] = "import"
    /\ \/ rows' = backup.rows /\ journal' = backup.journal
       \/ UNCHANGED <<rows, journal>>
    /\ Goto(p, "end")
    /\ UNCHANGED <<backup, lock, work, loop, counters>>

Step(p) ==
    \/ ExportManifestData(p) \/ ReadBackup(p) \/ ImportManifestData(p)
    \/ CheckNew(p) \/ Register(p) \/ LinkRead(p) \/ LinkWrite(p)
    \/ DeleteRead(p) \/ ReadEntry(p) \/ JournalChange(p) \/ Commit(p) \/ Complete(p)
    \/ AcceptBaseline(p) \/ TakeChange(p) \/ CompleteLanded(p)
    \/ LoopRead(p) \/ LoopWrite(p) \/ LoopEnd(p) \/ RemoveRow(p) \/ End(p)

\* A run of commands is over when MaxCommands of them have been run.
Over == commands = MaxCommands /\ AtWork = {} /\ UNCHANGED vars

Next == (\E p \in Procs : Begin(p) \/ Reconcile(p) \/ Step(p) \/ Crash(p)) \/ Over

Spec == Init /\ [][Next]_vars

-----------------------------------------------------------------------------
(* Correctness.  None of it is claimed once a reconciliation, which has no *)
(* lock, has worked beside another process: its cascade then writes back   *)
(* rows that the other one may have changed.                               *)

Labels == {"idle", "create", "planned", "link", "linked", "add", "delete", "force_delete",
           "unlink", "unrefer", "remove", "modify", "accept", "journal", "commit",
           "complete", "baseline", "cascade", "reconcile", "landed", "export", "restore",
           "import", "end"}

Table(t) == DOMAIN t \subseteq Comps /\ \A c \in DOMAIN t : t[c] \in Row

\* The table holds rows of components, and each process copies of rows.
TypeOK ==
    /\ Table(rows) /\ journal \subseteq Change
    /\ backup # None => Table(backup.rows) /\ backup.journal \subseteq Change
    /\ lock \in Procs \union {None}
    /\ pc \in [Procs -> Labels]
    /\ about \in [Procs -> Comps \union {None}] /\ at \in [Procs -> Comps \union {None}]
    /\ number \in [Procs -> 0..MaxCommands]
    /\ entry \in [Procs -> Row] /\ copy \in [Procs -> Row]
    /\ todo \in [Procs -> SUBSET Comps]
    /\ queue \in [Procs -> SUBSET Change] /\ change \in [Procs -> Change \union {None}]
    /\ commands \in 0..MaxCommands /\ crashes \in 0..MaxCrashes /\ beside \in BOOLEAN

Quiet == AtWork = {}

\* The dependencies that linkComponents knew.
Linked(r) == r.deps \ r.loose

\* Between commands the two lists agree unless a command was killed: a component
\* stands in the depended_on_by of exactly those of its depends_on that were there,
\* and other than itself, when it was created.
GraphSymmetric ==
    Quiet /\ crashes = 0 /\ ~ beside =>
        \A c, d \in DOMAIN rows : d \in Linked(rows[c]) <=> c \in rows[d].dependents

\* Unless a command was killed, a component that is deleted leaves no other one
\* depending on it, other than those that named it before it was there: the delete is
\* refused while there are dependents, or strips their references.
DeleteLeavesNoDependents ==
    [][crashes = 0 /\ ~ beside => \A c \in DOMAIN rows \ DOMAIN rows' :
            \A d \in DOMAIN rows' : c \notin Linked(rows'[d])]_rows

\* No write of a row takes a version out of its history, or goes back to an earlier
\* one: what another process committed in the meantime is never silently clobbered.
\* Only a restore, which a human has agreed to, goes back.
Restores == \E p \in Procs : pc[p] = "import" /\ pc'[p] = "end"
CommitsStay ==
    [][beside \/ Restores \/ \A c \in DOMAIN rows \intersect DOMAIN rows' :
            /\ rows[c].history \subseteq rows'[c].history
            /\ rows[c].version <= rows'[c].version]_rows

\* A deleted component comes back only when it is created anew or restored.
DeletedStaysDeleted ==
    [][beside \/ Restores \/ \A c \in DOMAIN rows' \ DOMAIN rows :
            \E p \in Procs : pc[p] = "planned" /\ about[p] = c]_rows
=============================================================================
