--------------------------- MODULE StagedMigration ---------------------------
(***************************************************************************)
(* The migration records of one component next to its commits: a contract  *)
(* changing modify commits first and then stages a record of both          *)
(* snapshots; later a command activates the record (writes the after       *)
(* snapshot) or rolls it back (writes the before snapshot), one file at a  *)
(* time and without a journal, and sets the status last.  Neither touches  *)
(* the manifest row, so both can leave the component drifted.              *)
(*                                                                         *)
(* A commit is one step here: CommitProtocol is about its inside.          *)
(***************************************************************************)
EXTENDS Naturals, Sequences, FiniteSets

CONSTANTS
    Cli,        \* commands: one at a time, under the repository lock
    Tools,      \* tool calls of an MCP server: they take no lock
    Files,      \* the component's paths
    Contents,   \* what a file can hold
    Base,       \* what every file holds at the start
    None,       \* nobody holds the lock
    MaxJobs,    \* bound: commands and tool calls started
    MaxKills    \* bound: processes killed

Procs == Cli \union Tools
Snapshots == [Files -> Contents]
Start == [f \in Files |-> Base]
Idle == [kind |-> "none", id |-> 0, version |-> 0, seen |-> Start, made |-> Start]

ASSUME MigrationAssumption ==
    /\ Cli \intersect Tools = {} /\ None \notin Procs
    /\ Base \in Contents /\ Files # {} /\ IsFiniteSet(Files)
    /\ MaxJobs \in Nat /\ MaxKills \in Nat

VARIABLES
    disk,     \* path -> content
    row,      \* current_version and last_synced_hash of the manifest row
    migs,     \* the rows of the migrations table; the index is the id
    lock,     \* holder of .purix/repo.lock
    pc,       \* per process: where it stands
    job,      \* per process: what it does and what it has read
    todo,     \* per process: paths left in its loop
    alone,    \* history: nobody else was at work since the process began
    jobs, kills

vars == <<disk, row, migs, lock, pc, job, todo, alone, jobs, kills>>

Statuses == {"staged", "active", "rolled_back"}
Kinds == {"none", "change", "accept", "activate", "rollback"}
Labels == {"idle", "ready", "gate", "stage", "check", "write", "undo", "status", "end"}

Jobs == [kind : Kinds, id : Nat, version : Nat, seen : Snapshots, made : Snapshots]
Records == [before : Snapshots, after : Snapshots, status : Statuses]

TypeOK ==
    /\ disk \in Snapshots
    /\ row \in [version : Nat, hash : Snapshots]
    /\ migs \in Seq(Records)
    /\ lock \in Cli \union {None}
    /\ pc \in [Procs -> Labels]
    /\ job \in [Procs -> Jobs]
    /\ todo \in [Procs -> SUBSET Files]
    /\ alone \in [Procs -> BOOLEAN]
    /\ jobs \in 0..MaxJobs /\ kills \in 0..MaxKills

Init ==
    /\ disk = Start
    /\ row = [version |-> 1, hash |-> Start]
    /\ migs = <<>> /\ lock = None
    /\ pc = [p \in Procs |-> "idle"]
    /\ job = [p \in Procs |-> Idle]
    /\ todo = [p \in Procs |-> {}]
    /\ alone = [p \in Procs |-> TRUE]
    /\ jobs = 0 /\ kills = 0

Goto(p, label) == pc' = [pc EXCEPT ![p] = label]
Busy(p) == pc[p] # "idle"

-----------------------------------------------------------------------------
(* Starting, ending and being killed.                                      *)

\* A command takes the repository lock before its action runs.
Begin(p) ==
    /\ ~ Busy(p) /\ jobs < MaxJobs
    /\ p \in Cli => lock = None
    /\ lock' = IF p \in Cli THEN p ELSE lock
    /\ alone' = [q \in Procs |->
                    IF q = p THEN ~ \E r \in Procs : Busy(r)
                             ELSE alone[q] /\ ~ Busy(q)]
    /\ jobs' = jobs + 1
    /\ Goto(p, "ready")
    /\ UNCHANGED <<disk, row, migs, job, todo, kills>>

Released(p) == IF lock = p THEN None ELSE lock

End(p) ==
    /\ pc[p] = "end"
    /\ Goto(p, "idle")
    /\ lock' = Released(p)
    /\ job' = [job EXCEPT ![p] = Idle]
    /\ todo' = [todo EXCEPT ![p] = {}]
    /\ UNCHANGED <<disk, row, migs, alone, jobs, kills>>

\* The calls of a server die together; a dead command's lock counts as free.
Kill(p) ==
    LET dead == IF p \in Tools THEN Tools ELSE {p} IN
    /\ Busy(p) /\ kills < MaxKills
    /\ kills' = kills + 1
    /\ pc' = [q \in Procs |-> IF q \in dead THEN "idle" ELSE pc[q]]
    /\ job' = [q \in Procs |-> IF q \in dead THEN Idle ELSE job[q]]
    /\ todo' = [q \in Procs |-> IF q \in dead THEN {} ELSE todo[q]]
    /\ lock' = Released(p)
    /\ UNCHANGED <<disk, row, migs, alone, jobs>>

-----------------------------------------------------------------------------
(* Changing the component: modify (and its record), and accepting drift.   *)

Drifted == disk # row.hash

\* Only the tool purix_modify works on whatever lies on disk.
ReadForChange(p) ==
    /\ pc[p] = "ready"
    /\ IF p \in Cli /\ Drifted
       THEN Goto(p, "end") /\ UNCHANGED job
       ELSE /\ job' = [job EXCEPT ![p] = [Idle EXCEPT !.kind = "change", !.seen = disk,
                                                      !.version = row.version]]
            /\ Goto(p, "gate")
    /\ UNCHANGED <<disk, row, migs, lock, todo, alone, jobs, kills>>

Versioned(p, after) == row' = [version |-> job[p].version + 1, hash |-> after]

\* commitVersionedChange: compare-and-swap on the version that was read.  A
\* refusal of any gate, and a lost swap, end the command.
Commit(p) ==
    /\ pc[p] = "gate" /\ job[p].kind = "change"
    /\ \/ /\ row.version = job[p].version
          /\ \E after \in Snapshots \ {job[p].seen} :
                /\ Versioned(p, after) /\ disk' = after
                /\ job' = [job EXCEPT ![p].made = after]
          /\ \E contractChanging \in BOOLEAN :
                Goto(p, IF contractChanging THEN "stage" ELSE "end")
       \/ Goto(p, "end") /\ UNCHANGED <<disk, row, job>>
    /\ UNCHANGED <<migs, lock, todo, alone, jobs, kills>>

\* Staged only now, when the change is already live.
Stage(p) ==
    /\ pc[p] = "stage"
    /\ migs' = Append(migs, [before |-> job[p].seen, after |-> job[p].made,
                             status |-> "staged"])
    /\ Goto(p, "end")
    /\ UNCHANGED <<disk, row, lock, job, todo, alone, jobs, kills>>

ReadForAccept(p) ==
    /\ pc[p] = "ready" /\ Drifted
    /\ job' = [job EXCEPT ![p] = [Idle EXCEPT !.kind = "accept", !.seen = disk,
                                              !.version = row.version]]
    /\ Goto(p, "gate")
    /\ UNCHANGED <<disk, row, migs, lock, todo, alone, jobs, kills>>

\* acceptDrift writes the row it was given, whatever the row is by now.
AcceptDrift(p) ==
    /\ pc[p] = "gate" /\ job[p].kind = "accept"
    /\ \/ Versioned(p, job[p].seen)
       \/ UNCHANGED row
    /\ Goto(p, "end")
    /\ UNCHANGED <<disk, migs, lock, job, todo, alone, jobs, kills>>

-----------------------------------------------------------------------------
(* Activating and rolling back a record.                                   *)

Ask(p, kind) ==
    /\ pc[p] = "ready"
    /\ \E id \in DOMAIN migs :
        job' = [job EXCEPT ![p] = [Idle EXCEPT !.kind = kind, !.id = id]]
    /\ \/ Goto(p, "check")
       \/ Goto(p, "end")
    /\ UNCHANGED <<disk, row, migs, lock, todo, alone, jobs, kills>>

AskActivate(p) == Ask(p, "activate")
AskRollback(p) == Ask(p, "rollback")

NotActive(status) == status # "active"   \* mutant: anything not active yet
Activatable(status) == status = "staged"
Revertible(status) == status # "rolled_back"

\* Mutant: the record is marked before its files are written.
MarkFirst(p) ==
    /\ pc[p] = "check"
    /\ \/ job[p].kind = "activate" /\ Activatable(migs[job[p].id].status)
       \/ job[p].kind = "rollback" /\ Revertible(migs[job[p].id].status)
    /\ migs' = [migs EXCEPT ![job[p].id].status =
                    IF job[p].kind = "activate" THEN "active" ELSE "rolled_back"]
    /\ todo' = [todo EXCEPT ![p] = Files]
    /\ Goto(p, "write")
    /\ UNCHANGED <<disk, row, lock, job, alone, jobs, kills>>

\* The status, the scan for secrets, the path guard and, for an activation,
\* a full sandbox pass: any of them may refuse, and nothing was written.
Check(p) ==
    LET status == migs[job[p].id].status IN
    /\ pc[p] = "check"
    /\ \/ /\ \/ job[p].kind = "activate" /\ Activatable(status)
             \/ job[p].kind = "rollback" /\ Revertible(status)
          /\ todo' = [todo EXCEPT ![p] = Files]
          /\ Goto(p, "write")
       \/ Goto(p, "end") /\ UNCHANGED todo
    /\ UNCHANGED <<disk, row, migs, lock, job, alone, jobs, kills>>

Target(p) == IF job[p].kind = "activate" THEN migs[job[p].id].after
                                          ELSE migs[job[p].id].before

SkipsTheLast(p) == "status"   \* mutant: the status is set after the first file
AfterWrite(p) == IF Cardinality(todo[p]) = 1 THEN "status" ELSE "write"

WriteFile(p) ==
    /\ pc[p] = "write"
    /\ \E f \in todo[p] :
        /\ disk' = [disk EXCEPT ![f] = Target(p)[f]]
        /\ todo' = [todo EXCEPT ![p] = @ \ {f}]
    /\ Goto(p, AfterWrite(p))
    /\ UNCHANGED <<row, migs, lock, job, alone, jobs, kills>>

\* An activation puts back, for what it wrote, the before snapshot of the
\* record; a roll-back throws where it stands.
WriteFails(p) ==
    /\ pc[p] = "write"
    /\ IF job[p].kind = "activate"
       THEN todo' = [todo EXCEPT ![p] = Files \ @] /\ Goto(p, "undo")
       ELSE UNCHANGED todo /\ Goto(p, "end")
    /\ UNCHANGED <<disk, row, migs, lock, job, alone, jobs, kills>>

UndoWrite(p) ==
    /\ pc[p] = "undo"
    /\ \/ \E f \in todo[p] :
            /\ disk' = [disk EXCEPT ![f] = migs[job[p].id].before[f]]
            /\ todo' = [todo EXCEPT ![p] = @ \ {f}]
            /\ UNCHANGED pc
       \/ Goto(p, "end") /\ UNCHANGED <<disk, todo>>   \* done, or it throws again
    /\ UNCHANGED <<row, migs, lock, job, alone, jobs, kills>>

SetMigrationStatus(p) ==
    /\ pc[p] = "status"
    /\ migs' = [migs EXCEPT ![job[p].id].status =
                    IF job[p].kind = "activate" THEN "active" ELSE "rolled_back"]
    /\ Goto(p, "end")
    /\ UNCHANGED <<disk, row, lock, job, todo, alone, jobs, kills>>

-----------------------------------------------------------------------------
Step(p) ==
    \/ End(p)
    \/ ReadForChange(p) \/ Commit(p) \/ Stage(p)
    \/ ReadForAccept(p) \/ AcceptDrift(p)
    \/ AskActivate(p) \/ AskRollback(p)
    \/ Check(p) \/ WriteFile(p) \/ WriteFails(p) \/ UndoWrite(p) \/ SetMigrationStatus(p)

\* The bounded session is over.
Over == jobs = MaxJobs /\ (\A p \in Procs : ~ Busy(p)) /\ UNCHANGED vars

Next == Over \/ \E p \in Procs : Begin(p) \/ Step(p) \/ Kill(p)

Spec == Init /\ [][Next]_vars

-----------------------------------------------------------------------------
(* Properties.  A process is alone when nobody else was at work at any     *)
(* time since it began: the lock promises that to a command as far as      *)
(* commands go, but nothing keeps tool calls apart from it or from each    *)
(* other.                                                                  *)

\* What a process that was alone marks as active, or as rolled back, is on
\* disk as a whole (activateMigration, rollbackMigration: the status is last).
FinishedMeansWritten ==
    [][\A p \in Procs :
            alone[p] /\ pc[p] = "status" /\ pc'[p] = "end" => disk = Target(p)]_vars

\* Wherever an activation or a roll-back is killed, or one of its writes fails,
\* the same command is accepted again, so that a half-written snapshot can be
\* completed (the checks at the start of the two functions).
HalfDoneIsRepeatable ==
    \A p \in Procs : alone[p] /\ pc[p] \in {"write", "undo", "status"} =>
        LET status == migs[job[p].id].status IN
        IF job[p].kind = "activate" THEN Activatable(status) ELSE Revertible(status)

\* A record that was rolled back is never made active by a process that was
\* alone; one that was not may have checked the status before the roll-back.
RolledBackIsFinal ==
    [][\A id \in DOMAIN migs :
            migs[id].status = "rolled_back" /\ migs'[id].status # "rolled_back" =>
                \E p \in Procs : pc[p] = "status" /\ job[p].id = id /\ ~ alone[p]]_vars
=============================================================================
