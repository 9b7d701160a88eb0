------------------------------ MODULE McpSession ------------------------------
(***************************************************************************)
(* A session of the MCP server: tool calls that overlap in one process.    *)
(* A call runs from one await to the next without interruption; between    *)
(* two of its steps other calls run.  They share the console of the        *)
(* process, the budget of gated actions, the manifest and the files.       *)
(*                                                                         *)
(* A commit is one step (CommitProtocol is about its inside), and so are   *)
(* the writes of a migration (StagedMigration) and of a scaffold.  What    *)
(* purix_reconcile may find is the operation of a process that was killed  *)
(* before the session.                                                     *)
(***************************************************************************)
EXTENDS Naturals, Sequences, SequencesExt, TargetResolution

CONSTANTS
    Components,       \* ids of components
    Paths,            \* files of the project
    Tracked,          \* the component that exists at the start
    Owned,            \* its file
    Calls,            \* tool calls that may be open at the same time
    None,             \* no component given
    Intents,          \* [words, exact]: the mentions in the text of a change,
                      \* and those of them that extractMentions finds
    MaxGatedActions,  \* PURIX_MCP_MAX_GATED_ACTIONS
    Limits,           \* components the licence may allow when a call asks
    MaxCalls          \* bound: calls received

ASSUME SessionAssumption ==
    /\ Tracked \in Components \ {IndexId} /\ Owned \in Paths
    /\ IndexId \in Components /\ None \notin Components
    /\ \A i \in Intents : i.exact \subseteq i.words
    /\ MaxGatedActions \in Nat /\ MaxCalls \in Nat /\ Limits \subseteq Nat

VARIABLES
    rows,      \* the manifest table: component id -> row
    disk,      \* files that exist
    drifted,   \* components whose files are not those their row recorded
    records,   \* per component: its latest migration record
    journal,   \* the operation an earlier process left unfinished, if any
    approve,   \* PURIX_MCP_AUTO_APPROVE, fixed when the server is started
    used,      \* gated actions counted so far
    worked,    \* history: gated work done so far
    console,   \* where console.log goes: stdout carries the protocol
    saved,     \* per call: the consoles its nested handlers found
    call,      \* per call: its tool, arguments, place and what it has read
    alone,     \* history: no other call was open since it began
    received

project == <<rows, disk, drifted, records, journal>>
budget == <<used, worked>>
vars == <<project, approve, budget, console, saved, call, alone, received>>

NoRow == [version |-> 0, files |-> {}, deps |-> {}, dependents |-> {}]
NoPlan == [id |-> None, path |-> Owned, deps |-> {}]
NoIntent == [words |-> {}, exact |-> {}]
NoList == [x \in {} |-> NoRow]

\* What a kill leaves in the journal: a change whose files were written, before or
\* after its compare-and-swap.  Nothing journals a create.
NoOperation == [of |-> None, version |-> 1, files |-> {}]
Operation == [of : Components, version : Nat, files : SUBSET Paths]
InterruptedChange == [of |-> Tracked, version |-> 2, files |-> {Owned}]

\* dry: dryRun; flag: force of delete, full of index; purge: deleteFiles; list:
\* the manifest purix_change resolved against; seen and files: the entry and the
\* files read; nested: made by purix_change; auto: the gate lets an ingest pass.
Request == [tool |-> "none", at |-> "idle", comp |-> None, dry |-> FALSE, flag |-> FALSE,
            purge |-> FALSE, intent |-> NoIntent, list |-> NoList, files |-> {},
            seen |-> NoRow, plan |-> NoPlan, nested |-> FALSE, auto |-> FALSE]

Plain == {"inspect", "remember", "reconcile", "backup"}
OnComponent == {"find", "ingest", "accept", "activate", "rollback"}
Opened == [Request EXCEPT !.at = "start"]

Asking(t) == [Opened EXCEPT !.tool = t]
Serving(t, x) == [Opened EXCEPT !.tool = t, !.comp = x]
Naming(t, x, d) == [Opened EXCEPT !.tool = t, !.comp = x, !.dry = d]
Telling(i, d) == [Opened EXCEPT !.tool = "change", !.intent = i, !.dry = d]
Removing(x, f, p) == [Opened EXCEPT !.tool = "delete", !.comp = x, !.flag = f, !.purge = p]
Indexing(f) == [Opened EXCEPT !.tool = "index", !.flag = f]

\* The calls an agent can make; a nested call is made by the server itself.
Requests ==
    {Asking(t) : t \in Plain}
    \union {Serving(t, x) : t \in OnComponent, x \in Components}
    \union {Naming(t, x, d) :
                t \in {"create", "modify", "change"}, x \in Components, d \in BOOLEAN}
    \union {Telling(i, d) : i \in Intents, d \in BOOLEAN}
    \union {Removing(x, f, p) : x \in Components, f \in BOOLEAN, p \in BOOLEAN}
    \union {Indexing(f) : f \in BOOLEAN}

Tools == {"none", "change", "create", "modify", "delete", "index"} \union Plain \union OnComponent
Labels == {"idle", "start", "plan", "suggest", "scaffold", "register", "read", "ingest", "commit",
           "match", "delete", "accept", "migrate", "index", "write", "repair", "outer"}
Row == [version : Nat, files : SUBSET Paths, deps : SUBSET Components,
        dependents : SUBSET Components]
IsListing(table) == table \in [DOMAIN table -> Row] /\ DOMAIN table \subseteq Components

IsCall(r) ==
    /\ r \in [tool : Tools, at : Labels, comp : Components \union {None}, dry : BOOLEAN,
              flag : BOOLEAN, purge : BOOLEAN, intent : Intents \union {NoIntent},
              list : {r.list}, files : SUBSET Paths, seen : Row,
              plan : [id : Components \union {None}, path : Paths, deps : SUBSET Components],
              nested : BOOLEAN, auto : BOOLEAN]
    /\ IsListing(r.list)

TypeOK ==
    /\ IsListing(rows) /\ disk \subseteq Paths /\ drifted \subseteq Components
    /\ records \in [Components -> [status : {"none", "staged", "active", "rolled_back"},
                                   files : SUBSET Paths]]
    /\ journal \in Operation \union {NoOperation}
    /\ approve \in BOOLEAN /\ used \in Nat /\ worked \in Nat /\ received \in 0..MaxCalls
    /\ console \in {"stdout", "stderr"}
    /\ saved \in [Calls -> Seq({"stdout", "stderr"})]
    /\ call = [c \in Calls |-> call[c]] /\ \A c \in Calls : IsCall(call[c])
    /\ alone \in [Calls -> BOOLEAN]

Init ==
    /\ journal \in {NoOperation, InterruptedChange}
    /\ \E v \in {1, journal.version} :
        /\ rows = [x \in {Tracked} |-> [NoRow EXCEPT !.version = v, !.files = {Owned}]]
        /\ drifted = IF v = journal.version THEN {} ELSE {Tracked}
    /\ disk = {Owned}
    /\ records = [x \in Components |-> [status |-> "none", files |-> {}]]
    /\ approve \in BOOLEAN /\ used = 0 /\ worked = 0
    /\ console = "stdout"
    /\ saved = [c \in Calls |-> <<>>]
    /\ call = [c \in Calls |-> Request]
    /\ alone = [c \in Calls |-> TRUE]
    /\ received = 0

-----------------------------------------------------------------------------
(* The frame of handleToolCall: console and nested calls.                  *)

Open(c) == call[c].at # "idle"
At(c, tool, label) == call[c].tool = tool /\ call[c].at = label

\* The tools that read the entry of their component do so once, at the start.
EntryRead(c) ==
    LET r == call[c] IN
    IF r.at = "start" /\ r.comp \in DOMAIN rows
        /\ r.tool \in {"modify", "ingest", "delete", "accept"}
    THEN rows[r.comp] ELSE r.seen

Goto(c, label) ==
    /\ call' = [call EXCEPT ![c].at = label, ![c].seen = EntryRead(c)]
    /\ UNCHANGED <<console, saved>>

Receive(c) ==
    /\ ~ Open(c) /\ received < MaxCalls
    /\ \E r \in Requests : call' = [call EXCEPT ![c] = r]
    /\ saved' = [saved EXCEPT ![c] = <<console>>]
    /\ console' = "stderr"
    /\ alone' = [d \in Calls |-> IF d = c THEN ~ \E e \in Calls : Open(e)
                                           ELSE alone[d] /\ ~ Open(d)]
    /\ received' = received + 1
    /\ UNCHANGED <<project, approve, budget>>

OutermostConsole(c) == Head(saved[c])   \* mutant: one saved console per call
ConsoleFound(c) == Last(saved[c])

\* finally: the handler puts back the console it found.  A nested handler
\* answers to the purix_change that called it.
Finish(c) ==
    /\ console' = ConsoleFound(c)
    /\ saved' = [saved EXCEPT ![c] = Front(@)]
    /\ call' = [call EXCEPT ![c] = IF Len(saved[c]) = 1 THEN Request
                                   ELSE [@ EXCEPT !.at = "outer"]]

Outer(c) ==
    /\ call[c].at = "outer"
    /\ Finish(c)
    /\ UNCHANGED <<project, approve, budget, alone, received>>

DropsDry(c) == call[c].dry /\ ~ call[c].nested   \* mutant: dryRun is not handed on
\* A nested call gets the dryRun of the purix_change that makes it.
HandsOnDry(c) == call[c].dry

Nested(c, tool, x, list) ==
    /\ call' = [call EXCEPT ![c] = [@ EXCEPT !.tool = tool, !.at = "start", !.comp = x,
                    !.nested = TRUE, !.list = list]]
    /\ saved' = [saved EXCEPT ![c] = Append(@, console)]
    /\ console' = "stderr"

-----------------------------------------------------------------------------
(* The session's budget and the confirmation.                              *)

ApprovedOnes == IF approve THEN used + 1 ELSE used   \* mutant: approvals count
Attempts == used + 1

\* createGatedActionBudget: the test and the count are one step, no await.
TryConsume == used < MaxGatedActions /\ used' = Attempts
Spent == used >= MaxGatedActions /\ UNCHANGED used

\* requireGatedApproval: an attempt counts whether or not it is approved.
Gate(c, next) ==
    /\ \/ Spent /\ Finish(c)
       \/ TryConsume /\ approve /\ Goto(c, next)
       \/ TryConsume /\ ~ approve /\ Finish(c)
    /\ UNCHANGED worked

\* A preview writes nothing and asks nobody, but counts.
Preview(c, next) ==
    /\ \/ Spent /\ Finish(c)
       \/ TryConsume /\ Goto(c, next)
    /\ UNCHANGED worked


Worked == worked' = worked + 1 /\ UNCHANGED used

\* An error, a refusal, or a model call that throws.
GiveUp(c) ==
    /\ call[c].at \in {"plan", "read", "scaffold", "match", "ingest"}
    /\ Finish(c)
    /\ UNCHANGED <<project, approve, budget, alone, received>>

-----------------------------------------------------------------------------
(* purix_create                                                            *)

CreateStart(c) ==
    LET r == call[c] IN
    /\ At(c, "create", "start")
    /\ IF r.comp \in DOMAIN rows THEN Finish(c) /\ UNCHANGED budget
       ELSE IF HandsOnDry(c) THEN Preview(c, "plan")
       ELSE Goto(c, "plan") /\ UNCHANGED budget
    /\ UNCHANGED <<project, approve, alone, received>>

\* The model chooses the id and the files; the id is looked up again.  Bound: it
\* never chooses the id of the index.
CreatePlan(c) ==
    /\ At(c, "create", "plan")
    /\ \E id \in Components \ {IndexId}, path \in Paths, deps \in SUBSET Components :
        IF id # call[c].comp /\ id \in DOMAIN rows
        THEN Finish(c)
        ELSE /\ call' = [call EXCEPT ![c].at = "suggest",
                                     ![c].plan = [id |-> id, path |-> path, deps |-> deps]]
             /\ UNCHANGED <<console, saved>>
    /\ UNCHANGED <<project, approve, budget, alone, received>>

CreateApprove(c) ==
    /\ At(c, "create", "suggest")
    /\ IF HandsOnDry(c) THEN Finish(c) /\ Worked
       ELSE \/ Finish(c) /\ UNCHANGED budget   \* nobody authorised to approve
            \/ Gate(c, "scaffold")
    /\ UNCHANGED <<project, approve, alone, received>>

Scaffold(c) ==
    /\ At(c, "create", "scaffold")
    /\ IF call[c].plan.path \in disk THEN Finish(c) /\ UNCHANGED disk
       ELSE disk' = disk \union {call[c].plan.path} /\ Goto(c, "register")
    /\ UNCHANGED <<rows, drifted, records, journal, approve, budget, alone, received>>

\* linkComponents: the dependencies that exist learn about the new component.
Linked(table, id, deps) ==
    [x \in DOMAIN table |->
        IF x \in deps \ {id} THEN [table[x] EXCEPT !.dependents = @ \union {id}]
        ELSE table[x]]

\* Verification in place, then the upsert with its limit and the links, with no
\* await between them.  A refusal by the limit leaves the files.
Register(c) ==
    LET plan == call[c].plan
        row == [NoRow EXCEPT !.version = 1, !.files = {plan.path}, !.deps = plan.deps]
        table == [x \in DOMAIN rows \union {plan.id} |->
                    IF x = plan.id THEN row ELSE rows[x]]
    IN
    /\ At(c, "create", "register")
    /\ \/ /\ disk' = disk \ {plan.path}
          /\ UNCHANGED <<rows, drifted, budget>>
       \/ /\ plan.id \notin DOMAIN rows /\ \E limit \in Limits : Cardinality(DOMAIN rows) >= limit
          /\ UNCHANGED <<rows, disk, drifted, budget>>
       \/ /\ plan.id \in DOMAIN rows \/ \E limit \in Limits : Cardinality(DOMAIN rows) < limit
          /\ rows' = Linked(table, plan.id, plan.deps)
          /\ drifted' = drifted \ {plan.id}
          /\ Worked /\ UNCHANGED disk
    /\ Finish(c)
    /\ UNCHANGED <<records, journal, approve, alone, received>>

-----------------------------------------------------------------------------
(* purix_modify and purix_ingest                                           *)

ModifyStart(c) ==
    LET r == call[c] IN
    /\ At(c, "modify", "start")
    /\ IF r.comp \notin DOMAIN rows THEN Finish(c) /\ UNCHANGED budget
       ELSE IF HandsOnDry(c) THEN Preview(c, "read") ELSE Gate(c, "read")
    /\ UNCHANGED <<project, approve, alone, received>>

\* Reading, scans, classification, escalation and sandbox end in a decision of
\* the TrustGate.  The approval at the start stands for a human_confirm.
ModifyWork(c) ==
    /\ At(c, "modify", "read")
    /\ IF HandsOnDry(c) THEN Finish(c) /\ Worked
       ELSE /\ \/ Finish(c)              \* abort
               \/ Goto(c, "commit")
            /\ UNCHANGED budget
    /\ UNCHANGED <<project, approve, alone, received>>

IngestStart(c) ==
    /\ At(c, "ingest", "start")
    /\ IF call[c].comp \in DOMAIN rows \ drifted THEN Goto(c, "ingest") ELSE Finish(c)
    /\ UNCHANGED <<project, approve, budget, alone, received>>

Unasked(c) == Goto(c, "commit") /\ UNCHANGED budget   \* mutant: the block of the gate is gone
AskForDiff(c) == Gate(c, "commit")

IngestWork(c) ==
    /\ At(c, "ingest", "ingest")
    /\ \/ /\ call' = [call EXCEPT ![c].at = "commit", ![c].auto = TRUE]
          /\ UNCHANGED <<console, saved, budget>>
       \/ AskForDiff(c)
    /\ UNCHANGED <<project, approve, alone, received>>

\* Components, the index for one, whose files another one's change writes.
Sharing(x, files) == {y \in DOMAIN rows \ {x} : rows[y].files \intersect files # {}}

Swapped(c) ==
    LET r == call[c] IN r.comp \in DOMAIN rows /\ rows[r.comp].version = r.seen.version

\* commitVersionedChange writes the entry that was read, with its next version.
\* A contract changing modify stages its record afterwards; an ingest does not.
Commit(c) ==
    LET r == call[c] IN
    /\ r.at = "commit"
    /\ \/ /\ Swapped(c)
          /\ rows' = [rows EXCEPT ![r.comp] = [r.seen EXCEPT !.version = @ + 1]]
          /\ disk' = disk \union r.seen.files
          /\ drifted' = (drifted \ {r.comp}) \union Sharing(r.comp, r.seen.files)
          /\ \/ /\ r.tool = "modify"
                /\ records' = [records EXCEPT ![r.comp] =
                                    [status |-> "staged", files |-> r.seen.files]]
             \/ UNCHANGED records
          /\ IF r.auto THEN UNCHANGED budget ELSE Worked
       \/ UNCHANGED <<rows, disk, drifted, records, budget>>
    /\ Finish(c)
    /\ UNCHANGED <<journal, approve, alone, received>>

-----------------------------------------------------------------------------
(* purix_change and purix_find                                             *)

\* resolveChangeTarget, first tiers: the given component, then exact matching.
ChangeStart(c) ==
    LET r == call[c]
        found == Candidates(rows, r.intent.exact)
    IN
    /\ At(c, "change", "start")
    /\ IF r.comp # None
       THEN /\ IF r.comp \in Targets(rows) THEN Nested(c, "modify", r.comp, rows)
                                           ELSE Finish(c)
            /\ UNCHANGED budget
       ELSE CASE Outcome(found) = "single" ->
                    Nested(c, "modify", The(found), rows) /\ UNCHANGED budget
              [] Outcome(found) = "multiple" -> Finish(c) /\ UNCHANGED budget
              [] OTHER ->
                    \/ Spent /\ Finish(c) /\ UNCHANGED worked
                    \/ /\ TryConsume /\ UNCHANGED worked
                       /\ call' = [call EXCEPT ![c].at = "match", ![c].list = rows]
                       /\ UNCHANGED <<console, saved>>
    /\ UNCHANGED <<project, approve, alone, received>>

\* Last tier: the model proposes mentions, matched against the same listing.  If
\* nothing matches, a component is created under a name made from the intent.
ChangeMatch(c) ==
    LET r == call[c] IN
    /\ At(c, "change", "match")
    /\ \E proposed \in SUBSET UNION {i.words : i \in Intents} :
        LET found == Candidates(r.list, Verbatim(proposed, r.intent.words)) IN
        CASE Outcome(found) = "single" -> Nested(c, "modify", The(found), r.list)
          [] Outcome(found) = "multiple" -> Finish(c)
          [] OTHER -> \E name \in Components : Nested(c, "create", name, r.list)
    /\ Worked
    /\ UNCHANGED <<project, approve, alone, received>>

\* Read-only, or about state that is not modelled here: memory notes.
Inspect(c) ==
    /\ call[c].tool \in {"inspect", "find", "remember"}
    /\ call[c].at = "start"
    /\ Finish(c)
    /\ UNCHANGED <<project, approve, budget, alone, received>>

-----------------------------------------------------------------------------
(* purix_delete, purix_accept_drift, the migration tools, index, backup    *)

DeleteStart(c) ==
    LET r == call[c] IN
    /\ At(c, "delete", "start")
    /\ IF \/ r.comp \notin DOMAIN rows
          \/ rows[r.comp].dependents # {} /\ ~ r.flag
          \/ r.comp = IndexId /\ r.purge
       THEN Finish(c) /\ UNCHANGED budget
       ELSE Gate(c, "delete")
    /\ UNCHANGED <<project, approve, alone, received>>

\* Both directions of the graph as the entry read at the start had them.
Delete(c) ==
    LET r == call[c] IN
    /\ At(c, "delete", "delete")
    /\ rows' = [x \in DOMAIN rows \ {r.comp} |->
                    [rows[x] EXCEPT
                        !.dependents = IF x \in r.seen.deps THEN @ \ {r.comp} ELSE @,
                        !.deps = IF x \in r.seen.dependents THEN @ \ {r.comp} ELSE @]]
    /\ disk' = IF r.purge THEN disk \ r.seen.files ELSE disk
    /\ drifted' = (drifted \ {r.comp}) \union
                    IF r.purge THEN Sharing(r.comp, r.seen.files) ELSE {}
    /\ Worked /\ Finish(c)
    /\ UNCHANGED <<records, journal, approve, alone, received>>

AcceptStart(c) ==
    /\ At(c, "accept", "start")
    /\ IF call[c].comp \in DOMAIN rows \intersect drifted
       THEN Gate(c, "accept")
       ELSE Finish(c) /\ UNCHANGED budget
    /\ UNCHANGED <<project, approve, alone, received>>

\* acceptDrift upserts the entry that was read, without a compare-and-swap.
Accept(c) ==
    LET r == call[c] IN
    /\ At(c, "accept", "accept")
    /\ \/ /\ rows' = [x \in DOMAIN rows \union {r.comp} |->
                        IF x = r.comp THEN [r.seen EXCEPT !.version = @ + 1] ELSE rows[x]]
          /\ drifted' = drifted \ {r.comp}
          /\ Worked
       \/ UNCHANGED <<rows, drifted, budget>>
    /\ Finish(c)
    /\ UNCHANGED <<disk, records, journal, approve, alone, received>>

ActivateStart(c) ==
    /\ At(c, "activate", "start")
    /\ Gate(c, "migrate")
    /\ UNCHANGED <<project, approve, alone, received>>

RollbackStart(c) ==
    /\ At(c, "rollback", "start")
    /\ Gate(c, "migrate")
    /\ UNCHANGED <<project, approve, alone, received>>

\* The files may or may not be those the row recorded afterwards.
Migrate(c) ==
    LET which == call[c].comp
        new == IF call[c].tool = "activate" THEN "active" ELSE "rolled_back"
    IN
    /\ call[c].at = "migrate"
    /\ \/ /\ records[which].status \in IF new = "active" THEN {"staged"} ELSE {"staged", "active"}
          /\ records' = [records EXCEPT ![which].status = new]
          /\ disk' = disk \union records[which].files
          /\ \E same \in BOOLEAN :
                drifted' = (IF same THEN drifted \ {which}
                                    ELSE drifted \union ({which} \intersect DOMAIN rows))
                            \union Sharing(which, records[which].files)
          /\ Worked
       \/ UNCHANGED <<disk, drifted, records, budget>>
    /\ Finish(c)
    /\ UNCHANGED <<rows, journal, approve, alone, received>>

IndexStart(c) ==
    /\ At(c, "index", "start")
    /\ IF call[c].flag THEN Gate(c, "index") ELSE Goto(c, "index") /\ UNCHANGED budget
    /\ UNCHANGED <<project, approve, alone, received>>

\* The languages asked for select among the files; a language that is not
\* entitled stops it.  The row of the index is read before the fingerprints of
\* the dependencies are awaited.
IndexScan(c) ==
    /\ At(c, "index", "index")
    /\ \/ Finish(c)
       \/ \E files \in SUBSET disk :
            /\ call' = [call EXCEPT ![c].at = "write", ![c].files = files,
                            ![c].seen = IF IndexId \in DOMAIN rows THEN rows[IndexId]
                                        ELSE [NoRow EXCEPT !.version = 1]]
            /\ UNCHANGED <<console, saved>>
    /\ UNCHANGED <<project, approve, budget, alone, received>>

\* An upsert without limit or compare-and-swap.  A file that was changed since
\* the scan leaves the index drifted.
IndexWrite(c) ==
    LET row == [call[c].seen EXCEPT !.version = @ + 1, !.files = call[c].files] IN
    /\ At(c, "index", "write")
    /\ rows' = [x \in DOMAIN rows \union {IndexId} |-> IF x = IndexId THEN row ELSE rows[x]]
    /\ drifted' \in {drifted \ {IndexId}, drifted \union {IndexId}}
    /\ IF call[c].flag THEN Worked ELSE UNCHANGED budget
    /\ Finish(c)
    /\ UNCHANGED <<disk, records, journal, approve, alone, received>>

\* Any file inside the project, a tracked one too; elsewhere it is refused.
Backup(c) ==
    /\ At(c, "backup", "start")
    /\ \/ \E path \in Paths :
            /\ disk' = disk \union {path}
            /\ drifted' = drifted \union {x \in DOMAIN rows : path \in rows[x].files}
       \/ UNCHANGED <<disk, drifted>>
    /\ Finish(c)
    /\ UNCHANGED <<rows, records, journal, approve, budget, alone, received>>

-----------------------------------------------------------------------------
(* purix_reconcile, which asks nobody.                                     *)

\* listPendingOperations, and the look at the files, which awaits.
ReconcileStart(c) ==
    /\ At(c, "reconcile", "start")
    /\ IF journal = NoOperation THEN Finish(c)
       ELSE /\ call' = [call EXCEPT ![c].at = "repair", ![c].plan.id = journal.of,
                    ![c].seen = [NoRow EXCEPT !.version = journal.version,
                                              !.files = journal.files]]
            /\ UNCHANGED <<console, saved>>
    /\ UNCHANGED <<project, approve, budget, alone, received>>

\* The files landed and verify: the row gets the new version if it still has the one
\* before.  (The cascade that may follow changes verdicts only.)
Completes(x, op) ==
    /\ op.files \subseteq disk /\ x \in DOMAIN rows /\ rows[x].version = op.version - 1
    /\ rows' = [rows EXCEPT ![x].version = op.version]
    /\ drifted' = IF rows[x].files = op.files THEN drifted \ {x} ELSE drifted \union {x}
    /\ journal' = NoOperation
    /\ UNCHANGED disk

\* They landed and do not verify: the before snapshot is written back, which the row
\* may or may not have recorded.  A write that fails leaves the journal row.
Rejects(x, op) ==
    /\ op.files \subseteq disk /\ x \in DOMAIN rows
    /\ \E same \in BOOLEAN :
            drifted' = (IF same THEN drifted \ {x} ELSE drifted \union {x})
                            \union Sharing(x, op.files)
    /\ journal' \in {NoOperation, journal}
    /\ UNCHANGED <<rows, disk>>

\* No write had landed, or the operation is left for manual review.
Leaves == journal' \in {NoOperation, journal} /\ UNCHANGED <<rows, disk, drifted>>

Reconcile(c) ==
    LET comp == call[c].plan.id  op == call[c].seen IN
    /\ At(c, "reconcile", "repair")
    /\ Completes(comp, op) \/ Rejects(comp, op) \/ Leaves
    /\ Finish(c)
    /\ UNCHANGED <<records, approve, budget, alone, received>>

-----------------------------------------------------------------------------
Step(c) ==
    \/ Outer(c) \/ GiveUp(c)
    \/ CreateStart(c) \/ CreatePlan(c) \/ CreateApprove(c) \/ Scaffold(c) \/ Register(c)
    \/ ModifyStart(c) \/ ModifyWork(c) \/ IngestStart(c) \/ IngestWork(c) \/ Commit(c)
    \/ ChangeStart(c) \/ ChangeMatch(c) \/ Inspect(c)
    \/ DeleteStart(c) \/ Delete(c) \/ AcceptStart(c) \/ Accept(c)
    \/ ActivateStart(c) \/ RollbackStart(c) \/ Migrate(c)
    \/ IndexStart(c) \/ IndexScan(c) \/ IndexWrite(c) \/ Backup(c)
    \/ ReconcileStart(c) \/ Reconcile(c)

\* The bounded session is over.
Over == received = MaxCalls /\ (\A c \in Calls : ~ Open(c)) /\ UNCHANGED vars

Next == Over \/ \E c \in Calls : Receive(c) \/ Step(c)

Spec == Init /\ [][Next]_vars

-----------------------------------------------------------------------------
(* Properties.                                                             *)

Moves(c) == call'[c] # call[c]

\* Whatever calls overlap or nest, gated work, previews and model matches done
\* never outnumber the attempts counted, which never pass the session's limit
\* (createGatedActionBudget, requireGatedApproval).
GatedWorkIsCounted == worked <= used /\ used <= MaxGatedActions

\* In a session that was not started with PURIX_MCP_AUTO_APPROVE, the manifest
\* changes only by an ingested diff that the TrustGate lets pass on its own, by the
\* row of an index that was not asked to be full, and where reconciliation finishes
\* the operation it found in the journal, for that component alone.
UnapprovedOnlyIngests ==
    [][~ approve /\ rows' # rows =>
            \E c \in Calls :
                /\ Moves(c)
                /\ \/ At(c, "ingest", "commit") /\ call[c].auto
                   \/ At(c, "index", "write") /\ ~ call[c].flag
                   \/ /\ At(c, "reconcile", "repair")
                      /\ \A x \in DOMAIN rows \ {call[c].plan.id} : rows'[x] = rows[x]]_vars

\* A dry run, a nested one too, leaves the manifest, the files, the migration
\* records and the index as they are (the dryRun arguments: "writes nothing").
DryRunsWriteNothing ==
    [][\A c \in Calls : Moves(c) /\ call[c].dry => UNCHANGED project]_vars

\* What purix_change modifies is the component it was given, or one that the
\* text of the intent itself mentions, and the only one where exact matching
\* found any (resolveChangeTarget, filterVerbatimMentions).
ChangesHitTheirMention ==
    \A c \in Calls :
        LET r == call[c]
            exact == Candidates(r.list, r.intent.exact)
        IN r.nested /\ r.tool = "modify" /\ r.intent # NoIntent =>
            IF exact # {} THEN exact = {r.comp}
            ELSE r.comp \in Candidates(r.list, r.intent.words)

\* The console of a call that overlaps with no other leads to stderr, also after
\* calls it made itself have ended: stdout carries the protocol (handleToolCall).
LoneCallsLogToStderr ==
    \A c \in Calls : Open(c) /\ alone[c] => console = "stderr"
=============================================================================
