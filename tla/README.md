# Purix in TLA+

Purix is a command-line tool and an MCP server that let language models create and
change code while a *manifest* (an SQLite database in `.purix/`) keeps, for every
component of a project, its files, its versions with their snapshots, and the components
it depends on. A change goes through a sandbox, repair loops, a *TrustGate* and, where
needed, a human; it is then committed through a journal so that a crash can be resolved
later. This directory holds TLA+ models of the parts of Purix that decide whether that
is safe, the TLC configurations that check them, and TLAPS proofs of what they promise.

Paths below are relative to `src/packages/`; `core` stands for `core/src`, `cli` for
`cli/src`, `mcp` for `mcp-server/src`.

1. The system
2. The modules
3. The runs
4. Fairness
5. The proofs
6. What the models leave out
7. What disagrees with the comments
8. Plan

## 1. The system

One **process** is one `purix` command or one MCP server. Node runs a process's
JavaScript on one thread, so two steps of a process interleave only at an `await`;
SQLite statements and file calls of *different* processes interleave anywhere. All state
that outlives a process is in `.purix/`, in the tracked files, or in the user's
configuration directory. The processes share no memory; they meet through these files:

```
          purix <command>  ---- reconcile ----+          MCP server
                |                             |        /     |      \
           repo.lock <---- heartbeat          |   tool call  ...   scheduler
                |                             v        |             |
   request -> classify -> sandbox -> heal -> escalate -> TrustGate -> human
                |                                                    |
                +------------------> commit <------------------------+
                         journal, files, manifest row, cascade
                                        |
                          migration record -> activate / roll back
```

### Components

For every component: its state, its operations, what is hard, and what makes it correct.
The status of each is in `PROJECT.json`.

| component | state | operations | hard behaviour | correct when |
|---|---|---|---|---|
| commit and reconcile (`core/manifest/commit_and_cascade.ts`, `core/entrypoints/modify.ts`, `core/state/reconcile.ts`, `core/state/drift.ts`) | tracked files; the row's `current_version`, snapshots; `pending_operations` | journal, back up, write, compare-and-swap, roll back, complete, reconcile | kill at any step; failing writes; concurrent commits; tool calls take no lock | files are those of a version unless a journal row says otherwise; acknowledged commits stay; history has no holes |
| manifest store, dependency graph, backup (`core/manifest/store.ts`, `cli/cli/commands/backup.ts`) | the `manifest` table; `depends_on`, `depended_on_by`; a dump of the table | register, link, delete, cascade, accept drift, back up, restore, read and write of one row | read-modify-write of a *dependency's* row; kill between two rows | edges are symmetric; nothing with dependents is deleted; no version is lost, nothing deleted returns |
| repository lock (`core/state/repo_lock.ts`) | `.purix/repo.lock`, the heartbeat timer | acquire, beat, reclaim, release | check-then-write, dead holders, reused process ids, torn reads | one holder; a live holder is not reclaimed; a dead lock does not block |
| maintenance scheduler (`core/state/scheduler.ts`) | `lastRunAt` per task | poll, lock check, run | a skipped task counts as run | a dead lock does not stop maintenance |
| configuration store (`core/state/config.ts`, `core/state/project_id.ts`) | `config.json`, `config.lock/`, `config.lock.steal/` | set, delete, getOrCreate, steal | two waiters steal one lock; kill while stealing; an unlocked look before the locked one | exclusion, no lost update, one id for all callers, a waiter gets in |
| modify and ingest pipeline, operation library (`cli/cli/commands/lifecycle.ts`, `mcp/server.ts`, `core/llm`, `core/recovery`, `core/gates`, `core/manifest/library.ts`) | files, version, idempotency keys, library, approvers, session budget, overrides | the steps of a request | three repair loops, replayed fixes, many ways to the gate, flaky tests, eviction | only verified content is committed; nothing suspicious is committed unseen; loops are bounded |
| request for a change and ingest (`core/entrypoints/ingest.ts`) | the text of a diff, the files it is applied to | parse, read, apply, check, merge | line numbers at both ends of a file, lines that look like headers, sections of one path | the files that go to the sandbox are those the diff means, or it is refused |
| LLM calls, budget, circuit breaker, provider (`core/llm/classify.ts`, `budget.ts`, `circuit.ts`, `providers.ts`) | `budget_state`, `circuit_state`, `provider-config.json`, the override of a command | reserve, choose a provider and a tier, call, settle, refund, trip, retry | shared ceiling, a provider changed with a call on its way, a throw between reservation and refund, a kill with a request out | money spent is accounted for; the ceiling holds up to known slack; calls end |
| staged migrations (`core/state/migration.ts`, `core/manifest/migrations.ts`) | rows of `migrations`, their files | stage, activate, roll back | writes file by file, without a journal; stale status | what is marked done is on disk; what is half done can be done again |
| audit chain (`core/security/audit_tamper_evidence.ts`) | chained rows, checkpoints | append, prune, verify | fork by two appenders, prunes that overlap or are killed | an untouched chain verifies; what is gone is covered by a checkpoint |
| MCP session, targets, indexer (`mcp/server.ts`, `core/manifest/change_target.ts`, `resolver.ts`, `mentions.ts`, `indexer.ts`) | open calls, action budget, redirected console, approvals, the index's row | every tool call, also those that `purix_change` makes itself | overlapping calls share console, budget and manifest; `dryRun` handed on; a listing that is stale after a model call | gated work is counted, dry runs write nothing, a change hits what its text mentions |
| component limit and licensing (`core/licensing`, `cli/cli/commands/auth.ts`) | the session file, a cache of entitlements per project, the server's tokens | log in, refresh, log out, create, index | a cache nobody refreshes, an answer that arrives after a log-out, two creates that count at once | a lapsed plan ends within the grace; creates stay within the limit for all who never had more |
| sandbox and gates, verifiers, language providers | copies of the tree | verify, scan | none here: functions of the files (flaky tests apart) | verdict depends on the content only |
| identity, machine id, secrets, gateway, schema upgrades, events, prompt packing, terminal, platform helpers | one file or table each | look-ups, single writes | whole-file writes without a lock (machine id, secrets) | see `hazards` in `PROJECT.json` |

### Interactions

* A mutating command runs **reconcile before it takes the lock** (`cli/cli.ts:334`), so
  reconciliation meets the journal rows of commands that are still running, commits over
  them, and cascades into the rows of other components without the lock.
* A tool call of the MCP server **takes no lock and does not reconcile**. A commit of a
  change is protected against everybody else by the compare-and-swap on
  `current_version`; nothing protects a commit's row from the writers that compare
  nothing. The tool calls of one server overlap with each other at their `await`s.
* **Rows are also written by upserts that compare nothing**: accept-drift, the cascade, the
  linking of components, the index, the write-back of a row in an old format, and, for
  the whole table, a restore. Commands are kept from each other by the lock; tool calls
  and reconciliation are not.
* `commitAndCascade` calls the store's cascade, which rewrites rows of *other*
  components; a contract-changing modify stages a migration record after its commit.
* A request that fails verification enters self-healing, then escalation (library
  replay, context repair); a repaired change may be promoted to the library **before**
  the TrustGate and the human have seen the change.
* Every model call of every loop goes through the shared budget and circuit breaker.
* `purix_change` resolves a target and calls the handler of `purix_modify` or
  `purix_create` in the same process.
* The scheduler of an MCP server asks whether somebody holds the repository lock but
  takes no lock itself.
* Every gate of the licence reads the cache; only `login` and `tier-status` fill it.

### The hazards

`PROJECT.json` lists them with their lines. They are of six kinds: a kill between two
writes that belong together; a value read, then used after somebody else has written;
roll-backs that run after another process has committed; lock files whose holder is
dead, slow or imitated; a request that reaches a commit by a way its checks were not
written for; and numbers (lines of a diff, money, days of retention, components of a
plan) at their limits. A hazard without a property has a note: nearly always the
property would not hold, and section 7 says what the code does instead.

## 2. The modules

| module | stands for | proofs |
|---|---|---|
| `VersionedHistory` | what the commit protocol promises: versions are appended, one at a time | |
| `CommitProtocol` | one component's journaled commit and reconciliation | `CommitProtocolProofs` |
| `ManifestGraph` | the manifest table and its dependency lists, many components, backup and restore | `ManifestGraphProofs` |
| `RepoLock` | `.purix/repo.lock` | `ServerProofs` |
| `Maintenance` | `RepoLock` composed with the scheduler of a server | `ServerProofs` |
| `ConfigStore` | `config.json` under its lock directory, the project id | `ConfigStoreProofs` |
| `ModifyPipeline` | a request from its text to its commit, the operation library | `RequestProofs` |
| `UnifiedDiff` | a diff from its text to the files that go to the sandbox | `RequestProofs` |
| `LlmCalls` | model calls, provider and tier, budget, circuit breaker | `RequestProofs` |
| `StagedMigration` | migration records next to the commits of a component | `StagedMigrationProofs` |
| `AuditChain` | the chain of audit records and its checkpoints | `AuditChainProofs` |
| `McpSession` | the tool calls of one server | `ServerProofs` |
| `TargetResolution` | which component a text is about; used by `McpSession` | `ServerProofs` |
| `Licensing` | sessions, entitlements, the component limit | `LicensingProofs` |

`MC...` modules only add the definitions a configuration needs; all constants get their
values in the `.cfg` files. Definitions that occur in no action and whose comment says
*mutant* (such as `NotJournaled` of `CommitProtocol`) stand for a plausible bug;
`PROJECT.json` says which definition each replaces and which property then fails.

### CommitProtocol

`disk` maps a path to its content; `row` is the component's manifest row: its version,
the snapshot that version recorded, its tracked paths, and the operation of each version.
`ops` remembers every operation ever journaled and `journal` the ids of those whose row
is still in `pending_operations`. Every process has a label `pc`, its copy of the
manifest entry, the contents it has read, and the paths left in its loop. Two variables
are history: `acked`, the operations whose caller was told that they are committed, and
`rejected`, those that were committed when reconciliation found that their files no
longer verify.

| action | code |
|---|---|
| `NextPending`, `MatchAfter`, `MatchBefore`, `ReconcileDone` | `reconcilePendingOperations`: which side of the change the files match |
| `Reverify`, `ReconcileCommit`, `ReconcileUndo`, `ReconcileDrop` | files that landed are verified again, which may fail: finish it, put the files back, drop the row |
| `AcquireLock`, `ReadEntry`, `ReadLive`, `Refuse` | the command's start, up to the drift check |
| `JournalChange`, `Backup`, `WriteFile`, `WriteFails`, `UndoWrite` | `applyModification`, file by file |
| `Commit`, `Complete` | the transaction of `commitAndCascade`; `completeModification` |
| `UndoConflict`, `DropPending` | a lost compare-and-swap |
| `Crash`, `Edit` | a kill of a process, with its lock; an editor outside Purix |

Every file call and SQL statement is a step. A crash of the MCP server kills all its
tool calls at once. The hash of a set of files is the set's snapshot: the code's SHA-256
is taken to be collision free. Why a change that passed the sandbox may fail in place:
a flaky test, a tool of the verifiers that is not installed for whoever reconciles, a
dependency that changed since, or a language that cannot be resolved any more.

`VersionedHistory` is the abstract view: a version number and the snapshots so far; its
only step appends one. `ImplementsVersionedHistory` maps the row to it.

### ManifestGraph

`rows` maps an existing component to its version, the numbers of the commands that made
its versions, `deps` (`depends_on`) and `dependents` (`depended_on_by`). `loose` is no
column: it records which of a new component's `deps` the linking passed over, because the
id was unknown or the component's own; `Linked(row)` are the others. `journal` is the table
of interrupted changes, `backup` the dump of both tables in the backup file, if there is
one.

A command takes the lock in `Begin`, then runs *create* (`CheckNew`, `Register` with any
set of dependencies, `LinkRead`/`LinkWrite`), *delete* (`DeleteRead`, `RemoveRow`), *modify*
(`ReadEntry`, `JournalChange`, `Commit`, `Complete`, and the cascade) or *accept*
(`AcceptBaseline`), each with the loop over the rows of neighbours (`LoopRead`,
`LoopWrite`, `LoopEnd`) that the code makes outside a transaction; `ExportManifestData`
writes the dump, `ReadBackup` and `ImportManifestData` put it back in one transaction.
`Reconcile` begins a reconciliation, at any time and **without the lock**: `TakeChange`
takes the next row of the journal and finds out, by what the files may say, whether to
leave it, drop it or complete it, and `CompleteLanded` is the compare-and-swap of the
latter, again with its cascade. `beside` is history: a reconciliation has worked beside
another process, from when on nothing is claimed (section 7).

### RepoLock and Maintenance

`file` is absent, truncated (`Torn`), or a record with a process id and an age in ticks;
`pid` gives the process id of a slot, so a killed holder's id can come back with a
`bystander`. `acquireRepoLock` is `CheckExists`, `ReadLock`, `RemoveFile`, `Truncate`,
`WriteLock`: the existence check, the read, the unlink, and the two halves of a
`writeFileSync`. The heartbeat (`Beat`, `FinishBeat`) rewrites the file in the same two
halves. `Tick` passes time, whenever it likes: a holder in synchronous work may miss any
number of heartbeats. Ages and timers stop counting once they are past `StaleAfter`.
`Bystanders` says whether foreign programs get a reused process id.

Two things can happen that the lock cannot withstand. `incidents` is history and remembers
them: `"overlap"`, that a process called a lock function while another one was inside
(the file is made without exclusive create and rewritten in place, so either may meet it
between two calls of the other), and `"late"`, that a holder's heartbeat was late by more
than `StaleAfter`. Both happen in the runs; the properties say what holds before, and
what still holds after.

`Maintenance` adds the poll of the server's timer (`Poll`, `RunTask`, `EndTask`); `Poll`
sets `lastRunAt` before the lock is looked at, as the code does.

### ConfigStore

`config` holds a counter under each process's own key and the shared id. A call is
*set*, *delete* or *id*; `GetCached` is the look at the file without the lock by which
`getProjectId` begins. The lock is a directory with a `holder.json` written after the
`mkdir`, so `lock` may name nobody yet (`Unknown`). `Judge`, `MkdirSteal`, `Verify`,
`RemoveLock`, `LeaveSteal` are the steal of a stale lock under a second directory;
`BreakSteal` removes that one when it is abandoned. `ReadAll` and `WriteAll` are the two
halves of the read-modify-write. A wait is a step back to `Mkdir`; after its deadline
the code throws, and a caller in `Retrying` calls again.

### ModifyPipeline

`rq` is the local state of the one request that runs; the rest is persistent. A request
is one of four `Paths`: the commands `modify` and `ingest` and the tools of the MCP
server for both. In order: `CheckKey` (idempotency), `Gate` (the session's action budget
and its confirmation), `Scan` (secrets and injection), `RefineIntent`, `Classify`,
`Verify` (sandbox), `Heal` up to `HealAttempts`, `Replay` (the library), `Context`,
`Repair` up to `RepairAttempts`, `Promote`, `Trust` (TrustGate with its floors, through
`EvaluateTrustGate` and `Floor`), `Approve`, `ApproveDiff` or `ApproveTool`, `Commit`,
`RecordRequest`; `Kill` at any label.

All of a component's files are one content, and the verdict of the sandbox is a function
of it: `Flaws[c]` says which stages object (`"secret"`, `"unsafe"` for the security
gate, `"ill_typed"` for the compiler, `"failing"` for the tests, `"flaky"` for tests that
may pass and may not), `Tests[c]` how strong its tests are. `GateBlocks`, `TestRuns` and
`SandboxVerdicts` follow the order of the sandbox. `rq.override` is the security override of the request:
`armed` until the gate has used it, `spent` afterwards. The library holds at most
`LibraryLimit` fixes; `used` orders them by their last use, `Evicted` is what
`promoteOperation` throws out. What a model or a human answers is any value. Requests
run one after the other, since races at the commit are `CommitProtocol`'s subject.

### UnifiedDiff

A file is a sequence of lines. `meant` is what the author of the diff meant, `Rendered`
the text of it, in which a removed line that starts with `-- ` reads as the header of a
file; the program sees the text only. `Parse` is `parseUnifiedDiff`, `ReadSection` the
reading and patching of one section (`HunkStart`, `ApplyHunk` and `ApplyLine` are the
loops of `applyHunks`), `Merged` and `CheckChanges` the merge over the component's
files and the refusals before the sandbox. `Patched` and `Fits` are the reference: what
the hunks say, put at the lines they name.

A section without hunks (an empty file that is added or deleted, a rename without a
change, a change of the mode) has no `---` and `+++` lines in git's text, so that the
parser does not see it. `Shown` are the sections the text shows. `Regular` names the
diffs the property speaks of: one shown section per file; a rename with a change does not
land on a file that exists, where it reads as a change of that file; no look-alike header
of a kind that does change what is taken (section 7); and every hunk has a line to find or
is an insertion before the first line, since git numbers an insertion after line *k* with
*k* and the code puts it before that line.

### LlmCalls

`spent`, `failures` and `openFor` are the two database rows; `local` is where a process
is in `callLlm`; `bills` remembers what was really paid, what was settled, and what is
stuck. `RouteTier` picks a tier from the budget that is left, `GetProvider` reads which
provider is configured (`BeginChoice` and `EndChoice` are another command that changes
it, with the file torn in between), and `CostOf` prices an answer by the provider and
model that gave it. `Reserve` is the atomic update with its ceiling, `UseOverride` the
override of a command, `CheckCircuit` throws when the circuit is open, `Generate` ends
in an answer or an error, `Settle`, `RecordSuccess`, `Refund`, `RecordFailure` and
`Retry` follow the `try` and `catch` blocks line by line, and any of these statements
may fail (`Fault`).

### StagedMigration

`disk` and `row` are the component's files and the version and hash of its row; `migs`
the rows of the migrations table, each with both snapshots and a status. A *change*
commits first (`Commit`) and then stages its record (`Stage`); *activate* and *rollback*
check the status (`Check`), write the files of the snapshot one by one (`WriteFile`;
`WriteFails` and `UndoWrite` are the failing write and the attempt to put the files
back), and set the status last; *accept* takes the files as they are for a new version.
Commands hold the repository lock, tool calls do not.

### AuditChain

`rows` maps an id to the hash before it, its own hash and its day; `checkpoints` is what
prunes leave. `ReadLast` and `Insert` are the two statements of an append, `Select`,
`Checkpoint` and `Delete` the three of a prune, `ReadRows` and `Verify` those of a
verification. `forked` and `crossed` are history: that a record was chained to one that
was not the last, and that a checkpoint was written behind a later one.

### McpSession and TargetResolution

A call goes from one `await` to the next without interruption, so a step is what lies
between two of them; every tool of `server.ts` is one or more actions named after it
(`CreateStart`, `CreatePlan`, `CreateApprove`, `ModifyStart`, `ModifyWork`, `IngestStart`,
`AskForDiff`, `IngestWork`, `ChangeStart`, `ChangeMatch`, `Inspect`, `DeleteStart`,
`Delete`, `Accept`, `Migrate`, `IndexScan`, `IndexWrite`, `Backup`, `ReconcileStart`,
`Reconcile`, ...). `journal` is the change of the tracked component that a process before
this server left unfinished, before or after its compare-and-swap, or none; `Completes`,
`Rejects` and `Leaves` are what `purix_reconcile` may make of it. `Receive` begins
a call and swaps the console, `Finish` puts back what the call found; `Nested` is the
call `purix_change` makes to the handler of `purix_modify` or `purix_create`. `used` counts
gated actions as `createGatedActionBudget` does, `worked` is history.

`Candidates` of `TargetResolution` is `resolveTarget` by id, by path and by symbol of
the index; `Verbatim` is `filterVerbatimMentions`, which decides what a model may propose.

### Licensing

`subscribed`, `tokens` and `issued` are the server's, `session` the machine's, `cache`
one entry per project with its age, `created` and `indexed` what the limit counts, `backups`
the dumps there are. `LoginStart`, `LoginVerify`, `SaveSession`, `Refresh`, `Answer`,
`NoAnswer`, `WriteCache`, `LogoutStart`, `ClearSession` and `ClearCache` are the steps of
the commands around their awaits: an answer that the server has given (`Answered`) may be
written after a log-out that overtook it. `CreateStart` and `Register` are a create,
whose second count and write are one transaction. `ReadEntry` and `RewriteEntry` stand
for everything that reads a row and writes it back with an upsert; it may have been
deleted in between. `Backup` and `Restore` move rows in and out, without a limit and also
between projects. `Tick` lets an hour pass, `Turn` lets a subscription begin or end.
`forgotten` and `beyond` are history: that a log-out of the project was the last word, and
that the project has had, or has rows of a project that had, the paid plan, or got a
deleted row back.

## 3. The runs

Each run asks one question. Bounds are in the guards of the named actions, never in a
state constraint.

| run | question | bounds |
|---|---|---|
| `commit_serial` | after kills, failing writes and failing re-verifications, can the present version be recovered unless it was rejected, and does reconciliation clear what it promises to clear before work starts? | 1 command-line slot, 2 tracked files, 3 operations, 2 kills, failing I/O, re-verification may fail |
| `commit_concurrent` | does the compare-and-swap alone keep the history, when a tool call runs next to a command and an editor next to both? | 1 command, 1 tool call, 1 file, 2 operations, 1 kill, 1 edit, re-verification may fail |
| `graph_locked` | do commands under the lock, and reconciliations without it, keep the graph, when one is killed between two rows, or a backup is restored? | 2 processes, 3 components, 5 commands and reconciliations, 1 kill, creates with any dependencies |
| `lock_serial` | what breaks the lock, and what does not; does a dead lock stop maintenance; and does somebody who keeps trying get the lock? | 2 slots of which 1 keeps trying, 2 process ids, 2 other runs, 2 kills, `Bystanders`, overlaps and stalls; heartbeat 1, stale 2, poll 1, task 2 ticks |
| `config_shared` | do kills break the configuration's lock? | 3 processes of which one keeps asking, 2 calls of the others, 2 kills, `StaleAfter` 1, `AbandonedAfter` 2 |
| `modify_pipeline` | can anything reach a commit without the checks it needs? | 4 contents (good; weak and flaky tests; unsafe; unsafe and broken), 1 task and diffs, 2 requests, `HealAttempts` 2, `RepairAttempts` 2, `Repeats` 2, `LibraryLimit` 1, `SessionLimit` 1 |
| `llm_calls` | is money accounted for, whatever provider is configured meanwhile, and do calls end? | 2 processes, 2 providers, ceiling 2, estimate 1, cost up to 2, 2 attempts, threshold 2, cooldown 1, 2 commands, 4 calls, 1 kill or failing statement |
| `staged_migrations` | can what is half done be done again, and is what is marked done on disk? | 1 command, 1 tool call, 2 files, 2 contents, 4 jobs, 1 kill |
| `mcp_session` | do calls that overlap or nest keep the budget, the dry run, the target and the console? | 2 calls, 3 components of which one is the index, 2 paths, 5 texts, budget 2, limits 1 and 3, with and without automatic approval and an interrupted change |
| `licensing` | does a plan end, does a log-out last, and does the limit hold, when commands overlap and rows are restored or written back? | 2 processes, 2 projects, 1 account, limit 1, fresh 1 hour, grace 2, 3 hours, 4 commands, 1 kill, 1 change of the subscription |
| `audit_chain` | does an untouched chain verify, and is what is gone covered? | 2 processes, retention 1 day, 4 days, 4 records, 1 kill |
| `diff_ingest` | are hunks applied as they are meant, or refused? | one section with up to 2 hunks of up to 2 lines on files of 1 to 3 lines, and up to 2 sections of every kind, with and without hunks, renames included, on every kind of path |

**Why these bounds are enough to meet the interesting cases.**

* *Commit.* Two files are the fewest for which a change can be half written. Two
  operations are the fewest for which a journal row can be judged when the row it
  belongs to has moved on; the third works on what reconciliation made of the other two,
  such as a version that was rejected. Two kills allow a kill of the command and one of
  the reconciliation that cleans up. A second content is the fewest that tells a before
  from an after. The concurrent run has one file, since it is about the row: its proofs
  hold for all files.
* *Graph.* Three components give a chain and a fan, one of them unknown when it is first
  named; five commands create two or three, link them, back up, change one and restore, or
  kill a change and reconcile it.
* *Lock.* Two kills make a lock be reclaimed twice. `StaleAfter` is 2 heartbeats as the
  fewest for which an age can be neither fresh nor stale (the code: a heartbeat every
  10 s, stale after 30 s; the shorter distance only makes reclaiming easier). Two slots
  are the fewest for an overlap, and for a holder whose lock goes to another while it
  stalls.
* *Config.* Three processes: a dead holder and two waiters who both judge its lock. With
  two kills `OneInside` and `NoLostUpdate` do not hold (the second kill hits a stealer,
  and its mutex is removed by age alone), so they are claimed up to one kill and
  `RetryGetsIn` for two.
* *Pipeline.* `Repeats` is 2 where the code has 3, so that both oscillation guards fire
  within the attempts of their loops. Two requests let the second meet the first one's
  key, promoted fix, registered approver and spent session budget; a library of one
  makes a second promotion evict the first.
* *Calls.* The ceiling leaves room for two reservations, so that the third is refused;
  two failures open the circuit, which the retry of a second call meets. The code's five
  attempts and threshold are two here.
* *Migrations.* Two files: half a snapshot. Four jobs: two changes stage two records,
  and each can then be activated or rolled back, or one twice.
* *Session.* Two calls overlap, one of which may be a `purix_change` with its nested
  call. A budget of two is used up by one pair of gated actions. The five texts name a
  component, a path, a symbol, two things at once, and nothing.
* *Licensing.* Three hours pass both the freshness and the grace. Two creates at once
  meet a limit of one. The second project shows what a log-out in the first leaves, and
  takes backups of the first. A log-out overtakes a refresh with two processes.
* *Chain.* Four records on four days: two to expire and two to stay, with a prune that
  overlaps another or a verification.
* *Diff.* Files of three lines have a first, a middle and a last one; two hunks are the
  fewest whose offsets interact, and the first may be an insertion at the top; pairs of
  sections are the fewest with one file twice, one refused and one not, or one shown and
  one not. An added line
  that looks like a header may open a new file, and its path may exist or not.

`CHECK_DEADLOCK FALSE` is set where a bounded session really stops: in
`modify_pipeline`, when `MaxRequests` are used and no request runs; in `llm_calls` and
`licensing`, when the commands are used up; in `diff_ingest`, when a diff was accepted
or refused. Everywhere else deadlock is checked, and `Over`-like steps stutter only when
every process has ended.

### What the properties say

*commit_serial.* `SyncedWhenClean`: with no journal row and no process at work, the files
are those of the current version, or those from before a *rejected* one: one that was
committed, but whose files failed to verify when reconciliation found its journal row.
`CurrentVersionRecoverable`: whatever was killed, the content of the current version is on
disk or stands in the journal, as the before or the after snapshot of a row; it is gone
only if it was rejected. (That the code does this to a committed version is a point of
section 7.) `WorkStartsReconciled`: when a command begins its own work, the uncommitted
operations left in the journal are torn ones (files neither all as before nor all as
after), which reconciliation leaves to a human.

*commit_concurrent.* `NoLostCommit`: a change that was acknowledged stays in the
history. `HistoryMatchesVersions`: the version number counts the history, and the entry
at each version is the operation journaled for that version.
`ImplementsVersionedHistory`: refinement of `VersionedHistory`. `CommitsBuildOnCurrent`:
a commit's before-image is what the replaced version recorded, so an outside edit is
never absorbed into a version unseen.

*graph_locked.* All three are claimed until a reconciliation works beside another process.
`GraphSymmetric` (until somebody is killed): between commands, x depends on y iff y knows
it, but for dependencies that were unknown, or x itself, when x was created: these are in
`depends_on` for good and never linked. `DeleteLeavesNoDependents` (likewise): a deleted
component leaves nobody with a linked dependency on it. `CommitsStay`, also after kills: no
stale copy of a row undoes a commit, be it one that compared versions or not; only a
restore, which a human agreed to, takes versions away.

*lock_serial.* `HolderIsProtected`, until the first incident: one command works at a time,
and while it does, the file is there, is its own and is fresh, so that whoever tries now is
refused. `ReleasesOwnLock`: also a holder that stalled, and whose lock went to another
command, removes no lock but its own when it ends, unless two processes were inside the
lock functions at once. `DeadLocksAreIgnored`: from when on only files of dead processes
are left, maintenance runs again and again, also if nobody runs another command.
`RetryGetsIn`: who keeps trying gets the lock. The last two hold whatever incidents there
were.

*config_shared.* `OneInside`; `NoLostUpdate`, which also says that all who asked for the
id, with the lock or without, got the one in the file; `RetryGetsIn`.

*modify_pipeline.* The tool `purix_modify` is set apart in some of these: the server
asks the human for the *instruction* (`Gate`), and commits what the TrustGate would have
asked them about without showing them the change. `DiskIsVerified`: what is committed
passed the sandbox in this very form, whoever wrote it. `SilentCommitsAreSafe`: a commit
no human saw has high confidence, no flag, no change of the contract and no floor.
`TestsWeakenOnlyWithApproval`: weaker tests are committed only if a human agreed.
`RejectionsAreOverridden`: what the TrustGate rejects is committed only with an override
on record and an approval, what the security gate blocks only by an override that was
given to `modify`. `LibraryIsVetted`: entries keep their tests, are verified and were
promoted by the registered approver. `RequestsEnd`.

*llm_calls.* `Balanced`: the database's total is what was settled, plus reservations in
flight, plus what is stuck, and each answer was settled at the price of who gave it.
`HardCeiling`: what was really paid passes the ceiling only by what calls in flight, or
lost with their process, cost over their estimate, by overrides, and by one call per
failing statement. `CallsEnd`.

*staged_migrations.* A process is *alone* when nobody else was at work since it began.
`FinishedMeansWritten`: what a process that was alone marks active or rolled back is on
disk as a whole. `HalfDoneIsRepeatable`: wherever an activation or a roll-back stops,
the same command is accepted again. `RolledBackIsFinal`: only a process that was not
alone makes a rolled-back record active.

*mcp_session.* `GatedWorkIsCounted`: gated work never outnumbers the attempts that were
counted, nor these the budget. `UnapprovedOnlyIngests`: without automatic approval, a
manifest row changes only by an ingest that the TrustGate let pass, by the row of a partial
index, or by `purix_reconcile`, which asks nobody, and then for the component of the
operation it found and for no other. `DryRunsWriteNothing`, `ChangesHitTheirMention` and
`LoneCallsLogToStderr` say what their names do; the last is about calls that overlap with
no other; of two that overlap, the second to end may put
back the wrong console (section 7).

*licensing.* `LapsesWithinGrace`: no project is served the paid plan for longer than the
grace after the last account lost it, whoever logs in and whatever the server answers.
`LogoutForgets`: after a log-out in a project the plan comes back only if the server grants
it anew, or by an answer that was given before and that the log-out overtook. The history
variable is reset by the *grant* (`Answer`), so that the many steps between it and the
cache are what the property is about. `ComponentsWithinPlan`: a project has no more
components than the free plan allows unless it was granted the paid one, has restored rows
of a project that was, or got a deleted row written back.

*audit_chain.* `AlarmsOnlyOnRaces`: verification calls an untouched chain broken only
after two appends, or two prunes, overlapped. `RemovalsAreCheckpointed`: what is gone is
covered by a checkpoint.

*diff_ingest.* `AppliedAsMeant`: a `Regular` diff is taken only where every hunk lies on
the lines it was made from; the files are then what its hunks say and the others are as
before, those of sections without hunks among them, which are passed over; and a diff that
shows something and fits is refused only if its text reads as another one.

Every property of a run comes with a mutant in `PROJECT.json`: a definition of the code
and a plausible wrong version of it under which TLC finds that property violated.

## 4. Fairness

* `Maintenance`: time passes again and again (`MTick`). A started process goes on, and
  a holder's work ends: `ReleaseCheck` and the steps of a holder disable each other (a
  heartbeat is a round trip through `beating`), so both are strongly fair; the timer of
  the server is weakly fair. Stalls are part of this: a timer that fires again and again
  may be as late as it likes each time. Nobody has to run a
  command: `RetryGetsIn` is conditional on somebody who runs it again and again, which
  is all a lock without a queue can promise.
* `ConfigStore`: the same for `Tick`; `Step` is weakly fair, since a waiter polls, and
  `Call` only for the processes in `Retrying`.
* `ModifyPipeline`: weak fairness of `Step`: a model answers or its call throws (there
  are timeouts), and an input that ends counts as no.
* `LlmCalls`: weak fairness of each process's `CallStep`: providers answer or time out and
  timers fire.

The other modules are about safety only. Kills and what others do are never fair.

## 5. The proofs

TLC checks the instances above; the proofs hold for all values of the constants under
the named assumptions of the modules (finite or infinite sets of files, processes and
contents; any bounds).

**`CommitProtocolProofs`.** The properties are not inductive. The strengthening `IInv`
(defined in `CommitProtocol`) adds to them:

* `OperationsFollowRow`: every operation's version is at least 2 and at most one above
  the row's;
* `EntriesAreRowOrOlder`: the copy of the entry a process works with is the row, or of a
  lower version; so a compare-and-swap that succeeds compared against the whole row,
  history included;
* `LoopsStayInside`: a process that works on an operation holds one that exists, and its
  loops are over that operation's paths;
* `ReadBeforeCas`: before a command's swap its operation's version is that of the entry
  it read plus one, before a reconciliation's at most that, and between swap and
  completion the operation is in the history where its version says.

Then: `Inductive` (Spec => []IInv), `TypeCorrect`, `AcknowledgedIsKept`
(`NoLostCommit`), `HistoryIsConsistent` (`HistoryMatchesVersions`),
`OnlyCommitsChangeTheRow` (`RowChangesAreCommits`), and `Implements`: every step of the
protocol is a step of `VersionedHistory` or a stutter. Together: whatever commits and
reconciliations run next to each other, with and without locks, killed anywhere, the
version history stays linear; what *they* damage by racing is the files, not the history.
This is about the writers that compare versions. The upserts that compare nothing
(section 1) can take a version away again; `ManifestGraph` has those of commands and of
reconciliation, and what it proves needs the lock.

`BuiltOnCurrent` (`CommitsBuildOnCurrent`) needs one more part, `BuildsOnRead`: from the
drift check to its swap, a command's operation starts from what its entry records. It
holds whatever else runs or edits.

The other promises are about the files, and are what the repository lock is there for.
They are proved of behaviours in which `SerialUse` always holds: one process runs at a
time, a tool call changes the component only through a command, changes rewrite the
tracked files, and nobody edits them from outside. Each part is needed: two processes put
their backups over each other's files, an added file is in no snapshot of the version
before, and an outside edit is in no journal row. Kills, failing statements and failing
re-verifications may come anywhere. With the constants of `commit_serial` every reachable
state satisfies `SerialUse`. `SerialInv` says what a process that starts can find:

* `OneIsPending`: at most one journal row is not in the history, and it was made from the
  present version, so its before-image is that version;
* `CleanIsSynced`: if there is none, the files are those of the present version, or that
  version was rejected (`WasRejected`), and the files are those it had replaced or are
  being put back to them;
* `Reconciles(p)`: how far reconciliation has compared, that the rows behind it are settled
  or torn, that what it is about to commit or drop is on disk, and that what it puts back
  over a committed version is recorded as rejected;
* `Works(p)`: how far a command has read or written, that its entry is the row, and that
  its swap never fails.

Then `SerialInductive`, `HalfWrittenIsJournaled` (`SyncedWhenClean`),
`CurrentIsRecoverable` (`CurrentVersionRecoverable`) and `ReconciliationResolves`
(`WorkStartsReconciled`), for any number of files, operations and kills.

**`RequestProofs`, the pipeline.** `IInv` is a conjunction of parts about the request at each
label:

* `RequestKnown`: a running request has a path and a task, and only `modify` has a
  security override;
* `CandidateKnown`: what reaches a promotion, the TrustGate or the commit is `Vetted`:
  it passed the sandbox, and if the security gate blocks it, the override is spent;
* `PromotionKeepsTests`: what is about to be promoted weakens no test;
* `FiledByTask`: fixes are filed under the signature of their task, and one that is
  replayed is still there when the TrustGate looks at it;
* `Budgeted`: model calls so far are bounded by the attempts of the loops passed;
* `WaitsWithVerdict`: a change that waits for its human has a verdict, and one the gate
  rejected has its override on record;
* `CommitsAreCleared`: a change that is about to be committed was approved by its human,
  or the gate's decision lets it pass without, or it came by `purix_modify`.

Field lemmas say what each action leaves of `rq`; one lemma per part shows that it is
preserved, action by action. `PipelineInductive` then gives `PipelineTypeCorrect`,
`OnlyVerifiedIsCommitted`, `PromotionsAreVetted`, `RequestsAreBounded`, `ReplaysAreFiled`,
`SilentCommits`, `WeakeningIsApproved` and `RejectionsNeedOverrides`: the gate's promises
for any number of requests, tasks and contents, any sandbox verdict, any attempt limits,
any size of the library. `CommitProtocol`'s parameters and this module's are not tied
together: the pipeline's `Commit` is one step.

**`RequestProofs`, the diffs.** The parser and the application of hunks are folds, which
the community modules define by recursion over sets, and the provers have no induction
over data. `Counting` replaces it: a set that holds 0, and with a number the next one, holds
all numbers up to *n*, because the intervals that end outside of it would have a smallest
one. From it, `FoldLeft` and `FoldRight` are *runs*: a sequence of states, each one step
after the one before. Everything else is a statement about the states of a run:

* *Hunks* (`HunksApplyAsMeant`). While lines are consumed, the cursor and what has been
  written are the two sides of the hunk so far; after hunk *i*, what has been written,
  with the rest of the file behind it, is the file patched by the hunks up to *i*, the
  last of them first. A hunk that does not fit stops the run and nothing starts it again.
* *Parser* (`CleanDiffsAreReadBack`). After the text of the *i*-th section the files found
  and the one that is open are the sections up to *i*; likewise for the hunks in a section
  and the lines in a hunk. This holds as long as no line looks like a header (`Clean`).
* *Look-alikes* (`LookalikesAreNoticed`). A removed line `-- x` leaves a section without a
  new side, an added line `++ x` a section of the wrong path; later lines keep that so until
  the next header files it, and a section in `Condemned` is one the checks refuse.

`IngestInv` then says what each label knows: the sections are the parsed ones, every
section behind the cursor was applied and could be, and what was accepted passed the checks.
Sections without hunks add nothing to the text and so to none of the three.
`DiffsAreAppliedAsMeant` (`AppliedAsMeant`) puts the three together, for any lines, files,
paths and diffs of any length.

**`RequestProofs`, the calls.** Both promises about money are equations over sums of what
each process has reserved, so the module first proves what it needs of `MapThenSumSet`. The
library computes such a sum by a solution, chosen with `CHOOSE`, of a recursion over the
subsets; `SmallestSet`, that a family of subsets of a finite set has a smallest member, stands in
for induction and gives that solutions exist and agree. From there: the sum of a function
that changes at one argument changes by the difference (`OwedIsTotal` ties this to the
model's own sum). `CallsInv` has three parts:

* `CallsTyped`: the types, and that a call past its choice of a provider knows one;
* `Balanced` itself, which is inductive given the types: each statement moves one amount
  from one side to another, so one lemma per action says how the two sides change;
* `MoneyOK`, for the ceiling. `Gap` is what would be paid and not shown by the row, were
  every call in flight settled now. Overrides and failing statements excuse `x` calls the
  row does not show and `y` calls that took the row over the ceiling, with `x + y` at most
  their number; the gap is at most `Margin` (the largest cost less the estimate) per kill
  plus the largest cost per `x`, and the row passes the ceiling by at most `Margin` for each
  process that does not hold a covered reservation plus the largest cost per `y`. The split
  into `x` and `y` is what an induction needs and the property does not say: one
  failure is charged on one side only.

Then `CallsInductive`, `CallsTypeCorrect`, `CallsBalance` (`Balanced`) and `CeilingIsHard`
(`HardCeiling`), for any finite number of processes, any prices, limits and kills.

**`AuditChainProofs`.** `RemovalsAreCheckpointed` is not inductive: a prune that was
delayed deletes what is in the table *now*, up to the last id it selected. `IInv` adds:

* `PrunesAreDue`: the last record a prune has selected has expired, and still has when
  the prune goes on;
* `CheckpointPrecedesDelete`: before a delete, a checkpoint with the id it will delete up
  to is in the table;
* `StampsGrow`, `StampsArePast`: records are dated in the order of their ids and not in
  the future, so that everything before an expired record has expired.

Then `ChainTyped`, `NothingGoesUncovered` (`RemovalsAreCheckpointed`) and `OnlyExpiredGo`
(`PrunesOnlyExpired`): for any number of processes that append, prune and are killed, no
prune removes a record within the retention, nor one without a checkpoint.

What races damage is the *verdict* of a verification. `NoFalseAlarm` (`AlarmsOnlyOnRaces`)
rests on a second invariant, `AlarmInv`: the hash of a record is its id
(`HashesAreIds`) and the table has no holes (`Unbroken`), since prunes take from the
front; unless a fork happened, each record names the one before it (`Linked`); what a
verification has read has the same shape, and what is missing before it is covered by a
checkpoint (`SeenSound`); and unless two prunes crossed, checkpoints grow
(`CheckpointsGrow`), so that the last one, which verification reads *after* the rows,
covers whatever went before they were read.

**`ManifestGraphProofs`.** What the lists of dependencies promise between commands says
nothing of a command that is in the middle of them, so `GraphInv` says how far each has
come, as long as no reconciliation has worked beside another process (`~ beside`; the
lock keeps commands apart, and nothing keeps reconciliation apart):

* `OneAtWork`: at most one process works, and a command that does holds the lock;
* `CopiesFresh`: what it has read and is about to write back is what the table holds;
* `GraphKept`, until a process is killed: the table is `Whole` between commands and in the
  backup; during a create all is symmetric but for the dependencies it still has to tell;
  during a delete, but for those it still has to leave; during a forced delete nobody
  refers to the component but those still to be stripped. Symmetric is meant of the
  *linked* dependencies: what a create passed over stays `loose`, whoever is created or
  deleted later.

There are no hypotheses: `GraphInductive`, `CommittedVersionsStay` (`CommitsStay`) and
`DeletedComponentsStayDeleted` hold after any kills, `GraphIsSymmetric` (`GraphSymmetric`)
and `DeletesLeaveNoDependents` (`DeleteLeavesNoDependents`) until the first one; for any
components, dependencies, commands and reconciliations.

**`ServerProofs`, the session.** The properties relate what a call does to what it was
granted several awaits ago, so `SessionInv` remembers it at each place:

* `CallsKnown`, one statement per call: its tool, place and flags fit together, and a dry
  call is nowhere near a write (`Fits`); behind the gate means approved (`Granted`); what
  it resolved or resolves it does against the listing it was given (`Mentioned`);
* `AttemptsSuffice`: work done, plus the calls whose attempt was counted and whose work is
  to come, is at most `used`, and that at most the budget. The property alone is not
  inductive: two calls that overlap could both spend the last attempt;
* `ConsolesNested`, `LoneKeepStderr`: how many consoles a call has put aside, and that one
  that is alone finds its own again when its nested call ends.

Then `SessionInductive`, `SessionTyped`, `WorkIsPaidFor` (`GatedWorkIsCounted`),
`MentionsAreHit` (`ChangesHitTheirMention`), `ProtocolStaysClean`
(`LoneCallsLogToStderr`), `NothingUnapproved` (`UnapprovedOnlyIngests`) and `DryMeansDry`
(`DryRunsWriteNothing`), for any components, paths, texts and limits and any number of
calls that overlap in any way. `NothingUnapproved` includes the calls of reconciliation:
what they change is one row, that of the operation they found (`RepairsOnlyItsOwn`).

**`ServerProofs`, the lock.** `LInv` says what holds always, what until two processes
were inside the lock functions at once, and what until a holder was late as well:

* always: process ids differ (`PidsDiffer`);
* without an overlap: one process is inside the lock functions (`OneIsInside`), and who is
  about to remove the file at its end found it its own or nobody's (`OwnIsReleased`), which
  nobody can change meanwhile;
* without any incident: a holder's timer runs and is not late, and the file is its own and
  no older than the timer (`HoldersBeat`); there is one holder (`OneHolds`); and nobody is
  about to remove or replace the file of a holder (`NobodyIsRobbed`).

Then `LockInductive`, `HoldersAreProtected` (`HolderIsProtected`), `ReleasesAreOwn`
(`ReleasesOwnLock`), and `SchedulerLeavesTheLock`: the composition with the scheduler only
makes steps of the lock, so all of this holds of `Maintenance` too. None of them has a
hypothesis. The lock gives no more than this: after an incident two commands may work at
once, and the traces that show it are short.

**`ConfigStoreProofs`.** `ConfigInv` types the state in any case and, up to one kill, says
that a holder's lock is its own and fresh (`HoldersHold`), that there is one (`OneHolds`),
that only a kill leaves the lock behind and only then anybody starts to steal it
(`KilledLeave`, `StealersFollow`), that there is one stealer and its mutex is not left
behind (`OneSteals`), that what is about to be written back is what is in the file
(`ReadIsFresh`) and that nothing was lost (`NothingLost`). The bound on the kills is needed
just there: a second kill can leave the stealing mutex behind, which is taken away by age
alone. Under `~ Stalls`: `ConfigInductive`, `LockExcludes` (`OneInside`), `UpdatesStay`
(`NoLostUpdate`).

**`StagedMigrationProofs`.** The properties are about processes that were alone, so `MigInv`
says that such a process still is (`AloneIsAlone`), that it works on a record there is
(`JobsFit`), and that the files its loop has left behind are on disk (`WrittenSoFar`).
Then `MigrationsInductive`, `HalvesAreRepeatable` (`HalfDoneIsRepeatable`),
`MarkedIsWritten` (`FinishedMeansWritten`) and `RollBacksAreFinal` (`RolledBackIsFinal`),
for any finite set of files and any number of jobs and kills.

**`LicensingProofs`.** `EntitlementsInv` dates what the cache holds: a subscription that
runs has been paid up to now (`PaidUpToNow`); what the cache calls paid was paid when it
was written, after a grant that no log-out has undone (`CacheIsHonest`); an answer on its
way says what is so in this hour, and its grant is not undone by a log-out that finds it
on its way (`Granted`); and no backup holds more than the plan of its project
(`BackupsWithinPlan`). Then `EntitlementsInductive`,
`PlansLapse` (`LapsesWithinGrace`), `LogoutsForget` (`LogoutForgets`) and `LimitsHold`
(`ComponentsWithinPlan`): for any limit, freshness and grace.

**Assumptions.** The named `ASSUME`s of the modules: sets of processes, files and ids are
disjoint, and the values that stand for *no file*, *torn* or *no directory* are no lock
records; bounds are in `Nat`; the heartbeat is shorter than the stale age, and the
configuration's stale age shorter than the one of the stealing mutex; for the pipeline,
the component's first content is without flaws, test strengths are numbers, and
`Repeats` is positive; for the calls, no answer costs more than `MaxCost`, which is at
least the estimate, and the processes are finitely many; for the migrations, the files are
finitely many. Two hypotheses of single theorems are not among them. `SerialUse` is a
condition on behaviours of `CommitProtocol`: it holds when commands are run one after the
other; the lock alone does not give its first part, since commands reconcile before they
take it, and tool calls do not take it at all. `~ Stalls` is a switch of `ConfigStore`:
that no tick passes while a process is between two of its file calls inside the
configuration's lock. Nothing in the code rules that out, but a holder works for
milliseconds, and the stale age is 5 s.

**Only model-checked.** Liveness (`RequestsEnd`, `CallsEnd`, `DeadLocksAreIgnored` and the
`RetryGetsIn` of both locks), which is out of the prover's reach. Every other
property of a run is a theorem. Induction over data is out of reach too; where it was
needed (sums over sets, folds over sequences) the smallest member of a family of subsets
takes its place, which works because the model's folds are over finite sets and the facts
that are proved of them are facts about one position and the next.

## 6. What the models leave out

* In `CommitProtocol`, `ManifestGraph` and `StagedMigration` the lock is taken in one
  step and freed when its holder is killed: how it gets there, and what happens when two
  processes meet inside its functions, is `RepoLock`'s subject.
* In `CommitProtocol` the re-verification by reconciliation is one step with the reading
  of the manifest. Elsewhere a commit is one step. Reconciliation's branches for an entry
  that is gone and for an unsafe path are left out, since they only leave the journal row;
  its branch for an interrupted create is never reached, since nothing journals a create;
  its cascade is in `ManifestGraph`.
* `ManifestGraph` has the commands and reconciliation. The tool calls of the server, which
  run the same code without the lock, the index, and the write-back of rows in an old
  format are not in it: next to these its properties do not hold (section 7).
* In `McpSession` the journal holds only what a process before the server left: the
  operations of its own calls are `CommitProtocol`'s subject.
* A transaction of SQLite is one step, and so is one statement outside of a transaction;
  a busy database is a failing statement.
* Durability: a completed write survives a kill of the process. Loss of power is not
  modelled.
* Contents, prompts, models, scans and tests are values and arbitrary functions. Whether
  the verdict of the sandbox is *right* is not a question here.
* Removing `config.lock` with its holder file is one step, and so is the writing of the
  backup file.
* How a text is cut into mentions, and how mentions are folded before they are compared,
  is not modelled; that a path of a diff is inside the project is a property of the path.
* **Not modelled:** the schema upgrades on read, the adapters of the providers' HTTP
  interfaces, language packs, prompt packing, the events and reports, the gateway, the
  matchmaker, the terminal, the platform helpers, the secrets store and the machine id.
  The first is a fixed chain of pure functions; the last two are single files that are
  read and written without a lock, and section 7 says what follows from that; the others
  are I/O, text, or write nothing. `PROJECT.json` gives the reason for each.

## 7. What disagrees with the comments

No run is expected to fail. Some properties that one might state do not hold, and are
defined in the modules for whoever wants the trace:

* `InterruptedCommitResolved` (`CommitProtocol`): a process killed between the
  compare-and-swap and `completeModification` leaves a journal row whose version exists;
  reconciliation swaps at `new_version - 1`, never matches again and keeps the row for
  ever.
* `SyncedWhenClean` with two tool calls: both write the same files before either commits,
  and the one that loses the swap puts *its* backups back over the winner's files, which
  `commit_and_cascade.ts:117` says it avoids.
* `ReservationsAreSettled` (`LlmCalls`): `callLlm` reserves before the circuit check and
  before `getProvider`, and both throw outside the block that refunds; so does a
  `provider-config.json` that is missing or being written.
* `HolderIsProtected` (`RepoLock`) once an incident has happened: a lock file is made
  without exclusive create and is empty for a moment at every heartbeat, so that two
  commands that meet there can both get the lock; and a holder that is late by more than
  the stale age loses it while it works.
* `SyncedWhenClean` and `CurrentVersionRecoverable` without the exception for rejected
  versions: a process is killed between the compare-and-swap and `completeModification`;
  the next command finds the journal row, and the files fail to verify this time.
  Reconciliation writes the before snapshot back and deletes the row
  (`core/state/reconcile.ts:166-179`), but leaves the manifest at the new version, whose
  content is then nowhere.
* `GraphSymmetric` with all of `depends_on`: a create writes the plan's list as it is, and
  the linking skips an id that is unknown or the component's own
  (`core/manifest/store.ts:342-351`). If the component of that id is created later, it does not
  know its dependent, and deleting it is not refused.
* the three properties of `ManifestGraph` once a reconciliation has worked beside a command:
  its cascade (`core/verify/impact.ts:58`) writes back rows it read before the command's
  commit, without the lock.

Seen while modelling, with no property of their own:

*Locks and files.*
* the lock file is made without exclusive create and read while torn; a config stealer's
  mutex is removed by age alone after a second kill;
* the machine id is read and written without a lock; the secrets store is read, changed
  and written without one, and two first writes may each make a master key;
* in a linked worktree of git there is no `.git/config` to read the remote from, so that
  the first caller decides whether the shared id is a hash or random;
* reading an old row writes the upgraded one back without a comparison of versions
  (`store.ts:260`), although `cli.ts:304` says that read-only commands never touch the
  manifest; the index writes its row without one either;
* reconciling an interrupted ingest that added files does not add their paths to the row, whose
  hash then holds contents its files do not: the component counts as drifted until somebody
  accepts that; and if only an added file had landed, "no write had landed" is reported;
* the backup step of a commit reads every file of a change, the added ones too
  (`core/entrypoints/modify.ts:60`), so that a diff that adds a file which is not there fails
  before it writes, and its journal row stays for reconciliation;
* `purix_reconcile` rewrites files and rows without asking for approval, unlike every
  other tool that does;
* the branch of reconciliation for an interrupted create (`core/state/reconcile.ts:68`) is
  never reached, since a create journals nothing;
* a create writes its files before the limit is checked;
* a restore puts back journal rows of the time of the backup, which reconciliation then
  judges again (this is in `ManifestGraph`), and version numbers come back with other contents, so that the
  compare-and-swap of a tool call that overlaps a restore can succeed against them.

*Pipeline.*
* an idempotency key still refuses a request whose result was put back since
  (`core/state/idempotency.ts:23`);
* the signature of a diff depends on the agent only, so one diff's fix is offered for
  another;
* `promoteOperation` files only the edits of the last attempt, so a fix of two attempts
  does not replay, although the prompt promises it will;
* promotion evicts even when it replaces an existing entry;
* a dry run can promote a fix, register an approver, record events and spend the security
  override; ingest meets no override floor, although a comment at `server.ts:1327` says
  so;
* the rule that a repair does not change tests does not hold for the test files of Python
  (`compile.ts:127`, `242`);
* an oscillation guard can never save the last attempt of its loop at the code's values;
* an override of the security gate is used up by the first flagged candidate, or, unspent,
  by the re-verification of a dependent; one with a blank reason throws inside the gate;
* a confirmation in the MCP server reads the stream its transport uses.

*Diffs.*
* a hunk without context is inserted one line early, or, past the end, after padding with
  empty lines; an added file loses its final newline; a blank context line without its
  space, and the note that there is no newline at the end, are ignored;
* lines that look like headers cut a section short without an error when both kinds
  occur; an added file with a line `++ x` is written to `x`, and a changed file with one
  passes for a change of `x` if that is the component's and fits; the second of two sections
  of one path is dropped;
* an "added" section replaces a file that exists, without a look at what it holds;
* sections without hunks (empty files, renames, changes of mode) are dropped without a word
  and the rest of the diff is taken; a rename with a change onto a file of the component
  that exists is taken for a change of that file;
* the drift check and ingest itself read the files separately.

*Money, licences, chains, migrations.*
* recording a success that fails refunds a settled reservation a second time;
* a choice of provider that reads a torn file drops the custom block; the time of a
  custom configuration is read after its content, contrary to the comment beside it;
* only `login` and `tier-status` refresh entitlements; the cache is served after a 401 as
  after no answer, although a comment in `api_client.ts` says never; a log-out clears the
  cache of the current project only, and a refresh that it overtakes fills it again
  (`core/licensing/tier.ts:200-251`);
* the limit of components is asked for by creates only: a restore, also of another
  project's backup, and the write-back of a row that somebody has deleted insert rows
  beyond it;
* two appenders fork the audit chain; `verifyLibraryChain` would fail after any eviction
  or replacement, and has no caller outside tests, nor have `exportAuditChainJson` and
  `recordActiveMigration`;
* `stageMigration` is described as leaving the real files alone; both callers stage after the
  live commit (`lifecycle.ts:803`, `server.ts:976`);
* the consoles of calls that overlap in one server are put back in the order the calls end.

## 8. Plan

1. **Done:** the core (`CommitProtocol`, `VersionedHistory`), what it stands on
   (`RepoLock`, `ConfigStore`, `ManifestGraph`, `Maintenance`), what leads to it
   (`ModifyPipeline`, `UnifiedDiff`, `LlmCalls`, `McpSession`, `TargetResolution`,
   `Licensing`), what comes after it (`StagedMigration`, `AuditChain`), and proofs of
   every property of a run but liveness.
2. **Prove next:** the parts of `SerialUse` that a lock gives, from `CommitProtocol`'s own
   lock; that `Maintenance` and the lock of `CommitProtocol` fit together; what holds of
   `ConfigStore` between its first and its second kill.
3. **Model next:** the tool calls and the write-back of upgraded rows next to the commands
   of `ManifestGraph`, with the history that says which lost update each of them causes; the
   secrets store.
