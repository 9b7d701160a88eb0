--------------------------- MODULE ModifyPipeline ---------------------------
(***************************************************************************)
(* From a request to the commit of one component: purix modify, purix      *)
(* ingest and the tools purix_modify and purix_ingest, with self-healing,  *)
(* escalation, the operation library, the TrustGate and the approvals of a *)
(* human.  One request runs at a time; races are CommitProtocol's.         *)
(*                                                                         *)
(* All the files of the component are one content, with its flaws and the  *)
(* strength of its tests.  A model's answer, the answer of the human, what *)
(* a scan finds and the outcome of a flaky test are arbitrary.  A task is  *)
(* an instruction and the operation it is classified as, or a diff.  The   *)
(* classifier's verdict is chosen where it is used; the tools the sandbox  *)
(* needs are installed; the reason of an override is not blank.            *)
(***************************************************************************)
EXTENDS Naturals, FiniteSets

CONSTANTS
    Tasks,           \* what requests ask for
    Diff,            \* the task signature of every diff
    Contents,        \* what the files of the component can hold
    Start,           \* what they hold at first
    Flaws,           \* content -> what is wrong with it
    Tests,           \* content -> strength of its tests
    None,
    HealAttempts,    \* MAX_ATTEMPTS of heal.ts
    RepairAttempts,  \* ESCALATION_MAX_ATTEMPTS
    Repeats,         \* OSCILLATION_THRESHOLD
    LibraryLimit,    \* operationLibrary.maxEntries
    SessionLimit,    \* gated actions in a session of the MCP server
    MaxRequests      \* bound: requests in a behaviour

Kinds == {"secret", "unsafe", "ill_typed", "failing", "flaky"}

ASSUME ContentAssumption ==
    /\ Flaws \in [Contents -> SUBSET Kinds]
    /\ Start \in Contents /\ Flaws[Start] = {} /\ None \notin Contents
    /\ Tests \in [Contents -> Nat] /\ Diff \notin Tasks
ASSUME LimitAssumption ==
    /\ HealAttempts \in Nat /\ RepairAttempts \in Nat /\ Repeats \in Nat \ {0}
    /\ LibraryLimit \in Nat \ {0} /\ SessionLimit \in Nat /\ MaxRequests \in Nat

VARIABLES
    disk,       \* what the component's files hold
    version,    \* its current_version
    keys,       \* idempotency_keys: the version a task on a content led to, or 0
    library,    \* operation_library: by signature, what a fix makes of what
    approver,   \* who is in authorized_operators.json: nobody, this user, another
    guarded,    \* do the component's paths match a Deterministic Override Floor?
    locked,     \* are its test files of the kind the lock of repairs knows?
    gated,      \* gated actions the session of the MCP server has used
    requests,   \* requests so far
    rq          \* the local state of the request

store == <<disk, version, keys, library, approver>>
given == <<guarded, locked>>
vars == <<store, given, gated, requests, rq>>

Paths == {"modify", "ingest", "tool_modify", "tool_ingest"}
Verdicts == [confidence : {"low", "middle", "high"}, contract : BOOLEAN,
             injected : BOOLEAN, covered : BOOLEAN]
Overrides == {"none", "armed", "spent"}

\* A fix that is kept: for a task on files that held before, the last edits of the
\* model, which made after out of base.  used: the request that used it last.
Entries == [task : Tasks, before : Contents, base : Contents, after : Contents, used : Nat]

\* override: what --override is worth to the security gate.  author: where the
\* candidate comes from.  base: what the last edits were made on.  tries, seen: of
\* the loop it is in.  asked: model calls.  audited: an override was recorded.
Idle ==
    [pc |-> "idle", path |-> None, task |-> None, dry |-> FALSE, override |-> "none",
     cand |-> None, base |-> None, author |-> None, tries |-> 0,
     seen |-> [c \in Contents |-> 0], asked |-> 0, verdict |-> None,
     approved |-> None, audited |-> FALSE]

Init ==
    /\ disk = Start /\ version = 1
    /\ keys = [k \in Tasks \X Contents |-> 0]
    /\ library = [s \in Tasks \union {Diff} |-> None]
    /\ approver \in {"nobody", "user", "other"} /\ guarded \in BOOLEAN
    /\ locked \in BOOLEAN /\ gated = 0 /\ requests = 0 /\ rq = Idle

At(label) == rq.pc = label
Goto(label) == rq' = [rq EXCEPT !.pc = label]
Stop == rq' = Idle

-----------------------------------------------------------------------------
(* A request arrives: what happens before a model sees anything.           *)

Arrives(path, task, dry, override, label) ==
    rq' = [Idle EXCEPT !.path = path, !.task = task, !.dry = dry,
                       !.override = override, !.pc = label]

BeginModify ==
    \E task \in Tasks, dry \in BOOLEAN, override \in {"none", "armed"} :
        Arrives("modify", task, dry, override, "key")

BeginTool ==
    \E task \in Tasks, dry \in BOOLEAN : Arrives("tool_modify", task, dry, "none", "gate")

\* A diff that applies, to tracked files, and deletes none.
BeginDiff == \E task \in Tasks : Arrives("ingest", task, FALSE, "none", "scan")
BeginDiffTool == \E task \in Tasks : Arrives("tool_ingest", task, FALSE, "none", "scan")

Begin ==
    /\ At("idle") /\ requests < MaxRequests
    /\ requests' = requests + 1
    /\ BeginModify \/ BeginTool \/ BeginDiff \/ BeginDiffTool
    /\ UNCHANGED <<store, given, gated>>

PriorCommit == keys[rq.task, disk]

\* The same instruction on the same content is not run a second time.
CheckKey ==
    /\ At("key")
    /\ IF PriorCommit # 0 THEN Stop ELSE Goto("scan")
    /\ UNCHANGED <<store, given, gated, requests>>

TryConsume ==
    /\ gated < SessionLimit
    /\ gated' = gated + 1

\* A call of purix_modify is approved, or not, before there is a change to see; a
\* dry run only counts.
Gate ==
    /\ At("gate")
    /\ \/ TryConsume /\ Goto("scan")
       \/ TryConsume /\ ~ rq.dry /\ Stop
       \/ gated >= SessionLimit /\ Stop /\ UNCHANGED gated
    /\ UNCHANGED <<store, given, requests>>

IsDiff == rq.path \in {"ingest", "tool_ingest"}

\* modify asks the human about what the scans of the instruction and of the files
\* find.
Scan ==
    /\ At("scan") /\ rq.path = "modify"
    /\ Goto("intent") \/ Stop
    /\ UNCHANGED <<store, given, gated, requests>>

\* The tool refuses, and has no model interpret the instruction.
ScanTool ==
    /\ At("scan") /\ rq.path = "tool_modify"
    /\ Goto("classify") \/ Stop
    /\ UNCHANGED <<store, given, gated, requests>>

\* The same for what a diff says; the files it applies to are not scanned.
ScanDiff ==
    /\ At("scan") /\ IsDiff
    /\ Goto("classify") \/ Stop
    /\ UNCHANGED <<store, given, gated, requests>>

Interpreted == rq' = [rq EXCEPT !.pc = "classify", !.asked = @ + 1]

\* A model interprets the instruction and the human agrees, or not; an answer that
\* is no JSON of the right shape ends the request.
RefineIntent ==
    /\ At("intent")
    /\ Interpreted \/ Stop
    /\ UNCHANGED <<store, given, gated, requests>>

Candidate(c) ==
    rq' = [rq EXCEPT !.pc = "verify", !.asked = @ + 1, !.cand = c, !.author = "request"]

\* compilePatch makes the candidate out of the edits; edits that do not apply, an
\* operation without a transform and an answer without edits escalate.
NotCompiled == rq' = [rq EXCEPT !.pc = "escalate", !.asked = @ + 1]

ClassifyModification == (\E c \in Contents : Candidate(c)) \/ NotCompiled

Classify ==
    /\ At("classify") /\ ~ IsDiff
    /\ ClassifyModification \/ Stop
    /\ UNCHANGED <<store, given, gated, requests>>

\* A diff is the candidate itself, merged into the files as they are.
ClassifyDiff ==
    /\ At("classify") /\ IsDiff
    /\ (\E c \in Contents : Candidate(c)) \/ Stop
    /\ UNCHANGED <<store, given, gated, requests>>

-----------------------------------------------------------------------------
(* The sandbox: a scan for secrets, the security gate, the compiler, the   *)
(* tests.                                                                  *)

HasSecrets(c) == "secret" \in Flaws[c]
GateBlocks(c) == "unsafe" \in Flaws[c]
Compiles(c) == "ill_typed" \notin Flaws[c]

\* A test that fails is run once more, and passes if the failure does not show again.
TestRuns(c) ==
    CASE "failing" \in Flaws[c] -> {FALSE}
      [] "flaky" \in Flaws[c] /\ "failing" \notin Flaws[c] -> BOOLEAN
      [] OTHER -> {TRUE}

UngatedVerdicts(c) ==   \* mutant: the security gate is not asked
    IF HasSecrets(c) \/ ~ Compiles(c) THEN {FALSE} ELSE TestRuns(c)

SandboxVerdicts(c) ==
    IF \/ HasSecrets(c)
       \/ GateBlocks(c) /\ rq.override # "armed"
       \/ ~ Compiles(c)
    THEN {FALSE}
    ELSE TestRuns(c)

Passes(c) == TRUE \in SandboxVerdicts(c)
Fails(c) == FALSE \in SandboxVerdicts(c)

\* The first content the gate blocks uses the override up, which goes on record,
\* whatever the compiler and the tests say of that content.
OverrideAfter(c) ==
    IF ~ HasSecrets(c) /\ GateBlocks(c) /\ rq.override = "armed" THEN "spent" ELSE rq.override

-----------------------------------------------------------------------------
(* resolveVerification: sandbox, self-healing, escalation.                 *)

Weakens(c) == Tests[c] < Tests[disk]

\* What the edits of a repair can make of d: the patch compiler refuses edits of
\* test files, which it knows by the names that TypeScript's have.
Reachable(d) == {c \in Contents : locked => Tests[c] = Tests[d]}

\* On to the next stage, with the loop's counters cleared.
Accept(c, author, label) ==
    rq' = [rq EXCEPT !.pc = label, !.cand = c, !.author = author,
                     !.tries = 0, !.seen = Idle.seen]

Verify ==
    /\ At("verify")
    /\ \E label \in (IF Passes(rq.cand) THEN {"trust"} ELSE {})
                       \union (IF Fails(rq.cand) THEN {"heal"} ELSE {}) :
         rq' = [rq EXCEPT !.pc = label, !.override = OverrideAfter(rq.cand)]
    /\ UNCHANGED <<store, given, gated, requests>>

\* The model's call throws, its answer is of no shape, or its edits do not apply.
AttemptFails == rq' = [rq EXCEPT !.asked = @ + 1, !.tries = @ + 1]

\* Its edits make c, which does not pass.
StillFailing(c) ==
    /\ Fails(c)
    /\ rq' = [rq EXCEPT !.asked = @ + 1, !.tries = @ + 1, !.seen[c] = @ + 1,
                        !.cand = c, !.override = OverrideAfter(c)]

Oscillates(c) == rq.seen[c] + 1 >= Repeats

\* Its edits make c, which passes.
Fixed(c, author, label) ==
    /\ Passes(c)
    /\ rq' = [rq EXCEPT !.pc = label, !.cand = c, !.author = author, !.base = rq.cand,
                        !.asked = @ + 1, !.tries = 0, !.seen = Idle.seen,
                        !.override = OverrideAfter(c)]

\* runSelfHealingLoop
Heal ==
    /\ At("heal") /\ rq.tries < HealAttempts
    /\ \/ AttemptFails
       \/ \E c \in Reachable(rq.cand) :
            IF Oscillates(c)
            THEN rq' = [rq EXCEPT !.pc = "escalate", !.asked = @ + 1,
                                  !.tries = 0, !.seen = Idle.seen]
            ELSE StillFailing(c) \/ Fixed(c, "heal", "trust")
    /\ UNCHANGED <<store, given, gated, requests>>

TrustLastHeal == Accept(rq.cand, "heal", "trust")   \* mutant: the last attempt is taken as it is
GiveUpHealing == Accept(rq.cand, rq.author, "escalate")

HealExhausted ==
    /\ At("heal") /\ rq.tries = HealAttempts
    /\ GiveUpHealing
    /\ UNCHANGED <<store, given, gated, requests>>

\* computeTaskSignature: all diffs have one.
OneSignature == Diff     \* mutant: the instruction is not part of it
Signature == IF IsDiff THEN Diff ELSE rq.task

\* findLibraryMatch
Match == library[Signature]

MarkUsed == library' = [library EXCEPT ![Signature].used = requests]

ReplayAgain(o) == UNCHANGED rq   \* mutant: a fix that is of no use is looked up again

\* The model starts from the files as they are.
FallThrough(o) == rq' = [rq EXCEPT !.pc = "context", !.cand = disk, !.override = o]

\* runEscalation first replays the fix the library has, on the files as they
\* were.  Its edits are the last ones of the model only: on files other than those
\* they were made on they may make anything, or not apply.
Replay ==
    /\ At("escalate")
    /\ \/ /\ Match # None
          /\ \E c \in Reachable(disk) :
               /\ Match.base = disk => c = Match.after
               /\ \/ /\ Passes(c) /\ MarkUsed
                     /\ rq' = [rq EXCEPT !.pc = "trust", !.cand = c, !.author = "library",
                                         !.override = OverrideAfter(c)]
                  \/ Fails(c) /\ FallThrough(OverrideAfter(c)) /\ UNCHANGED library
       \/ /\ Match # None => Match.base # disk
          /\ FallThrough(rq.override) /\ UNCHANGED library
    /\ UNCHANGED <<disk, version, keys, approver, given, gated, requests>>

\* The neighbours' files are scanned; the human may refuse to send them.
Context ==
    /\ At("context")
    /\ Goto("repair") \/ Stop
    /\ UNCHANGED <<store, given, gated, requests>>

AnyPromotion(c) == "promote"   \* mutant: fixes that weaken tests may be promoted too
AfterRepair(c) == IF Weakens(c) THEN "trust" ELSE "promote"

Repair ==
    /\ At("repair") /\ rq.tries < RepairAttempts
    /\ \/ AttemptFails
       \/ \E c \in Reachable(rq.cand) :
            IF Oscillates(c)
            THEN Stop
            ELSE StillFailing(c) \/ Fixed(c, "escalation", AfterRepair(c))
    /\ UNCHANGED <<store, given, gated, requests>>

RepairExhausted ==
    /\ At("repair") /\ rq.tries = RepairAttempts
    /\ Stop
    /\ UNCHANGED <<store, given, gated, requests>>

\* assertAuthorizedToApprove: the first user who agrees is registered; whoever
\* declines or is not registered is refused with an error.
Authorized == approver # "other" /\ approver' = "user"
Refused == approver # "user" /\ UNCHANGED approver

\* enforceEviction: a library that is full loses what has not been used the longest,
\* even if the new fix takes the place of an old one.
Filed == {s \in DOMAIN library : library[s] # None}
LeastRecent == {s \in Filed : \A t \in Filed : library[s].used <= library[t].used}
Evicted ==
    IF Cardinality(Filed) < LibraryLimit
    THEN library
    ELSE [s \in DOMAIN library |-> IF s \in LeastRecent THEN None ELSE library[s]]

Promotion == [task |-> rq.task, before |-> disk, base |-> rq.base, after |-> rq.cand,
              used |-> requests]

PromoteOperation == library' = [Evicted EXCEPT ![Signature] = Promotion]

\* The human decides whether the fix is kept for the next time, in a dry run too.
Promote ==
    /\ At("promote")
    /\ \/ Authorized /\ Goto("trust") /\ UNCHANGED library
       \/ Authorized /\ Goto("trust") /\ PromoteOperation
       \/ Refused /\ Stop /\ UNCHANGED library
    /\ UNCHANGED <<disk, version, keys, given, gated, requests>>

-----------------------------------------------------------------------------
(* The TrustGate, the approval of the human, and the commit.               *)

\* Mutant: the classifier's confidence is looked at before the three flags.
ConfidenceFirst(v, c) ==
    CASE v.confidence = "low"                   -> "abort"
      [] v.confidence = "high" /\ ~ v.contract  -> "auto_commit"
      [] OTHER                                  -> "human_confirm"

EvaluateTrustGate(v, c) ==
    IF v.injected \/ Weakens(c) \/ ~ v.covered
    THEN "human_confirm"
    ELSE CASE v.confidence = "low"                   -> "abort"
           [] v.confidence = "high" /\ ~ v.contract  -> "auto_commit"
           [] OTHER                                  -> "human_confirm"

\* The floors under the gate; a diff has no Deterministic Override Floor.
FromEscalation == rq.author \in {"escalation", "library"}
Floor == FromEscalation \/ (guarded /\ ~ IsDiff)
Decision(v, c) ==
    IF EvaluateTrustGate(v, c) = "auto_commit" /\ Floor
    THEN "human_confirm"
    ELSE EvaluateTrustGate(v, c)

Recorded == TRUE

Clear(v) == rq' = [rq EXCEPT !.pc = "commit", !.verdict = v]
AskHuman(v) == rq' = [rq EXCEPT !.pc = "approve", !.verdict = v]

\* An abort ends the request, unless modify was called with --override.
TrustModify ==
    /\ rq.path = "modify" /\ ~ rq.dry
    /\ \E v \in Verdicts :
         CASE Decision(v, rq.cand) = "auto_commit"   -> Clear(v)
           [] Decision(v, rq.cand) = "human_confirm" -> AskHuman(v)
           [] OTHER ->
                IF rq.override # "none"
                THEN rq' = [rq EXCEPT !.pc = "approve", !.verdict = v, !.audited = Recorded]
                ELSE Stop

\* The approval of purix_modify stands for the confirmation.
TrustTool ==
    /\ rq.path = "tool_modify" /\ ~ rq.dry
    /\ \E v \in Verdicts : IF Decision(v, rq.cand) = "abort" THEN Stop ELSE Clear(v)

TrustDiff ==
    /\ IsDiff
    /\ \E v \in Verdicts :
         CASE Decision(v, rq.cand) = "auto_commit"   -> Clear(v)
           [] Decision(v, rq.cand) = "human_confirm" -> AskHuman(v)
           [] OTHER                                  -> Stop

\* A dry run tells the decision and ends.
EndDryRun == rq.dry /\ Stop

Trust ==
    /\ At("trust")
    /\ TrustModify \/ TrustTool \/ TrustDiff \/ EndDryRun
    /\ UNCHANGED <<store, given, gated, requests>>

HumanDecides ==
    /\ \/ Authorized /\ rq' = [rq EXCEPT !.pc = "commit", !.approved = rq.cand]
       \/ Authorized /\ Stop
       \/ Refused /\ Stop
    /\ UNCHANGED <<disk, version, keys, library, given, gated, requests>>

Approve == At("approve") /\ rq.path = "modify" /\ HumanDecides

ApproveDiff == At("approve") /\ rq.path = "ingest" /\ HumanDecides

\* purix_ingest asks for the approval of the session once there is a diff to show.
ApproveTool ==
    /\ At("approve") /\ rq.path = "tool_ingest"
    /\ \/ TryConsume /\ rq' = [rq EXCEPT !.pc = "commit", !.approved = rq.cand]
       \/ TryConsume /\ Stop
       \/ gated >= SessionLimit /\ Stop /\ UNCHANGED gated
    /\ UNCHANGED <<store, given, requests>>

\* commitVersionedChange, which CommitProtocol models; it may meet a conflict.
Committed == disk' = rq.cand /\ version' = version + 1

\* Only modify records the request: base is what the files held.
CommitModify ==
    rq.path = "modify" /\ Committed /\ rq' = [rq EXCEPT !.pc = "record", !.base = disk]
CommitTool == rq.path = "tool_modify" /\ Committed /\ Stop
CommitDiff == IsDiff /\ Committed /\ Stop
CommitConflict == Stop /\ UNCHANGED <<disk, version>>

Commit ==
    /\ At("commit")
    /\ CommitModify \/ CommitTool \/ CommitDiff \/ CommitConflict
    /\ UNCHANGED <<keys, library, approver, given, gated, requests>>

RecordRequest ==
    /\ At("record")
    /\ keys' = [keys EXCEPT ![<<rq.task, rq.base>>] = version]
    /\ Stop
    /\ UNCHANGED <<disk, version, library, approver, given, gated, requests>>

\* The process is killed; a new server has a new session.
Kill ==
    /\ ~ At("idle")
    /\ gated' = IF rq.path \in {"tool_modify", "tool_ingest"} THEN 0 ELSE gated
    /\ Stop
    /\ UNCHANGED <<store, given, requests>>

Step ==
    \/ CheckKey \/ Gate \/ Scan \/ ScanTool \/ ScanDiff \/ RefineIntent \/ Classify \/ ClassifyDiff
    \/ Verify \/ Heal \/ HealExhausted \/ Replay \/ Context \/ Repair \/ RepairExhausted
    \/ Promote \/ Trust \/ Approve \/ ApproveDiff \/ ApproveTool \/ Commit \/ RecordRequest

Next == Begin \/ Step \/ Kill

Spec == Init /\ [][Next]_vars

\* Models answer or their calls throw, and an input that ends counts as no.
FairSpec == Spec /\ WF_vars(Step)

-----------------------------------------------------------------------------
(* Correctness.                                                            *)

Labels == {"idle", "key", "gate", "scan", "intent", "classify", "verify", "heal",
           "escalate", "context", "repair", "promote", "trust", "approve", "commit", "record"}

Authors == {None, "request", "heal", "escalation", "library"}
LocalStates ==
    [pc : Labels, path : Paths \union {None}, task : Tasks \union {None}, dry : BOOLEAN,
     override : Overrides, cand : Contents \union {None}, base : Contents \union {None},
     author : Authors, tries : Nat, seen : [Contents -> Nat], asked : Nat, verdict : Verdicts \union {None},
     approved : Contents \union {None}, audited : BOOLEAN]

\* The store and the local state of a request keep their shapes, and the session
\* of the server stays within its limit.
TypeOK ==
    /\ disk \in Contents /\ version \in Nat
    /\ keys \in [Tasks \X Contents -> Nat]
    /\ library \in [Tasks \union {Diff} -> Entries \union {None}]
    /\ approver \in {"nobody", "user", "other"} /\ guarded \in BOOLEAN
    /\ locked \in BOOLEAN /\ gated \in 0..SessionLimit /\ requests \in 0..MaxRequests
    /\ rq \in LocalStates

\* What is committed has passed the sandbox, whoever wrote it in the end: the
\* request, self-healing, escalation or the library.
Broken == {c \in Contents : Flaws[c] \cap {"secret", "ill_typed", "failing"} # {}}

DiskIsVerified == disk \notin Broken

Commits == At("commit") /\ version' # version

\* A change is committed that no human has seen, by all paths but purix_modify, only
\* when nothing speaks against it: a confident verdict on an unchanged contract,
\* tests that are there and no weaker, no injection, no escalation, and for modify
\* no protected path.
SilentCommitsAreSafe ==
    [][Commits /\ rq.path # "tool_modify" /\ rq.approved # rq.cand =>
            /\ rq.verdict.confidence = "high" /\ ~ rq.verdict.contract
            /\ ~ rq.verdict.injected /\ rq.verdict.covered
            /\ ~ Weakens(rq.cand) /\ ~ FromEscalation
            /\ rq.path = "modify" => ~ guarded]_vars

\* The tests of a component are weakened, by all paths but purix_modify, only by a
\* change that a human has seen and approved; for a command it is the registered
\* approver.
TestsWeakenOnlyWithApproval ==
    [][Tests[disk'] < Tests[disk] =>
            \/ rq.path = "tool_modify"
            \/ rq.approved = disk' /\ (rq.path # "tool_ingest" => approver = "user")]_vars

\* A change that a gate rejects is committed only by an override that is on record:
\* the TrustGate for its confidence, and then after the human has approved it, or
\* the security gate, and then by the command modify, since nothing else has one.
RejectionsAreOverridden ==
    [][Commits =>
         /\ EvaluateTrustGate(rq.verdict, rq.cand) = "abort" =>
                rq.audited /\ rq.approved = rq.cand
         /\ GateBlocks(rq.cand) => rq.path = "modify" /\ rq.override = "spent"]_vars

\* The library keeps only fixes that passed the sandbox, do not weaken tests and
\* were promoted by a registered approver.
LibraryIsVetted ==
    \A s \in DOMAIN library :
        library[s] # None =>
            /\ library[s].after \notin Broken
            /\ Tests[library[s].after] >= Tests[library[s].before]
            /\ approver = "user"

\* A fix that the library replays was made for the same instruction.  Diffs are
\* an exception, since the signature of a diff does not depend on what it says.
ReplaysAnswerTheTask ==
    At("trust") /\ rq.author = "library" /\ ~ IsDiff =>
        library[Signature].task = rq.task

\* A request makes a bounded number of model calls, whatever they answer.
ModelCallsAreBounded == rq.asked <= 2 + HealAttempts + RepairAttempts

\* Every request ends.
RequestsEnd == ~ At("idle") ~> At("idle")
=============================================================================
