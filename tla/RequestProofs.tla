---------------------------- MODULE RequestProofs ----------------------------
(***************************************************************************)
(* Proofs about a request for a change and about the calls of models that  *)
(* requests make: the safety properties of ModifyPipeline, for any tasks,  *)
(* contents with any flaws, limits and answers, those of LlmCalls, for any *)
(* processes, providers, prices and limits, and that of UnifiedDiff, for   *)
(* any diffs, files, lines and searches.                                   *)
(***************************************************************************)
EXTENDS ModifyPipeline, LlmCalls, UnifiedDiff,
        FiniteSetTheorems, SequenceTheorems, TLAPS

-----------------------------------------------------------------------------
(* The inductive invariant, in parts.                                      *)

\* A request that runs has a path and a task; only modify has an override.
RequestKnown ==
    /\ ~ At("idle") => rq.path \in Paths /\ rq.task \in Tasks
    /\ rq.override # "none" => rq.path = "modify"

\* c passed the sandbox, and if its gate blocks c then that took the override o.
Vetted(c, o) == c \in Contents \ Broken /\ (GateBlocks(c) => o = "spent")

\* What reaches the TrustGate, a promotion or the commit passed the sandbox; what
\* is promoted has edits that were made on something.
CandidateKnown ==
    /\ rq.pc \in {"verify", "heal", "context", "repair"} => rq.cand \in Contents
    /\ rq.pc \in {"trust", "promote", "approve", "commit"} => Vetted(rq.cand, rq.override)
    /\ rq.pc \in {"promote", "record"} => rq.base \in Contents

\* A fix that may be promoted weakens no test.
PromotionKeepsTests == At("promote") => Tests[rq.cand] >= Tests[disk]

\* Fixes are filed under the signature of their task, and so is one that the
\* TrustGate looks at after its replay.
FiledByTask ==
    /\ \A s \in Tasks : library[s] # None => library[s].task = s
    /\ At("trust") /\ rq.author = "library" /\ ~ IsDiff => library[Signature].task = rq.task
    /\ At("verify") => rq.author = "request"
    /\ At("promote") => rq.author = "escalation"

\* How many calls a request has made at most, by the stage it is in.
Budgeted ==
    /\ rq.pc \in {"idle", "key", "gate", "scan", "intent"} => rq.asked = 0
    /\ At("classify") => rq.asked <= 1
    /\ At("verify") => rq.asked <= 2
    /\ At("heal") => rq.asked <= 2 + rq.tries /\ rq.tries <= HealAttempts
    /\ rq.pc \in {"escalate", "context"} => rq.asked <= 2 + HealAttempts
    /\ At("repair") => rq.asked <= 2 + HealAttempts + rq.tries /\ rq.tries <= RepairAttempts
    /\ rq.pc \in {"key", "gate", "scan", "intent", "classify", "verify", "escalate", "context"}
            => rq.tries = 0
    /\ ModelCallsAreBounded

\* A change that waits for its human has a verdict; one the gate rejected is on record.
WaitsWithVerdict ==
    At("approve") => /\ rq.verdict \in Verdicts /\ rq.path # "tool_modify"
                     /\ EvaluateTrustGate(rq.verdict, rq.cand) = "abort" => rq.audited

\* A change that is about to be committed was approved, or needs no approval.
CommitsAreCleared ==
    /\ rq.pc \notin {"commit", "record"} => rq.approved = None
    /\ At("commit") =>
         /\ rq.verdict \in Verdicts
         /\ rq.path # "tool_modify" /\ rq.approved # rq.cand
                => Decision(rq.verdict, rq.cand) = "auto_commit"
         /\ rq.approved = rq.cand /\ rq.path # "tool_ingest" => approver = "user"
         /\ EvaluateTrustGate(rq.verdict, rq.cand) = "abort"
                => rq.audited /\ rq.approved = rq.cand

IInv ==
    /\ TypeOK /\ DiskIsVerified /\ LibraryIsVetted
    /\ RequestKnown /\ CandidateKnown /\ PromotionKeepsTests /\ FiledByTask
    /\ Budgeted /\ WaitsWithVerdict /\ CommitsAreCleared
-----------------------------------------------------------------------------
(* Every step keeps the types: first the local state, then the store.      *)

LEMMA IdleTyped == Idle \in LocalStates
BY ContentAssumption DEF Idle, LocalStates, Labels, Authors, Overrides

LEMMA FreshSeen == Idle.seen \in [Contents -> Nat]
BY DEF Idle

LEMMA OverrideTyped ==
  ASSUME rq \in LocalStates, NEW c
  PROVE  OverrideAfter(c) \in Overrides /\ (rq.override = "none" => OverrideAfter(c) = "none")
BY DEF OverrideAfter, LocalStates, Overrides

LEMMA AcceptTyped ==
  ASSUME rq \in LocalStates, NEW c \in Contents \union {None}, NEW author \in Authors,
         NEW label \in Labels, Accept(c, author, label)
  PROVE  rq' \in LocalStates
BY FreshSeen DEF Accept, LocalStates, Authors

LEMMA FailureTyped ==
  ASSUME rq \in LocalStates, AttemptFails
  PROVE  rq' \in LocalStates
<1>1. rq.asked + 1 \in Nat /\ rq.tries + 1 \in Nat
  BY DEF LocalStates
<1> QED
  BY <1>1 DEF AttemptFails, LocalStates

LEMMA StillFailingTyped ==
  ASSUME rq \in LocalStates, NEW c \in Contents, StillFailing(c)
  PROVE  rq' \in LocalStates
<1>1. rq.asked + 1 \in Nat /\ rq.tries + 1 \in Nat
  BY DEF LocalStates
<1>2. [rq.seen EXCEPT ![c] = @ + 1] \in [Contents -> Nat]
  BY DEF LocalStates
<1>3. OverrideAfter(c) \in Overrides
  BY OverrideTyped
<1> QED
  BY <1>1, <1>2, <1>3 DEF StillFailing, LocalStates

LEMMA FixedTyped ==
  ASSUME rq \in LocalStates, NEW c \in Contents, NEW author \in Authors,
         NEW label \in Labels, Fixed(c, author, label)
  PROVE  rq' \in LocalStates
<1>1. rq.asked + 1 \in Nat /\ rq.cand \in Contents \union {None}
  BY DEF LocalStates
<1>2. OverrideAfter(c) \in Overrides
  BY OverrideTyped
<1> QED
  BY <1>1, <1>2, FreshSeen DEF Fixed, LocalStates, Authors

LEMMA StepRequestTyped ==
  ASSUME TypeOK, CandidateKnown, Next
  PROVE  rq' \in LocalStates
<1> USE DEF Stop, Authors
<1>0. rq \in LocalStates /\ rq.asked + 1 \in Nat /\ disk \in Contents
  BY DEF TypeOK, LocalStates
<1>1. CASE Begin
  <2>1. PICK path \in Paths, task \in Tasks, dry \in BOOLEAN, override \in Overrides,
             label \in Labels : Arrives(path, task, dry, override, label)
    BY <1>1 DEF Begin, BeginModify, BeginTool, BeginDiff, BeginDiffTool, Paths, Overrides, Labels
  <2> QED
    BY <2>1, IdleTyped DEF Arrives, LocalStates
<1>2. CASE CheckKey \/ Gate \/ Scan \/ ScanTool \/ ScanDiff \/ Context
  <2>1. rq' = Idle \/ \E label \in Labels : rq' = [rq EXCEPT !.pc = label]
    BY <1>2 DEF CheckKey, Gate, Scan, ScanTool, ScanDiff, Context, Goto, Labels
  <2> QED
    BY <1>0, <2>1, IdleTyped DEF LocalStates
<1>3. CASE Verify
  <2>1. PICK label \in Labels :
          rq' = [rq EXCEPT !.pc = label, !.override = OverrideAfter(rq.cand)]
    BY <1>3 DEF Verify, Labels
  <2>2. OverrideAfter(rq.cand) \in Overrides
    BY <1>0, OverrideTyped
  <2> QED
    BY <1>0, <2>1, <2>2 DEF LocalStates
<1>4. CASE RefineIntent
  <2>1. CASE Interpreted
    BY <1>0, <2>1 DEF Interpreted, LocalStates, Labels
  <2> QED
    BY <1>4, <2>1, IdleTyped DEF RefineIntent
<1>5. CASE Classify \/ ClassifyDiff
  <2>1. ASSUME NEW c \in Contents, Candidate(c) PROVE rq' \in LocalStates
    BY <1>0, <2>1 DEF Candidate, LocalStates, Labels
  <2>2. CASE NotCompiled
    BY <1>0, <2>2 DEF NotCompiled, LocalStates, Labels
  <2> QED
    BY <1>5, <2>1, <2>2, IdleTyped DEF Classify, ClassifyModification, ClassifyDiff
<1>6. CASE Heal
  <2>1. CASE AttemptFails
    BY <1>0, <2>1, FailureTyped
  <2>2. ASSUME NEW c \in Contents, StillFailing(c) PROVE rq' \in LocalStates
    BY <1>0, <2>2, StillFailingTyped
  <2>3. ASSUME NEW c \in Contents, Fixed(c, "heal", "trust") PROVE rq' \in LocalStates
    BY <1>0, <2>3, FixedTyped DEF Authors, Labels
  <2>4. CASE rq' = [rq EXCEPT !.pc = "escalate", !.asked = @ + 1, !.tries = 0, !.seen = Idle.seen]
    BY <1>0, <2>4, FreshSeen DEF LocalStates, Labels
  <2> QED
    BY <1>6, <2>1, <2>2, <2>3, <2>4 DEF Heal, Reachable
<1>7. CASE HealExhausted
  <2>1. rq.cand \in Contents \union {None} /\ rq.author \in Authors /\ "escalate" \in Labels
    BY <1>0 DEF LocalStates, Authors, Labels
  <2>2. Accept(rq.cand, rq.author, "escalate")
    BY <1>7 DEF HealExhausted, GiveUpHealing
  <2> QED
    BY <1>0, <2>1, <2>2, AcceptTyped
<1>8. CASE Replay
  <2>1. ASSUME NEW c \in Contents,
               rq' = [rq EXCEPT !.pc = "trust", !.cand = c, !.author = "library",
                                !.override = OverrideAfter(c)]
        PROVE  rq' \in LocalStates
    BY <1>0, <2>1, OverrideTyped DEF LocalStates, Labels
  <2>2. ASSUME NEW o \in Overrides, FallThrough(o) PROVE rq' \in LocalStates
    BY <1>0, <2>2 DEF FallThrough, LocalStates, Labels
  <2>3. rq.override \in Overrides /\ \A c : OverrideAfter(c) \in Overrides
    BY <1>0, OverrideTyped DEF LocalStates
  <2> QED
    BY <1>8, <2>1, <2>2, <2>3 DEF Replay, Reachable
<1>9. CASE Repair
  <2>1. CASE AttemptFails
    BY <1>0, <2>1, FailureTyped
  <2>2. ASSUME NEW c \in Contents, StillFailing(c) PROVE rq' \in LocalStates
    BY <1>0, <2>2, StillFailingTyped
  <2>3. ASSUME NEW c \in Contents, Fixed(c, "escalation", AfterRepair(c)) PROVE rq' \in LocalStates
    <3>1. AfterRepair(c) \in Labels
      BY DEF AfterRepair, Labels
    <3> QED
      BY <1>0, <2>3, <3>1, FixedTyped DEF Authors
  <2> QED
    BY <1>9, <2>1, <2>2, <2>3, IdleTyped DEF Repair, Reachable
<1>10. CASE RepairExhausted \/ RecordRequest \/ Kill
  BY <1>10, IdleTyped DEF RepairExhausted, RecordRequest, Kill
<1>11. CASE Promote
  BY <1>0, <1>11, IdleTyped DEF Promote, Goto, LocalStates, Labels
<1>12. CASE Trust
  <2>1. ASSUME NEW v \in Verdicts, Clear(v) PROVE rq' \in LocalStates
    BY <1>0, <2>1 DEF Clear, LocalStates, Labels
  <2>2. ASSUME NEW v \in Verdicts, AskHuman(v) PROVE rq' \in LocalStates
    BY <1>0, <2>2 DEF AskHuman, LocalStates, Labels
  <2>3. ASSUME NEW v \in Verdicts,
               rq' = [rq EXCEPT !.pc = "approve", !.verdict = v, !.audited = Recorded]
        PROVE  rq' \in LocalStates
    BY <1>0, <2>3 DEF LocalStates, Labels, Recorded
  <2> QED
    BY <1>12, <2>1, <2>2, <2>3, IdleTyped DEF Trust, TrustModify, TrustTool, TrustDiff, EndDryRun
<1>13. CASE Approve \/ ApproveDiff \/ ApproveTool
  <2>1. CASE rq' = [rq EXCEPT !.pc = "commit", !.approved = rq.cand]
    <3>1. rq.cand \in Contents \union {None}
      BY <1>0 DEF LocalStates
    <3> QED
      BY <1>0, <2>1, <3>1 DEF LocalStates, Labels
  <2> QED
    BY <1>13, <2>1, IdleTyped DEF Approve, ApproveDiff, ApproveTool, HumanDecides
<1>14. CASE Commit
  <2>1. CASE rq' = [rq EXCEPT !.pc = "record", !.base = disk]
    BY <1>0, <2>1 DEF LocalStates, Labels
  <2> QED
    BY <1>14, <2>1, IdleTyped
    DEF Commit, CommitModify, CommitTool, CommitDiff, CommitConflict
<1> QED
  BY <1>1, <1>2, <1>3, <1>4, <1>5, <1>6, <1>7, <1>8, <1>9, <1>10, <1>11, <1>12, <1>13, <1>14
  DEF Next, Step

\* What a promotion and a replay make of the library.
LEMMA LibraryTyped ==
  ASSUME TypeOK, RequestKnown, CandidateKnown
  PROVE  LET libraries == [Tasks \union {Diff} -> Entries \union {None}]
         IN  /\ At("promote") /\ PromoteOperation => library' \in libraries
             /\ Match # None /\ MarkUsed /\ ~ At("idle") => library' \in libraries
<1> DEFINE libraries == [Tasks \union {Diff} -> Entries \union {None}]
<1>0. library \in libraries /\ requests \in Nat
  BY LimitAssumption DEF TypeOK
<1>1. ASSUME At("promote"), PromoteOperation PROVE library' \in libraries
  <2>1. Promotion \in Entries
    BY <1>0, <1>1 DEF TypeOK, At, RequestKnown, CandidateKnown, Vetted, Promotion, Entries
  <2>2. Evicted \in libraries
    BY <1>0 DEF Evicted
  <2> QED
    BY <1>1, <2>1, <2>2 DEF PromoteOperation
<1>2. ASSUME Match # None, MarkUsed, ~ At("idle") PROVE library' \in libraries
  <2>1. Signature \in Tasks \union {Diff}
    BY <1>2 DEF Signature, RequestKnown
  <2>2. library[Signature] \in Entries
    BY <1>0, <1>2, <2>1 DEF Match
  <2>3. [library[Signature] EXCEPT !.used = requests] \in Entries
    BY <1>0, <2>2 DEF Entries
  <2> QED
    BY <1>0, <1>2, <2>1, <2>3 DEF MarkUsed
<1> QED
  BY <1>1, <1>2

LEMMA StepTypeOK ==
  ASSUME IInv, Next
  PROVE  TypeOK'
<1>0. TypeOK /\ CandidateKnown /\ RequestKnown /\ rq' \in LocalStates
  BY StepRequestTyped DEF IInv
<1>1. CASE Begin
  BY <1>0, <1>1, LimitAssumption DEF TypeOK, Begin, store, given
<1>2. CASE Gate \/ ApproveTool
  BY <1>0, <1>2, LimitAssumption DEF TypeOK, Gate, ApproveTool, TryConsume, store, given
<1>3. CASE Kill
  BY <1>0, <1>3, LimitAssumption DEF TypeOK, Kill, store, given
<1>4. CASE CheckKey \/ Scan \/ ScanTool \/ ScanDiff \/ RefineIntent \/ Classify \/ ClassifyDiff
           \/ Verify \/ Heal \/ HealExhausted \/ Context \/ Repair \/ RepairExhausted \/ Trust
  <2>1. UNCHANGED <<store, given, gated, requests>>
    BY <1>4 DEF CheckKey, Scan, ScanTool, ScanDiff, RefineIntent, Classify, ClassifyDiff, Verify,
                Heal, HealExhausted, Context, Repair, RepairExhausted, Trust
  <2> QED
    BY <1>0, <2>1 DEF TypeOK, store, given
<1>5. CASE Replay
  <2>1. library' = library \/ (Match # None /\ MarkUsed /\ ~ At("idle"))
    BY <1>5 DEF Replay, At
  <2>2. library' \in [Tasks \union {Diff} -> Entries \union {None}]
    BY <1>0, <2>1, LibraryTyped DEF TypeOK
  <2> QED
    BY <1>0, <1>5, <2>2 DEF TypeOK, Replay, given
<1>6. CASE Promote
  <2>1. approver' \in {"nobody", "user", "other"}
    BY <1>0, <1>6 DEF TypeOK, Promote, Authorized, Refused
  <2>2. library' = library \/ (At("promote") /\ PromoteOperation)
    BY <1>6 DEF Promote
  <2>3. library' \in [Tasks \union {Diff} -> Entries \union {None}]
    BY <1>0, <2>2, LibraryTyped DEF TypeOK
  <2> QED
    BY <1>0, <1>6, <2>1, <2>3 DEF TypeOK, Promote, given
<1>7. CASE Approve \/ ApproveDiff
  BY <1>0, <1>7 DEF TypeOK, Approve, ApproveDiff, HumanDecides, Authorized, Refused, given
<1>8. CASE Commit
  <2>1. rq.cand \in Contents
    BY <1>0, <1>8 DEF Commit, At, CandidateKnown, Vetted
  <2>2. disk' \in Contents /\ version' \in Nat
    BY <1>0, <1>8, <2>1
    DEF TypeOK, Commit, CommitModify, CommitTool, CommitDiff, CommitConflict, Committed
  <2> QED
    BY <1>0, <1>8, <2>2 DEF TypeOK, Commit, given
<1>9. CASE RecordRequest
  BY <1>0, <1>9 DEF TypeOK, RecordRequest, given
<1> QED
  BY <1>1, <1>2, <1>3, <1>4, <1>5, <1>6, <1>7, <1>8, <1>9 DEF Next, Step
-----------------------------------------------------------------------------
(* What the updates of the local state leave alone.                        *)

\* The same request goes on, and is given no override.
SameRequest ==
    /\ rq'.path = rq.path /\ rq'.task = rq.task
    /\ rq.override = "none" => rq'.override = "none"

LEMMA PassesVetted ==
  ASSUME NEW c \in Contents, Passes(c)
  PROVE  Vetted(c, OverrideAfter(c))
BY DEF Passes, SandboxVerdicts, TestRuns, Vetted, Broken, HasSecrets, GateBlocks, Compiles,
       OverrideAfter

LEMMA StopFields ==
  ASSUME Stop
  PROVE  /\ rq'.pc = "idle" /\ rq'.asked = 0 /\ rq'.tries = 0 /\ rq'.approved = None
         /\ rq'.override = "none"
BY DEF Stop, Idle

LEMMA GotoFields ==
  ASSUME rq \in LocalStates, NEW label, Goto(label)
  PROVE  /\ rq'.pc = label /\ SameRequest /\ rq'.override = rq.override
         /\ rq'.cand = rq.cand /\ rq'.author = rq.author /\ rq'.tries = rq.tries
         /\ rq'.asked = rq.asked /\ rq'.approved = rq.approved
BY DEF Goto, LocalStates, SameRequest

LEMMA AcceptFields ==
  ASSUME rq \in LocalStates, NEW c, NEW author, NEW label, Accept(c, author, label)
  PROVE  /\ rq'.pc = label /\ SameRequest
         /\ rq'.cand = c /\ rq'.author = author /\ rq'.tries = 0
         /\ rq'.asked = rq.asked /\ rq'.approved = rq.approved
BY DEF Accept, LocalStates, SameRequest

LEMMA FailureFields ==
  ASSUME rq \in LocalStates, AttemptFails
  PROVE  /\ rq'.pc = rq.pc /\ SameRequest
         /\ rq'.cand = rq.cand /\ rq'.tries = rq.tries + 1
         /\ rq'.asked = rq.asked + 1 /\ rq'.approved = rq.approved
BY DEF AttemptFails, LocalStates, SameRequest

LEMMA StillFailingFields ==
  ASSUME rq \in LocalStates, NEW c, StillFailing(c)
  PROVE  /\ rq'.pc = rq.pc /\ SameRequest
         /\ rq'.cand = c /\ rq'.tries = rq.tries + 1
         /\ rq'.asked = rq.asked + 1 /\ rq'.approved = rq.approved
BY OverrideTyped DEF StillFailing, LocalStates, SameRequest

LEMMA FixedFields ==
  ASSUME rq \in LocalStates, NEW c \in Contents, NEW author, NEW label, Fixed(c, author, label)
  PROVE  /\ rq'.pc = label /\ SameRequest
         /\ rq'.cand = c /\ rq'.author = author /\ rq'.base = rq.cand /\ rq'.tries = 0
         /\ rq'.asked = rq.asked + 1 /\ rq'.approved = rq.approved
         /\ Vetted(rq'.cand, rq'.override)
<1>1. Vetted(c, OverrideAfter(c))
  BY PassesVetted DEF Fixed
<1> QED
  BY <1>1, OverrideTyped DEF Fixed, LocalStates, SameRequest

\* The stages after Begin, each by what becomes of the request in it.
LEMMA BeginFields ==
  ASSUME Begin
  PROVE  /\ rq'.pc \in {"key", "gate", "scan"} /\ rq'.path \in Paths /\ rq'.task \in Tasks
         /\ rq'.override # "none" => rq'.path = "modify"
         /\ rq'.asked = 0 /\ rq'.tries = 0 /\ rq'.approved = None
<1>1. ASSUME NEW path \in Paths, NEW task \in Tasks, NEW dry \in BOOLEAN, NEW override,
             NEW label \in {"key", "gate", "scan"}, override # "none" => path = "modify",
             Arrives(path, task, dry, override, label)
      PROVE  /\ rq'.pc \in {"key", "gate", "scan"} /\ rq'.path \in Paths /\ rq'.task \in Tasks
             /\ rq'.override # "none" => rq'.path = "modify"
             /\ rq'.asked = 0 /\ rq'.tries = 0 /\ rq'.approved = None
  BY <1>1 DEF Arrives, Idle
<1> QED
  BY <1>1 DEF Begin, BeginModify, BeginTool, BeginDiff, BeginDiffTool, Paths

LEMMA EarlyFields ==
  ASSUME CheckKey \/ Gate \/ Scan \/ ScanTool \/ ScanDiff \/ Context
  PROVE  \/ Stop
         \/ rq.pc \in {"key", "gate"} /\ Goto("scan")
         \/ rq.pc = "scan" /\ (Goto("intent") \/ Goto("classify"))
         \/ rq.pc = "context" /\ Goto("repair")
BY DEF CheckKey, Gate, Scan, ScanTool, ScanDiff, Context, At

LEMMA IntentFields ==
  ASSUME rq \in LocalStates, RefineIntent
  PROVE  \/ Stop
         \/ /\ rq.pc = "intent" /\ rq'.pc = "classify" /\ SameRequest
            /\ rq'.tries = rq.tries /\ rq'.asked = rq.asked + 1 /\ rq'.approved = rq.approved
<1>1. CASE Interpreted
  BY <1>1 DEF RefineIntent, At, Interpreted, LocalStates, SameRequest
<1> QED
  BY <1>1 DEF RefineIntent

LEMMA ClassifyFields ==
  ASSUME rq \in LocalStates, Classify \/ ClassifyDiff
  PROVE  \/ Stop
         \/ /\ rq.pc = "classify" /\ SameRequest /\ rq'.tries = rq.tries
            /\ rq'.asked = rq.asked + 1 /\ rq'.approved = rq.approved
            /\ \/ rq'.pc = "escalate"
               \/ rq'.pc = "verify" /\ rq'.cand \in Contents /\ rq'.author = "request"
<1>0. rq.pc = "classify"
  BY DEF Classify, ClassifyDiff, At
<1>1. ASSUME NEW c \in Contents, Candidate(c)
      PROVE  /\ SameRequest /\ rq'.tries = rq.tries
             /\ rq'.asked = rq.asked + 1 /\ rq'.approved = rq.approved
             /\ rq'.pc = "verify" /\ rq'.cand \in Contents /\ rq'.author = "request"
  BY <1>1 DEF Candidate, LocalStates, SameRequest
<1>2. ASSUME NotCompiled
      PROVE  /\ SameRequest /\ rq'.tries = rq.tries
             /\ rq'.asked = rq.asked + 1 /\ rq'.approved = rq.approved
             /\ rq'.pc = "escalate"
  BY <1>2 DEF NotCompiled, LocalStates, SameRequest
<1> QED
  BY <1>0, <1>1, <1>2 DEF Classify, ClassifyModification, ClassifyDiff

LEMMA VerifyFields ==
  ASSUME rq \in LocalStates, rq.cand \in Contents, Verify
  PROVE  /\ rq.pc = "verify" /\ SameRequest /\ rq'.cand = rq.cand /\ rq'.author = rq.author
         /\ rq'.tries = rq.tries /\ rq'.asked = rq.asked /\ rq'.approved = rq.approved
         /\ \/ rq'.pc = "heal"
            \/ rq'.pc = "trust" /\ Vetted(rq'.cand, rq'.override)
<1>1. PICK label \in {"trust", "heal"} :
        /\ label = "trust" => Passes(rq.cand)
        /\ rq' = [rq EXCEPT !.pc = label, !.override = OverrideAfter(rq.cand)]
  BY DEF Verify
<1>2. label = "trust" => Vetted(rq.cand, OverrideAfter(rq.cand))
  BY <1>1, PassesVetted
<1>3. /\ rq'.pc = label /\ SameRequest /\ rq'.cand = rq.cand /\ rq'.author = rq.author
      /\ rq'.tries = rq.tries /\ rq'.asked = rq.asked /\ rq'.approved = rq.approved
      /\ rq'.override = OverrideAfter(rq.cand)
  BY <1>1, OverrideTyped DEF LocalStates, SameRequest
<1> QED
  BY <1>2, <1>3 DEF Verify, At

LEMMA HealFields ==
  ASSUME rq \in LocalStates, Heal
  PROVE  /\ rq.pc = "heal" /\ rq.tries < HealAttempts /\ SameRequest
         /\ rq'.asked = rq.asked + 1 /\ rq'.approved = rq.approved
         /\ \/ /\ rq'.pc = "heal" /\ rq'.tries = rq.tries + 1
               /\ rq'.cand \in Contents \/ rq'.cand = rq.cand
            \/ /\ rq'.pc = "trust" /\ rq'.tries = 0
               /\ rq'.author = "heal" /\ Vetted(rq'.cand, rq'.override)
            \/ rq'.pc = "escalate" /\ rq'.tries = 0
<1>0. rq.pc = "heal" /\ rq.tries < HealAttempts
  BY DEF Heal, At
<1>1. CASE AttemptFails
  BY <1>0, <1>1, FailureFields
<1>2. CASE \E c \in Contents : StillFailing(c)
  BY <1>0, <1>2, StillFailingFields
<1>3. CASE \E c \in Contents : Fixed(c, "heal", "trust")
  BY <1>0, <1>3, FixedFields
<1>4. CASE rq' = [rq EXCEPT !.pc = "escalate", !.asked = @ + 1, !.tries = 0, !.seen = Idle.seen]
  BY <1>0, <1>4 DEF LocalStates, SameRequest
<1> QED
  BY <1>0, <1>1, <1>2, <1>3, <1>4 DEF Heal, Reachable

LEMMA HealExhaustedFields ==
  ASSUME rq \in LocalStates, HealExhausted
  PROVE  /\ rq.pc = "heal" /\ rq'.pc = "escalate" /\ SameRequest
         /\ rq'.tries = 0 /\ rq'.asked = rq.asked /\ rq'.approved = rq.approved
<1>1. Accept(rq.cand, rq.author, "escalate") /\ rq.pc = "heal"
  BY DEF HealExhausted, GiveUpHealing, At
<1> QED
  BY <1>1, AcceptFields

LEMMA ReplayFields ==
  ASSUME rq \in LocalStates, Replay
  PROVE  /\ rq.pc = "escalate" /\ SameRequest /\ rq'.tries = rq.tries
         /\ rq'.asked = rq.asked /\ rq'.approved = rq.approved
         /\ \/ /\ rq'.pc = "trust" /\ rq'.author = "library" /\ Match # None /\ MarkUsed
               /\ Vetted(rq'.cand, rq'.override)
            \/ rq'.pc = "context" /\ rq'.cand = disk /\ UNCHANGED library
<1>0. rq.pc = "escalate"
  BY DEF Replay, At
<1>1. ASSUME NEW c \in Contents, Passes(c),
             rq' = [rq EXCEPT !.pc = "trust", !.cand = c, !.author = "library",
                              !.override = OverrideAfter(c)]
      PROVE  /\ rq'.pc = "trust" /\ SameRequest /\ rq'.author = "library"
             /\ rq'.tries = rq.tries /\ rq'.asked = rq.asked /\ rq'.approved = rq.approved
             /\ Vetted(rq'.cand, rq'.override)
  BY <1>1, PassesVetted, OverrideTyped DEF LocalStates, SameRequest
<1>2. ASSUME NEW o, rq.override = "none" => o = "none", FallThrough(o)
      PROVE  /\ rq'.pc = "context" /\ SameRequest /\ rq'.cand = disk /\ rq'.tries = rq.tries
             /\ rq'.asked = rq.asked /\ rq'.approved = rq.approved
  BY <1>2 DEF FallThrough, LocalStates, SameRequest
<1>3. \A c : rq.override = "none" => OverrideAfter(c) = "none"
  BY OverrideTyped
<1> QED
  BY <1>0, <1>1, <1>2, <1>3 DEF Replay, Reachable

LEMMA RepairFields ==
  ASSUME rq \in LocalStates, Repair
  PROVE  /\ rq.pc = "repair" /\ rq.tries < RepairAttempts
         /\ \/ Stop
            \/ /\ SameRequest /\ rq'.asked = rq.asked + 1 /\ rq'.approved = rq.approved
               /\ \/ /\ rq'.pc = "repair" /\ rq'.tries = rq.tries + 1
                     /\ rq'.cand \in Contents \/ rq'.cand = rq.cand
                  \/ /\ rq'.pc = AfterRepair(rq'.cand) /\ rq'.tries = 0
                     /\ rq'.author = "escalation" /\ rq'.base = rq.cand
                     /\ Vetted(rq'.cand, rq'.override)
<1>0. rq.pc = "repair" /\ rq.tries < RepairAttempts
  BY DEF Repair, At
<1>1. CASE AttemptFails
  BY <1>0, <1>1, FailureFields
<1>2. CASE \E c \in Contents : StillFailing(c)
  BY <1>0, <1>2, StillFailingFields
<1>3. ASSUME NEW c \in Contents, Fixed(c, "escalation", AfterRepair(c))
      PROVE  /\ SameRequest /\ rq'.asked = rq.asked + 1 /\ rq'.approved = rq.approved
             /\ rq'.pc = AfterRepair(rq'.cand) /\ rq'.tries = 0
             /\ rq'.author = "escalation" /\ rq'.base = rq.cand
             /\ Vetted(rq'.cand, rq'.override)
  <2>1. /\ SameRequest /\ rq'.asked = rq.asked + 1 /\ rq'.approved = rq.approved
        /\ rq'.pc = AfterRepair(c) /\ rq'.tries = 0
        /\ rq'.author = "escalation" /\ rq'.base = rq.cand /\ rq'.cand = c
        /\ Vetted(rq'.cand, rq'.override)
    BY <1>3, FixedFields
  <2> QED
    BY <2>1
<1> QED
  BY <1>0, <1>1, <1>2, <1>3 DEF Repair, Reachable

LEMMA TrustFields ==
  ASSUME rq \in LocalStates, Trust
  PROVE  /\ rq.pc = "trust"
         /\ \/ Stop
            \/ /\ SameRequest /\ rq'.override = rq.override /\ rq'.cand = rq.cand
               /\ rq'.author = rq.author /\ rq'.asked = rq.asked /\ rq'.approved = rq.approved
               /\ rq'.verdict \in Verdicts
               /\ \/ /\ rq'.pc = "commit"
                     /\ Decision(rq'.verdict, rq.cand) # "abort"
                     /\ rq.path = "tool_modify" \/ Decision(rq'.verdict, rq.cand) = "auto_commit"
                  \/ /\ rq'.pc = "approve" /\ rq.path # "tool_modify"
                     /\ Decision(rq'.verdict, rq.cand) = "human_confirm" \/ rq'.audited
<1> DEFINE Kept == /\ SameRequest /\ rq'.override = rq.override /\ rq'.cand = rq.cand
                   /\ rq'.author = rq.author /\ rq'.asked = rq.asked
                   /\ rq'.approved = rq.approved
<1>0. rq.pc = "trust"
  BY DEF Trust, At
<1>1. ASSUME NEW v \in Verdicts, Clear(v)
      PROVE  Kept /\ rq'.pc = "commit" /\ rq'.verdict = v
  BY <1>1 DEF Clear, LocalStates, SameRequest
<1>2. ASSUME NEW v \in Verdicts, AskHuman(v)
      PROVE  Kept /\ rq'.pc = "approve" /\ rq'.verdict = v
  BY <1>2 DEF AskHuman, LocalStates, SameRequest
<1>3. ASSUME NEW v \in Verdicts,
             rq' = [rq EXCEPT !.pc = "approve", !.verdict = v, !.audited = Recorded]
      PROVE  Kept /\ rq'.pc = "approve" /\ rq'.verdict = v /\ rq'.audited
  BY <1>3 DEF LocalStates, Recorded, SameRequest
<1>4. CASE Stop
  BY <1>0, <1>4
<1>5. CASE ~ Stop
  <2>1. PICK v \in Verdicts :
           \/ /\ Decision(v, rq.cand) = "auto_commit" \/ rq.path = "tool_modify"
              /\ Decision(v, rq.cand) # "abort"
              /\ Clear(v)
           \/ /\ Decision(v, rq.cand) = "human_confirm" /\ rq.path # "tool_modify"
              /\ AskHuman(v)
           \/ /\ rq.path # "tool_modify"
              /\ rq' = [rq EXCEPT !.pc = "approve", !.verdict = v, !.audited = Recorded]
    <3>1. ASSUME TrustModify
          PROVE  \E v \in Verdicts :
                   /\ rq.path = "modify"
                   /\ \/ Decision(v, rq.cand) = "auto_commit" /\ Clear(v)
                      \/ Decision(v, rq.cand) = "human_confirm" /\ AskHuman(v)
                      \/ rq' = [rq EXCEPT !.pc = "approve", !.verdict = v, !.audited = Recorded]
      BY <1>5, <3>1 DEF TrustModify
    <3>2. ASSUME TrustTool
          PROVE  \E v \in Verdicts :
                   rq.path = "tool_modify" /\ Decision(v, rq.cand) # "abort" /\ Clear(v)
      BY <1>5, <3>2 DEF TrustTool
    <3>3. ASSUME TrustDiff
          PROVE  \E v \in Verdicts :
                   /\ rq.path # "tool_modify"
                   /\ \/ Decision(v, rq.cand) = "auto_commit" /\ Clear(v)
                      \/ Decision(v, rq.cand) = "human_confirm" /\ AskHuman(v)
      BY <1>5, <3>3 DEF TrustDiff, IsDiff
    <3> QED
      BY <1>5, <3>1, <3>2, <3>3 DEF Trust, EndDryRun
  <2>2. CASE /\ Decision(v, rq.cand) = "auto_commit" \/ rq.path = "tool_modify"
             /\ Decision(v, rq.cand) # "abort"
             /\ Clear(v)
    BY <1>0, <1>1, <2>2
  <2>3. CASE /\ Decision(v, rq.cand) = "human_confirm" /\ rq.path # "tool_modify"
             /\ AskHuman(v)
    BY <1>0, <1>2, <2>3
  <2>4. CASE /\ rq.path # "tool_modify"
             /\ rq' = [rq EXCEPT !.pc = "approve", !.verdict = v, !.audited = Recorded]
    BY <1>0, <1>3, <2>4
  <2> QED
    BY <2>1, <2>2, <2>3, <2>4
<1> QED
  BY <1>4, <1>5

LEMMA ApproveFields ==
  ASSUME rq \in LocalStates, Approve \/ ApproveDiff \/ ApproveTool
  PROVE  /\ rq.pc = "approve"
         /\ \/ Stop
            \/ /\ rq'.pc = "commit" /\ SameRequest /\ rq'.override = rq.override
               /\ rq'.cand = rq.cand /\ rq'.author = rq.author /\ rq'.asked = rq.asked
               /\ rq'.verdict = rq.verdict /\ rq'.audited = rq.audited
               /\ rq'.approved = rq.cand
               /\ rq.path = "tool_ingest" \/ approver' = "user"
         /\ approver = "user" => approver' = "user"
<1>1. rq.pc = "approve"
  BY DEF Approve, ApproveDiff, ApproveTool, At
<1>2. ASSUME rq' = [rq EXCEPT !.pc = "commit", !.approved = rq.cand]
      PROVE  /\ rq'.pc = "commit" /\ SameRequest /\ rq'.override = rq.override
             /\ rq'.cand = rq.cand /\ rq'.author = rq.author /\ rq'.asked = rq.asked
             /\ rq'.verdict = rq.verdict /\ rq'.audited = rq.audited
             /\ rq'.approved = rq.cand
  BY <1>2 DEF LocalStates, SameRequest
<1>3. CASE HumanDecides
  BY <1>1, <1>2, <1>3 DEF HumanDecides, Authorized, Refused
<1>4. CASE ApproveTool
  BY <1>1, <1>2, <1>4 DEF ApproveTool, At, store
<1> QED
  BY <1>3, <1>4 DEF Approve, ApproveDiff

LEMMA CommitFields ==
  ASSUME rq \in LocalStates, Commit
  PROVE  /\ rq.pc = "commit"
         /\ \/ Stop
            \/ /\ rq'.pc = "record" /\ SameRequest /\ rq'.base = disk
               /\ rq'.asked = rq.asked
         /\ disk' = disk \/ disk' = rq.cand
<1> USE DEF Commit, At, CommitModify, CommitTool, CommitDiff, CommitConflict, Committed
<1>1. CASE rq' = [rq EXCEPT !.pc = "record", !.base = disk]
  BY <1>1 DEF LocalStates, SameRequest
<1>2. CASE Stop
  BY <1>2
<1> QED
  BY <1>1, <1>2

LEMMA PromoteFields ==
  ASSUME Promote
  PROVE  /\ rq.pc = "promote" /\ (Stop \/ Goto("trust"))
         /\ library' # library =>
              Goto("trust") /\ approver' = "user" /\ PromoteOperation
         /\ approver = "user" => approver' = "user"
BY DEF Promote, At, Authorized, Refused

\* What a library holds after a change to it, it held before but for one entry.
LEMMA PromotedEntries ==
  ASSUME TypeOK, Signature \in Tasks \union {Diff}, PromoteOperation
  PROVE  /\ DOMAIN library' = DOMAIN library
         /\ library'[Signature] = Promotion
         /\ \A s \in DOMAIN library \ {Signature} :
              library'[s] # None => library'[s] = library[s]
<1>1. /\ DOMAIN Evicted = DOMAIN library
      /\ \A s \in DOMAIN library : Evicted[s] # None => Evicted[s] = library[s]
  BY DEF Evicted
<1>2. DOMAIN library = Tasks \union {Diff}
  BY DEF TypeOK
<1> QED
  BY <1>1, <1>2 DEF PromoteOperation

LEMMA UsedEntries ==
  ASSUME TypeOK, Signature \in Tasks \union {Diff}, Match # None, MarkUsed
  PROVE  /\ DOMAIN library' = DOMAIN library
         /\ library'[Signature].task = Match.task
         /\ library'[Signature].before = Match.before
         /\ library'[Signature].after = Match.after
         /\ \A s \in DOMAIN library \ {Signature} : library'[s] = library[s]
<1>1. library \in [Tasks \union {Diff} -> Entries \union {None}] /\ Match \in Entries
  BY DEF TypeOK, Match
<1>2. library' = [library EXCEPT ![Signature] = [Match EXCEPT !.used = requests]]
  BY DEF MarkUsed, Match
<1>3. LET e == [Match EXCEPT !.used = requests]
      IN  e.task = Match.task /\ e.before = Match.before /\ e.after = Match.after
  BY <1>1 DEF Entries
<1>4. library'[Signature] = [Match EXCEPT !.used = requests]
  BY <1>1, <1>2
<1>5. /\ DOMAIN library' = DOMAIN library
      /\ \A s \in DOMAIN library \ {Signature} : library'[s] = library[s]
  BY <1>1, <1>2
<1> QED
  BY <1>3, <1>4, <1>5

\* Only these actions touch the store.
LEMMA StoreFrame ==
  ASSUME Next, ~ Replay, ~ Promote, ~ Approve, ~ ApproveDiff, ~ Commit, ~ RecordRequest
  PROVE  UNCHANGED store
BY DEF Next, Step, Begin, CheckKey, Gate, Scan, ScanTool, ScanDiff, RefineIntent, Classify,
       ClassifyDiff, Verify, Heal, HealExhausted, Context, Repair, RepairExhausted, Trust,
       ApproveTool, Kill

LEMMA LibraryFrame ==
  ASSUME Next, ~ Promote
  PROVE  /\ approver = "user" => approver' = "user"
         /\ Replay \/ library' = library
<1>1. CASE Approve \/ ApproveDiff
  BY <1>1 DEF Approve, ApproveDiff, HumanDecides, Authorized, Refused
<1>2. CASE Replay \/ Commit \/ RecordRequest
  BY <1>2 DEF Replay, Commit, RecordRequest
<1> QED
  BY <1>1, <1>2, StoreFrame DEF store

LEMMA DiskFrame ==
  ASSUME Next, ~ Commit
  PROVE  disk' = disk
<1>1. CASE Approve \/ ApproveDiff \/ Replay \/ Promote \/ RecordRequest
  BY <1>1 DEF Approve, ApproveDiff, HumanDecides, Replay, Promote, RecordRequest
<1> QED
  BY <1>1, StoreFrame DEF store

LEMMA EndFields ==
  ASSUME RepairExhausted \/ RecordRequest \/ Kill
  PROVE  Stop
BY DEF RepairExhausted, RecordRequest, Kill

-----------------------------------------------------------------------------
(* Every step keeps the other parts of the invariant.                      *)

LEMMA StepKnown ==
  ASSUME IInv, Next
  PROVE  RequestKnown'
<1>0. rq \in LocalStates /\ RequestKnown /\ CandidateKnown
  BY DEF IInv, TypeOK
<1> USE DEF RequestKnown, At
<1>1. CASE Stop
  BY <1>1, StopFields
<1>2. CASE Begin
  BY <1>2, BeginFields
<1>3. CASE rq.pc # "idle" /\ SameRequest
  BY <1>0, <1>3 DEF SameRequest
<1>4. CASE CheckKey \/ Gate \/ Scan \/ ScanTool \/ ScanDiff \/ Context \/ Promote
  BY <1>0, <1>1, <1>3, <1>4, EarlyFields, PromoteFields, GotoFields
<1>5. CASE Verify
  BY <1>0, <1>3, <1>5, VerifyFields DEF CandidateKnown, Verify
<1>6. CASE RefineIntent \/ Classify \/ ClassifyDiff
  BY <1>0, <1>1, <1>3, <1>6, IntentFields, ClassifyFields
<1>7. CASE Heal \/ HealExhausted \/ Replay \/ Repair
  BY <1>0, <1>1, <1>3, <1>7, HealFields, HealExhaustedFields, ReplayFields, RepairFields
<1>8. CASE Trust \/ Approve \/ ApproveDiff \/ ApproveTool \/ Commit
  BY <1>0, <1>1, <1>3, <1>8, TrustFields, ApproveFields, CommitFields
<1> QED
  BY <1>1, <1>2, <1>4, <1>5, <1>6, <1>7, <1>8, EndFields DEF Next, Step

LEMMA StepVerified ==
  ASSUME IInv, Next
  PROVE  DiskIsVerified' /\ CandidateKnown'
<1>0. rq \in LocalStates /\ disk \in Contents /\ DiskIsVerified /\ CandidateKnown
  BY DEF IInv, TypeOK
<1>1. DiskIsVerified'
  <2>1. CASE Commit
    BY <1>0, <2>1, CommitFields DEF DiskIsVerified, CandidateKnown, Vetted
  <2> QED
    BY <1>0, <2>1, DiskFrame DEF DiskIsVerified
<1>2. CandidateKnown'
  <2> USE DEF CandidateKnown
  <2>1. CASE Stop
    BY <2>1, StopFields
  <2>2. CASE Begin
    BY <2>2, BeginFields
  <2>3. CASE CheckKey \/ Gate \/ Scan \/ ScanTool \/ ScanDiff \/ Context
    BY <1>0, <2>1, <2>3, EarlyFields, GotoFields
  <2>4. CASE Verify
    BY <1>0, <2>4, VerifyFields DEF Verify, At
  <2>5. CASE RefineIntent \/ Classify \/ ClassifyDiff
    BY <1>0, <2>1, <2>5, IntentFields, ClassifyFields
  <2>6. CASE Heal
    BY <1>0, <2>6, HealFields
  <2>7. CASE HealExhausted
    BY <1>0, <2>7, HealExhaustedFields
  <2>8. CASE Replay
    BY <1>0, <2>8, ReplayFields
  <2>9. CASE Repair
    BY <1>0, <2>1, <2>9, RepairFields DEF AfterRepair
  <2>10. CASE Promote
    BY <1>0, <2>1, <2>10, PromoteFields, GotoFields
  <2>11. CASE Trust
    BY <1>0, <2>1, <2>11, TrustFields
  <2>12. CASE Approve \/ ApproveDiff \/ ApproveTool
    BY <1>0, <2>1, <2>12, ApproveFields
  <2>13. CASE Commit
    BY <1>0, <2>1, <2>13, CommitFields
  <2> QED
    BY <2>1, <2>2, <2>3, <2>4, <2>5, <2>6, <2>7, <2>8, <2>9, <2>10, <2>11, <2>12, <2>13, EndFields
    DEF Next, Step
<1> QED
  BY <1>1, <1>2

\* The labels a request can be at after a step, the last edits' stages apart.
LEMMA NoPromotion ==
  ASSUME IInv, Next, ~ Repair
  PROVE  rq'.pc # "promote"
<1>0. rq \in LocalStates /\ CandidateKnown
  BY DEF IInv, TypeOK
<1>1. CASE Stop
  BY <1>1, StopFields
<1>2. CASE Begin
  BY <1>2, BeginFields
<1>3. CASE CheckKey \/ Gate \/ Scan \/ ScanTool \/ ScanDiff \/ Context \/ Promote
  BY <1>0, <1>1, <1>3, EarlyFields, PromoteFields, GotoFields
<1>4. CASE Verify
  BY <1>0, <1>4, VerifyFields DEF CandidateKnown, Verify, At
<1>5. CASE RefineIntent \/ Classify \/ ClassifyDiff \/ Heal \/ HealExhausted \/ Replay
  BY <1>0, <1>1, <1>5, IntentFields, ClassifyFields, HealFields, HealExhaustedFields, ReplayFields
<1>6. CASE Trust \/ Approve \/ ApproveDiff \/ ApproveTool \/ Commit
  BY <1>0, <1>1, <1>6, TrustFields, ApproveFields, CommitFields
<1> QED
  BY <1>1, <1>2, <1>3, <1>4, <1>5, <1>6, EndFields DEF Next, Step

LEMMA StepPromotion ==
  ASSUME IInv, Next
  PROVE  PromotionKeepsTests' /\ LibraryIsVetted'
<1>0. /\ rq \in LocalStates /\ disk \in Contents /\ CandidateKnown /\ RequestKnown
      /\ library \in [Tasks \union {Diff} -> Entries \union {None}]
      /\ PromotionKeepsTests /\ LibraryIsVetted /\ TypeOK
  BY DEF IInv, TypeOK
<1>1. PromotionKeepsTests'
  <2>1. CASE Repair
    <3>1. disk' = disk
      BY <2>1 DEF Repair, store
    <3>2. Stop \/ rq'.pc = "repair" \/ (rq'.pc = AfterRepair(rq'.cand) /\ rq'.cand \in Contents)
      BY <1>0, <2>1, RepairFields DEF Vetted
    <3>3. rq'.pc = AfterRepair(rq'.cand) /\ rq'.pc = "promote" => ~ Weakens(rq'.cand)
      BY DEF AfterRepair
    <3>4. \A c \in Contents : ~ Weakens(c) => Tests[c] >= Tests[disk]
      BY <1>0, ContentAssumption DEF Weakens
    <3> QED
      BY <3>1, <3>2, <3>3, <3>4, StopFields DEF PromotionKeepsTests, At
  <2> QED
    BY <2>1, NoPromotion DEF PromotionKeepsTests, At
<1>2. LibraryIsVetted'
  <2>1. CASE Promote
    <3>1. approver = "user" => approver' = "user"
      BY <2>1, PromoteFields
    <3>2. CASE library' = library
      BY <1>0, <3>1, <3>2 DEF LibraryIsVetted
    <3>3. CASE library' # library
      <4>1. PromoteOperation /\ approver' = "user" /\ rq.pc = "promote"
        BY <2>1, <3>3, PromoteFields
      <4>2. Signature \in Tasks \union {Diff}
        BY <1>0, <4>1 DEF Signature, RequestKnown, At
      <4>3. rq.cand \notin Broken /\ Tests[rq.cand] >= Tests[disk]
        BY <1>0, <4>1 DEF CandidateKnown, PromotionKeepsTests, At, Vetted
      <4>4. Promotion.after = rq.cand /\ Promotion.before = disk
        BY DEF Promotion
      <4>5. ASSUME NEW s \in DOMAIN library', library'[s] # None
            PROVE  /\ library'[s].after \notin Broken
                   /\ Tests[library'[s].after] >= Tests[library'[s].before]
        BY <1>0, <4>1, <4>2, <4>3, <4>4, <4>5, PromotedEntries DEF LibraryIsVetted
      <4> QED
        BY <4>1, <4>5 DEF LibraryIsVetted
    <3> QED
      BY <3>2, <3>3
  <2>2. CASE Replay
    <3>1. approver' = approver
      BY <2>2 DEF Replay
    <3>2. CASE library' = library
      BY <1>0, <3>1, <3>2 DEF LibraryIsVetted
    <3>3. CASE library' # library
      <4>1. Match # None /\ MarkUsed /\ rq.pc = "escalate"
        BY <1>0, <2>2, <3>3, ReplayFields
      <4>2. Signature \in Tasks \union {Diff}
        BY <1>0, <4>1 DEF Signature, RequestKnown, At
      <4>3. Signature \in DOMAIN library /\ Match = library[Signature]
        BY <1>0, <4>2 DEF Match
      <4>4. ASSUME NEW s \in DOMAIN library', library'[s] # None
            PROVE  /\ library'[s].after \notin Broken /\ approver = "user"
                   /\ Tests[library'[s].after] >= Tests[library'[s].before]
        <5>1. CASE s = Signature
          BY <1>0, <4>1, <4>2, <4>3, <5>1, UsedEntries DEF LibraryIsVetted
        <5>2. CASE s # Signature
          BY <1>0, <4>1, <4>2, <4>4, <5>2, UsedEntries DEF LibraryIsVetted
        <5> QED
          BY <5>1, <5>2
      <4> QED
        BY <3>1, <4>4 DEF LibraryIsVetted
    <3> QED
      BY <3>2, <3>3
  <2>3. CASE ~ Promote /\ ~ Replay
    BY <1>0, <2>3, LibraryFrame DEF LibraryIsVetted
  <2> QED
    BY <2>1, <2>2, <2>3
<1> QED
  BY <1>1, <1>2

LEMMA StepFiled ==
  ASSUME IInv, Next
  PROVE  FiledByTask'
<1>0. /\ rq \in LocalStates /\ RequestKnown /\ FiledByTask /\ CandidateKnown /\ TypeOK
      /\ library \in [Tasks \union {Diff} -> Entries \union {None}]
  BY DEF IInv, TypeOK
<1>1. rq.pc \in {"promote", "escalate"} =>
        Signature \in {Diff, rq.task} /\ Signature \in Tasks \union {Diff} /\ rq.task \in Tasks
  BY <1>0 DEF Signature, RequestKnown, At
<1>2. (\A s \in Tasks : library[s] # None => library[s].task = s)'
  <2>1. CASE library' = library
    BY <1>0, <2>1 DEF FiledByTask
  <2>2. CASE Promote /\ library' # library
    <3>1. PromoteOperation /\ rq.pc = "promote"
      BY <2>2, PromoteFields
    <3>2. Promotion.task = rq.task
      BY DEF Promotion
    <3>3. ASSUME NEW s \in Tasks, library'[s] # None PROVE library'[s].task = s
      BY <1>0, <1>1, <3>1, <3>2, <3>3, PromotedEntries, ContentAssumption DEF FiledByTask
    <3> QED
      BY <3>3
  <2>3. CASE Replay /\ library' # library
    <3>1. Match # None /\ MarkUsed /\ rq.pc = "escalate"
      BY <1>0, <2>3, ReplayFields
    <3>2. ASSUME NEW s \in Tasks, library'[s] # None PROVE library'[s].task = s
      <4>1. CASE s = Signature
        BY <1>0, <1>1, <3>1, <4>1, UsedEntries DEF FiledByTask, Match
      <4>2. CASE s # Signature
        BY <1>0, <1>1, <3>1, <3>2, <4>2, UsedEntries DEF FiledByTask
      <4> QED
        BY <4>1, <4>2
    <3> QED
      BY <3>2
  <2> QED
    BY <2>1, <2>2, <2>3, LibraryFrame
<1>3. /\ (At("trust") /\ rq.author = "library" /\ ~ IsDiff => library[Signature].task = rq.task)'
      /\ (At("verify") => rq.author = "request")'
      /\ (At("promote") => rq.author = "escalation")'
  <2> USE DEF At
  <2>1. CASE Stop
    BY <2>1, StopFields
  <2>2. CASE Begin
    BY <2>2, BeginFields
  <2>3. CASE CheckKey \/ Gate \/ Scan \/ ScanTool \/ ScanDiff \/ Context
    BY <1>0, <2>1, <2>3, EarlyFields, GotoFields
  <2>4. CASE Verify
    BY <1>0, <2>4, VerifyFields DEF CandidateKnown, Verify, FiledByTask
  <2>5. CASE RefineIntent \/ Classify \/ ClassifyDiff
    BY <1>0, <2>1, <2>5, IntentFields, ClassifyFields
  <2>6. CASE Heal \/ HealExhausted
    BY <1>0, <2>6, HealFields, HealExhaustedFields
  <2>7. CASE Replay
    <3>1. CASE rq'.pc = "context"
      BY <3>1
    <3>2. CASE rq'.pc # "context"
      <4>1. /\ Match # None /\ MarkUsed /\ rq'.path = rq.path /\ rq'.task = rq.task
            /\ rq'.pc = "trust" /\ rq.pc = "escalate"
        BY <1>0, <2>7, <3>2, ReplayFields DEF SameRequest
      <4>2. library'[Signature].task = Match.task
        BY <1>0, <1>1, <4>1, UsedEntries
      <4>3. ~ IsDiff => Signature = rq.task /\ rq.task \in Tasks
        BY <1>1, <4>1 DEF Signature
      <4>4. ~ IsDiff => Match.task = rq.task
        BY <1>0, <4>1, <4>3 DEF FiledByTask, Match
      <4> QED
        BY <4>1, <4>2, <4>4 DEF Signature, IsDiff
    <3> QED
      BY <3>1, <3>2
  <2>8. CASE Repair
    BY <1>0, <2>1, <2>8, RepairFields DEF AfterRepair
  <2>9. CASE Promote
    BY <1>0, <2>1, <2>9, PromoteFields, GotoFields DEF FiledByTask
  <2>10. CASE Trust \/ Approve \/ ApproveDiff \/ ApproveTool \/ Commit
    BY <1>0, <2>1, <2>10, TrustFields, ApproveFields, CommitFields
  <2> QED
    BY <2>1, <2>2, <2>3, <2>4, <2>5, <2>6, <2>7, <2>8, <2>9, <2>10, EndFields DEF Next, Step
<1> QED
  BY <1>2, <1>3 DEF FiledByTask

LEMMA StepBudgeted ==
  ASSUME IInv, Next
  PROVE  Budgeted'
<1>0. /\ rq \in LocalStates /\ Budgeted /\ rq.asked \in Nat /\ rq.tries \in Nat
      /\ HealAttempts \in Nat /\ RepairAttempts \in Nat /\ CandidateKnown
  BY LimitAssumption DEF IInv, TypeOK, LocalStates
<1> USE DEF Budgeted, ModelCallsAreBounded, At
<1>1. CASE Stop
  BY <1>0, <1>1, StopFields
<1>2. CASE Begin
  BY <1>0, <1>2, BeginFields
<1>3. CASE CheckKey \/ Gate \/ Scan \/ ScanTool \/ ScanDiff \/ Context
  BY <1>0, <1>1, <1>3, EarlyFields, GotoFields
<1>4. CASE Verify
  <2>1. rq.pc = "verify" /\ rq.cand \in Contents
    BY <1>0, <1>4 DEF CandidateKnown, Verify
  <2>2. /\ rq'.pc \in {"heal", "trust"}
        /\ rq'.asked = rq.asked /\ rq'.tries = rq.tries
    BY <1>0, <1>4, <2>1, VerifyFields
  <2> QED
    BY <1>0, <2>1, <2>2
<1>5. CASE RefineIntent
  BY <1>0, <1>1, <1>5, IntentFields
<1>6. CASE Classify \/ ClassifyDiff
  <2>1. Stop \/ rq.pc = "classify"
    BY <1>0, <1>6, ClassifyFields
  <2>2. CASE rq.pc = "classify"
    <3>1. rq.asked <= 1 /\ rq.tries = 0
      BY <1>0, <2>2
    <3>2. Stop \/ (rq'.pc \in {"escalate", "verify"} /\ rq'.asked = rq.asked + 1 /\ rq'.tries = 0)
      BY <1>0, <1>6, <3>1, ClassifyFields
    <3> QED
      BY <1>0, <1>1, <3>1, <3>2
  <2> QED
    BY <1>1, <2>1, <2>2
<1>7. CASE Heal
  BY <1>0, <1>7, HealFields
<1>8. CASE HealExhausted
  BY <1>0, <1>8, HealExhaustedFields
<1>9. CASE Replay
  BY <1>0, <1>9, ReplayFields
<1>10. CASE Repair
  BY <1>0, <1>1, <1>10, RepairFields DEF AfterRepair
<1>11. CASE Promote
  BY <1>0, <1>1, <1>11, PromoteFields, GotoFields
<1>12. CASE Trust
  BY <1>0, <1>1, <1>12, TrustFields
<1>13. CASE Approve \/ ApproveDiff \/ ApproveTool
  BY <1>0, <1>1, <1>13, ApproveFields
<1>14. CASE Commit
  BY <1>0, <1>1, <1>14, CommitFields
<1> QED
  BY <1>1, <1>2, <1>3, <1>4, <1>5, <1>6, <1>7, <1>8, <1>9, <1>10, <1>11, <1>12, <1>13, <1>14,
     EndFields
  DEF Next, Step

LEMMA StepCleared ==
  ASSUME IInv, Next
  PROVE  WaitsWithVerdict' /\ CommitsAreCleared'
<1>0. /\ rq \in LocalStates /\ WaitsWithVerdict /\ CommitsAreCleared /\ CandidateKnown
      /\ None \notin Contents
  BY ContentAssumption DEF IInv, TypeOK
<1> USE DEF WaitsWithVerdict, CommitsAreCleared, At
<1>1. CASE Stop
  BY <1>1, StopFields
<1>2. CASE Begin
  BY <1>2, BeginFields
<1>3. CASE CheckKey \/ Gate \/ Scan \/ ScanTool \/ ScanDiff \/ Context
  BY <1>0, <1>1, <1>3, EarlyFields, GotoFields
<1>4. CASE Verify
  BY <1>0, <1>4, VerifyFields DEF CandidateKnown, Verify
<1>5. CASE RefineIntent \/ Classify \/ ClassifyDiff
  BY <1>0, <1>1, <1>5, IntentFields, ClassifyFields
<1>6. CASE Heal \/ HealExhausted
  BY <1>0, <1>6, HealFields, HealExhaustedFields
<1>7. CASE Replay
  BY <1>0, <1>7, ReplayFields
<1>8. CASE Repair
  BY <1>0, <1>1, <1>8, RepairFields DEF AfterRepair
<1>9. CASE Promote
  BY <1>0, <1>1, <1>9, PromoteFields, GotoFields
<1>10. CASE Trust /\ ~ Stop
  <2>1. UNCHANGED <<disk, guarded>>
    BY <1>10 DEF Trust, store, given
  <2>2. /\ rq'.path = rq.path /\ rq'.cand = rq.cand /\ rq'.author = rq.author
        /\ rq'.approved = None /\ rq'.verdict \in Verdicts /\ rq.cand \in Contents
    BY <1>0, <1>10, TrustFields DEF CandidateKnown, SameRequest, Vetted
  <2> USE DEF Decision, EvaluateTrustGate, Floor, FromEscalation, IsDiff, Weakens
  <2> QED
    BY <1>0, <1>10, <2>1, <2>2, TrustFields
<1>11. CASE (Approve \/ ApproveDiff \/ ApproveTool) /\ ~ Stop
  <2>1. UNCHANGED disk
    BY <1>11 DEF Approve, ApproveDiff, HumanDecides, ApproveTool, store
  <2>2. /\ rq'.pc = "commit" /\ rq'.path = rq.path /\ rq'.cand = rq.cand
        /\ rq'.verdict = rq.verdict /\ rq'.audited = rq.audited /\ rq'.approved = rq.cand
        /\ rq.path = "tool_ingest" \/ approver' = "user"
        /\ rq.pc = "approve"
    BY <1>0, <1>11, ApproveFields DEF SameRequest
  <2> QED
    BY <1>0, <2>1, <2>2 DEF EvaluateTrustGate, Weakens
<1>12. CASE Commit
  BY <1>0, <1>1, <1>12, CommitFields
<1> QED
  BY <1>1, <1>2, <1>3, <1>4, <1>5, <1>6, <1>7, <1>8, <1>9, <1>10, <1>11, <1>12, EndFields
  DEF Next, Step
-----------------------------------------------------------------------------
(* The theorems.                                                           *)

LEMMA InitIInv == Init => IInv
<1> SUFFICES ASSUME Init PROVE IInv
  OBVIOUS
<1>1. TypeOK
  BY IdleTyped, ContentAssumption, LimitAssumption DEF Init, TypeOK
<1>2. DiskIsVerified
  BY ContentAssumption DEF Init, DiskIsVerified, Broken
<1>3. \A s \in DOMAIN library : library[s] = None
  BY DEF Init
<1>4. rq.pc = "idle" /\ rq.asked = 0 /\ rq.approved = None /\ rq.override = "none"
  BY DEF Init, Idle
<1>5. LibraryIsVetted
  BY <1>3 DEF LibraryIsVetted
<1>6. FiledByTask
  BY <1>3, <1>4 DEF Init, FiledByTask, At
<1>7. Budgeted
  BY <1>4, LimitAssumption DEF Budgeted, ModelCallsAreBounded, At
<1> QED
  BY <1>1, <1>2, <1>4, <1>5, <1>6, <1>7
  DEF IInv, RequestKnown, CandidateKnown, PromotionKeepsTests, WaitsWithVerdict,
      CommitsAreCleared, At

LEMMA StutterIInv == IInv /\ UNCHANGED vars => IInv'
<1> SUFFICES ASSUME IInv, UNCHANGED vars PROVE IInv'
  OBVIOUS
<1> USE DEF vars, store, given
<1>1. TypeOK' /\ DiskIsVerified' /\ LibraryIsVetted' /\ RequestKnown' /\ CandidateKnown'
  BY DEF IInv, TypeOK, DiskIsVerified, LibraryIsVetted, RequestKnown, CandidateKnown, Vetted, At
<1>2. PromotionKeepsTests' /\ FiledByTask' /\ Budgeted'
  BY DEF IInv, PromotionKeepsTests, FiledByTask, Budgeted, ModelCallsAreBounded, Signature,
         IsDiff, At
<1>3. WaitsWithVerdict' /\ CommitsAreCleared'
  BY DEF IInv, WaitsWithVerdict, CommitsAreCleared, Decision, EvaluateTrustGate, Floor,
         FromEscalation, IsDiff, Weakens, At
<1> QED
  BY <1>1, <1>2, <1>3 DEF IInv

\* The invariant holds in every state of every behaviour.
THEOREM PipelineInductive == Spec => []IInv
<1>1. IInv /\ [Next]_vars => IInv'
  BY StepTypeOK, StepKnown, StepVerified, StepPromotion, StepFiled, StepBudgeted, StepCleared,
     StutterIInv DEF IInv
<1> QED
  BY InitIInv, <1>1, PTL DEF Spec

\* The store and the local state of a request keep their shapes.
THEOREM PipelineTypeCorrect == Spec => []TypeOK
BY PipelineInductive, PTL DEF IInv

\* Whatever models, human and limits do, the files hold what passed the sandbox.
THEOREM OnlyVerifiedIsCommitted == Spec => []DiskIsVerified
BY PipelineInductive, PTL DEF IInv

\* The library keeps only verified fixes that weaken no test and that the
\* registered approver promoted.
THEOREM PromotionsAreVetted == Spec => []LibraryIsVetted
BY PipelineInductive, PTL DEF IInv

\* A request makes a bounded number of model calls.
THEOREM RequestsAreBounded == Spec => []ModelCallsAreBounded
<1>1. IInv => ModelCallsAreBounded
  BY DEF IInv, Budgeted
<1> QED
  BY <1>1, PipelineInductive, PTL

\* A replayed fix was made for the same instruction, diffs excepted.
THEOREM ReplaysAreFiled == Spec => []ReplaysAnswerTheTask
<1>1. IInv => ReplaysAnswerTheTask
  BY DEF IInv, ReplaysAnswerTheTask, FiledByTask
<1> QED
  BY <1>1, PipelineInductive, PTL

\* What nobody has seen is committed only when nothing speaks against it.
THEOREM SilentCommits == Spec => SilentCommitsAreSafe
<1>1. ASSUME IInv, Commits, rq.path # "tool_modify", rq.approved # rq.cand
      PROVE  /\ rq.verdict.confidence = "high" /\ ~ rq.verdict.contract
             /\ ~ rq.verdict.injected /\ rq.verdict.covered
             /\ ~ Weakens(rq.cand) /\ ~ FromEscalation
             /\ rq.path = "modify" => ~ guarded
  <2>1. Decision(rq.verdict, rq.cand) = "auto_commit"
    BY <1>1 DEF IInv, CommitsAreCleared, Commits
  <2>2. EvaluateTrustGate(rq.verdict, rq.cand) = "auto_commit" /\ ~ Floor
    BY <2>1 DEF Decision
  <2> QED
    BY <2>2 DEF EvaluateTrustGate, Floor, IsDiff
<1>2. IInv /\ [Next]_vars =>
        [Commits /\ rq.path # "tool_modify" /\ rq.approved # rq.cand =>
            /\ rq.verdict.confidence = "high" /\ ~ rq.verdict.contract
            /\ ~ rq.verdict.injected /\ rq.verdict.covered
            /\ ~ Weakens(rq.cand) /\ ~ FromEscalation
            /\ rq.path = "modify" => ~ guarded]_vars
  BY <1>1
<1> QED
  BY <1>2, PipelineInductive, PTL DEF Spec, SilentCommitsAreSafe

\* Tests get weaker only by a change that a human has approved.
THEOREM WeakeningIsApproved == Spec => TestsWeakenOnlyWithApproval
<1>1. ASSUME IInv, Next, Tests[disk'] < Tests[disk]
      PROVE  \/ rq.path = "tool_modify"
             \/ rq.approved = disk' /\ (rq.path # "tool_ingest" => approver = "user")
  <2>1. disk \in Contents /\ Tests[disk] \in Nat
    BY <1>1, ContentAssumption DEF IInv, TypeOK
  <2>2. disk' # disk
    BY <1>1, <2>1
  <2>3. Commit
    BY <1>1, <2>2, DiskFrame
  <2>4. disk' = rq.cand /\ At("commit")
    BY <1>1, <2>2, <2>3, CommitFields DEF IInv, TypeOK, At
  <2>5. Weakens(rq.cand)
    BY <1>1, <2>4 DEF Weakens
  <2>6. EvaluateTrustGate(rq.verdict, rq.cand) = "human_confirm"
    BY <2>5 DEF EvaluateTrustGate
  <2>7. Decision(rq.verdict, rq.cand) # "auto_commit"
    BY <2>6 DEF Decision
  <2> QED
    BY <1>1, <2>4, <2>7 DEF IInv, CommitsAreCleared
<1>2. IInv /\ [Next]_vars =>
        [Tests[disk'] < Tests[disk] =>
            \/ rq.path = "tool_modify"
            \/ rq.approved = disk' /\ (rq.path # "tool_ingest" => approver = "user")]_vars
  BY <1>1
<1> QED
  BY <1>2, PipelineInductive, PTL DEF Spec, TestsWeakenOnlyWithApproval

\* A change that a gate rejects is committed only by an override: of the TrustGate,
\* on record and approved; of the security gate, on record and given to modify.
THEOREM RejectionsNeedOverrides == Spec => RejectionsAreOverridden
<1>1. ASSUME IInv, Commits
      PROVE  /\ EvaluateTrustGate(rq.verdict, rq.cand) = "abort" =>
                   rq.audited /\ rq.approved = rq.cand
             /\ GateBlocks(rq.cand) => rq.path = "modify" /\ rq.override = "spent"
  BY <1>1 DEF IInv, CommitsAreCleared, CandidateKnown, Vetted, RequestKnown, Commits, At
<1>2. IInv /\ [Next]_vars =>
        [Commits =>
           /\ EvaluateTrustGate(rq.verdict, rq.cand) = "abort" =>
                  rq.audited /\ rq.approved = rq.cand
           /\ GateBlocks(rq.cand) => rq.path = "modify" /\ rq.override = "spent"]_vars
  BY <1>1
<1> QED
  BY <1>2, PipelineInductive, PTL DEF Spec, RejectionsAreOverridden

-----------------------------------------------------------------------------
(* Sums over finite sets.                                                  *)

\* The sum of the values of f, and a solution g of the recursion that defines it.
Total(f) == MapThenSumSet(LAMBDA x : f[x], DOMAIN f)

Some(s) == CHOOSE x \in s : TRUE
Sums(f, S, g) ==
    g = [s \in SUBSET S |-> IF s = {} THEN 0 ELSE f[Some(s)] + g[s \ {Some(s)}]]

\* The sum of the values of a function, as the community modules define it: some solution
\* of the recursion over the subsets of its domain.
LEMMA TotalIsASum == \A f : Total(f) = (CHOOSE g : Sums(f, DOMAIN f, g))[DOMAIN f]
BY DEF Total, MapThenSumSet, MapThenFoldSet, Sums, Some

\* A nonempty family of subsets of a finite set has a smallest member: induction, for the
\* facts below.
LEMMA SmallestSet ==
  ASSUME NEW S, IsFiniteSet(S), NEW C, C \subseteq SUBSET S, C # {}
  PROVE  \E T \in C : \A U \in C : U \subseteq T => U = T
<1>1. IsWellFoundedOn(StrictSubsetOrdering(S), SUBSET S)
  BY FS_StrictSubsetOrderingWellFounded, FS_FiniteSubsetsOfFinite
<1>2. \E T \in C : \A U \in C : <<U, T>> \notin StrictSubsetOrdering(S)
  BY <1>1, WFMin
<1> QED
  BY <1>2 DEF StrictSubsetOrdering

LEMMA SomeIsIn == \A s : s # {} => Some(s) \in s
BY DEF Some

\* The recursion has at most one solution: two agree on the sets that they share.
LEMMA SumsAgree ==
  ASSUME NEW S, IsFiniteSet(S), NEW f, NEW T, NEW g, NEW U, NEW h,
         T \subseteq S, U \subseteq S, Sums(f, T, g), Sums(f, U, h)
  PROVE  \A s \in SUBSET (T \intersect U) : g[s] = h[s]
<1> DEFINE C == {s \in SUBSET S : s \subseteq T /\ s \subseteq U /\ g[s] # h[s]}
<1> SUFFICES ASSUME NEW q \in SUBSET (T \intersect U), g[q] # h[q] PROVE FALSE
  OBVIOUS
<1>1. PICK s \in C : \A r \in C : r \subseteq s => r = s
  <2>1. C \subseteq SUBSET S /\ q \in C
    OBVIOUS
  <2> HIDE DEF C
  <2> QED
    BY <2>1, SmallestSet
<1>2. CASE s = {}
  BY <1>1, <1>2 DEF Sums
<1>3. CASE s # {}
  <2>1. Some(s) \in s
    BY <1>3, SomeIsIn
  <2> DEFINE r == s \ {Some(s)}
  <2>2. s \in SUBSET T /\ s \in SUBSET U /\ r \in SUBSET S
    BY <1>1
  <2>3. g[s] = f[Some(s)] + g[r] /\ h[s] = f[Some(s)] + h[r]
    BY <1>3, <2>2 DEF Sums
  <2>4. r # s /\ r \subseteq s /\ r \subseteq T /\ r \subseteq U
    BY <2>1, <2>2
  <2>5. g[r] = h[r]
    BY <1>1, <2>2, <2>4
  <2> QED
    BY <1>1, <2>3, <2>5
<1> QED
  BY <1>2, <1>3

\* It has one on every finite set, built from those of the smaller sets.
LEMMA SumsExist ==
  ASSUME NEW S, IsFiniteSet(S), NEW f, \A x \in S : f[x] \in Int
  PROVE  \A T \in SUBSET S : \E g \in [SUBSET T -> Int] : Sums(f, T, g)
<1> DEFINE Has(T) == \E g \in [SUBSET T -> Int] : Sums(f, T, g)
           C == {T \in SUBSET S : ~ Has(T)}
<1> SUFFICES ASSUME C # {} PROVE FALSE
  OBVIOUS
<1>1. PICK T \in C : \A U \in C : U \subseteq T => U = T
  <2>1. C \subseteq SUBSET S
    OBVIOUS
  <2> HIDE DEF C
  <2> QED
    BY <2>1, SmallestSet
<1>0. T \in SUBSET S /\ ~ Has(T) /\ \A U \in SUBSET T : U # T => Has(U)
  <2> HIDE DEF Has
  <2> QED
    BY <1>1
<1>2. T # {}
  <2> DEFINE g == [s \in SUBSET {} |-> 0]
  <2>1. g \in [SUBSET {} -> Int]
    OBVIOUS
  <2>2. g = [s \in SUBSET {} |-> IF s = {} THEN 0 ELSE f[Some(s)] + g[s \ {Some(s)}]]
    <3>1. \A s \in SUBSET {} : 0 = IF s = {} THEN 0 ELSE f[Some(s)] + g[s \ {Some(s)}]
      OBVIOUS
    <3> QED
      BY <3>1, Zenon
  <2>3. Has({})
    BY <2>1, <2>2 DEF Sums
  <2> HIDE DEF Has, g
  <2> QED
    BY <1>0, <2>3
<1> DEFINE Fit(x, g) == g \in [SUBSET (T \ {x}) -> Int] /\ Sums(f, T \ {x}, g)
           G(x) == CHOOSE g : Fit(x, g)
<1>3. ASSUME NEW x \in T
      PROVE  G(x) \in [SUBSET (T \ {x}) -> Int] /\ Sums(f, T \ {x}, G(x))
  <2>1. Has(T \ {x})
    BY <1>0
  <2>2. \E g : Fit(x, g)
    BY <2>1
  <2>3. Fit(x, G(x))
    <3> HIDE DEF Fit
    <3> QED
      BY <2>2
  <2> QED
    BY <2>3
<1> DEFINE first == Some(T)
           other(s) == CHOOSE x : x \in T /\ x \notin s
           sum(s) == IF s = T THEN f[first] + G(first)[T \ {first}] ELSE G(other(s))[s]
           g == [s \in SUBSET T |-> sum(s)]
<1>4. first \in T
  BY <1>2, SomeIsIn
<1>5. ASSUME NEW s \in SUBSET T, s # T
      PROVE  other(s) \in T /\ other(s) \notin s /\ sum(s) = G(other(s))[s]
  <2>1. \E x : x \in T /\ x \notin s
    BY <1>5
  <2> QED
    BY <1>5, <2>1
<1> HIDE DEF G, first, other, Has
<1>6. ASSUME NEW s \in SUBSET T, NEW x \in T, x \notin s
      PROVE  sum(s) = G(x)[s] /\ sum(s) \in Int
  <2>1. s # T /\ s \in SUBSET (T \ {x})
    BY <1>6
  <2>2. other(s) \in T /\ other(s) \notin s /\ sum(s) = G(other(s))[s]
    BY <1>5, <2>1
  <2>3. s \in SUBSET (T \ {other(s)})
    BY <2>2
  <2>4. G(x)[s] = G(other(s))[s]
    <3>1. Sums(f, T \ {x}, G(x)) /\ Sums(f, T \ {other(s)}, G(other(s)))
      BY <1>3, <2>2
    <3>2. T \ {x} \subseteq S /\ T \ {other(s)} \subseteq S
      BY <1>0
    <3> HIDE DEF sum
    <3> QED
      BY <2>1, <2>3, <3>1, <3>2, SumsAgree
  <2>5. G(x)[s] \in Int
    BY <1>3, <2>1
  <2> QED
    BY <2>2, <2>4, <2>5
<1>7. sum(T) = f[first] + sum(T \ {first}) /\ sum(T) \in Int
  <2>1. sum(T \ {first}) = G(first)[T \ {first}] /\ sum(T \ {first}) \in Int
    BY <1>4, <1>6
  <2>2. f[first] \in Int
    BY <1>0, <1>4
  <2> QED
    BY <2>1, <2>2
<1>8. ASSUME NEW s \in SUBSET T, s # T, s # {}
      PROVE  sum(s) = f[Some(s)] + sum(s \ {Some(s)})
  <2>1. /\ other(s) \in T /\ other(s) \notin s /\ sum(s) = G(other(s))[s]
    BY <1>5, <1>8
  <2>2. /\ s \in SUBSET (T \ {other(s)}) /\ s \ {Some(s)} \in SUBSET T
        /\ other(s) \notin s \ {Some(s)}
    BY <2>1
  <2>3. Sums(f, T \ {other(s)}, G(other(s)))
    BY <1>3, <2>1
  <2>4. G(other(s))[s] = f[Some(s)] + G(other(s))[s \ {Some(s)}]
    BY <1>8, <2>2, <2>3 DEF Sums
  <2>5. sum(s \ {Some(s)}) = G(other(s))[s \ {Some(s)}]
    BY <1>6, <2>1, <2>2
  <2> QED
    BY <2>1, <2>4, <2>5
<1>9. sum({}) = 0
  <2>1. sum({}) = G(first)[{}]
    BY <1>4, <1>6
  <2>2. Sums(f, T \ {first}, G(first)) /\ {} \in SUBSET (T \ {first})
    BY <1>3, <1>4
  <2>3. G(first)[{}] = 0
    BY <2>2 DEF Sums
  <2> QED
    BY <2>1, <2>3
<1>10. ASSUME NEW s \in SUBSET T
       PROVE  /\ sum(s) \in Int
              /\ sum(s) = IF s = {} THEN 0 ELSE f[Some(s)] + sum(s \ {Some(s)})
  <2>1. CASE s = T
    BY <1>2, <1>7, <2>1 DEF first
  <2>2. CASE s = {}
    BY <1>9, <2>2
  <2>3. CASE s # T /\ s # {}
    <3>1. PICK x \in T : x \notin s
      BY <2>3
    <3> QED
      BY <1>6, <1>8, <2>3, <3>1
  <2> QED
    BY <2>1, <2>2, <2>3
<1> HIDE DEF sum
<1>11. g \in [SUBSET T -> Int]
  BY <1>10
<1>12. Sums(f, T, g)
  <2>1. ASSUME NEW s \in SUBSET T
        PROVE  sum(s) = IF s = {} THEN 0 ELSE f[Some(s)] + g[s \ {Some(s)}]
    <3>1. s \ {Some(s)} \in SUBSET T
      OBVIOUS
    <3> QED
      BY <1>10, <3>1
  <2> QED
    BY <2>1 DEF Sums
<1> QED
  BY <1>0, <1>11, <1>12 DEF Has

-----------------------------------------------------------------------------
(* What a sum is.                                                          *)

\* So a sum is the value of a solution whose values are integers.
LEMMA TotalUnfolds ==
  ASSUME NEW S, IsFiniteSet(S), NEW f, DOMAIN f = S, \A x \in S : f[x] \in Int
  PROVE  \E g \in [SUBSET S -> Int] : Sums(f, S, g) /\ Total(f) = g[S]
<1>1. PICK g \in [SUBSET S -> Int] : Sums(f, S, g)
  BY SumsExist
<1> DEFINE h == CHOOSE k : Sums(f, S, k)
<1>2. Sums(f, S, h)
  BY <1>1
<1>3. Total(f) = h[S]
  BY TotalIsASum
<1> HIDE DEF h
<1>4. h[S] = g[S]
  BY <1>1, <1>2, SumsAgree
<1> QED
  BY <1>1, <1>3, <1>4

\* Such a solution, and the recursion taken at an element of one's choice.
IntSums(f, S, g) ==
    /\ Sums(f, S, g) /\ \A x \in S : f[x] \in Int /\ \A s \in SUBSET S : g[s] \in Int

FirstIs(f, g, T, x) == g[T] = f[x] + g[T \ {x}]

\* In which order is all the same.
LEMMA AnyElementFirst ==
  ASSUME NEW S, IsFiniteSet(S), NEW f, NEW g, IntSums(f, S, g)
  PROVE  \A T \in SUBSET S : \A x \in T : FirstIs(f, g, T, x)
<1> USE DEF IntSums, FirstIs
<1> DEFINE C == {T \in SUBSET S : ~ \A x \in T : g[T] = f[x] + g[T \ {x}]}
<1> SUFFICES ASSUME NEW Q \in C PROVE FALSE
  OBVIOUS
<1>1. PICK T \in C : \A U \in C : U \subseteq T => U = T
  <2>1. C \subseteq SUBSET S /\ C # {}
    OBVIOUS
  <2> HIDE DEF C
  <2> QED
    BY <2>1, SmallestSet
<1>2. PICK x \in T : g[T] # f[x] + g[T \ {x}]
  BY <1>1
<1> DEFINE y == Some(T)
<1>3. y \in T
  BY <1>2, SomeIsIn
<1>4. g[T] = f[y] + g[T \ {y}]
  BY <1>1, <1>2 DEF Sums
<1> HIDE DEF y
<1>5. x # y
  BY <1>2, <1>4
<1> DEFINE R == (T \ {x}) \ {y}
<1>6. \A U \in SUBSET T : U # T => \A z \in U : g[U] = f[z] + g[U \ {z}]
  BY <1>1
<1>7. g[T \ {y}] = f[x] + g[R]
  <2> DEFINE P == T \ {y}
  <2>1. P \ {x} = R /\ x \in P /\ P # T /\ P \in SUBSET T
    BY <1>3, <1>5
  <2> HIDE DEF P, R
  <2>2. g[P] = f[x] + g[P \ {x}]
    BY <1>6, <2>1
  <2> QED
    BY <2>1, <2>2 DEF P
<1>8. g[T \ {x}] = f[y] + g[R]
  <2>1. y \in T \ {x} /\ T \ {x} # T /\ T \ {x} \in SUBSET T
    BY <1>3, <1>5
  <2> QED
    BY <1>6, <2>1
<1>9. f[x] \in Int /\ f[y] \in Int /\ g[R] \in Int
  BY <1>1, <1>2, <1>3
<1> QED
  BY <1>2, <1>4, <1>7, <1>8, <1>9

\* The sum of nothing.
LEMMA EmptyTotal == \A f : DOMAIN f = {} => Total(f) = 0
<1> SUFFICES ASSUME NEW f, DOMAIN f = {} PROVE Total(f) = 0
  OBVIOUS
<1>1. \A x \in {} : f[x] \in Int
  OBVIOUS
<1>2. PICK g \in [SUBSET {} -> Int] : Sums(f, {}, g) /\ Total(f) = g[{}]
  BY <1>1, TotalUnfolds, FS_EmptySet
<1> QED
  BY <1>2 DEF Sums

LEMMA TotalIsTyped ==
  ASSUME NEW S, IsFiniteSet(S), NEW f \in [S -> Int]
  PROVE  Total(f) \in Int
<1>1. PICK g \in [SUBSET S -> Int] : Sums(f, S, g) /\ Total(f) = g[S]
  BY TotalUnfolds
<1> QED
  BY <1>1

\* One more summand.
LEMMA TotalAdds ==
  ASSUME NEW S, IsFiniteSet(S), NEW f \in [S -> Int],
         NEW x, x \notin S, NEW h \in [S \union {x} -> Int], \A s \in S : h[s] = f[s]
  PROVE  Total(f) \in Int /\ Total(h) = Total(f) + h[x]
<1>1. IsFiniteSet(S \union {x})
  BY FS_AddElement
<1>2. PICK g \in [SUBSET S -> Int] : Sums(f, S, g) /\ Total(f) = g[S]
  BY TotalUnfolds
<1>3. PICK k \in [SUBSET (S \union {x}) -> Int] : Sums(h, S \union {x}, k)
                                                  /\ Total(h) = k[S \union {x}]
  BY <1>1, TotalUnfolds
<1>4. k[S \union {x}] = h[x] + k[S]
  <2>1. (S \union {x}) \ {x} = S
    OBVIOUS
  <2> DEFINE W == S \union {x}
  <2>2. x \in W /\ W \in SUBSET W /\ IsFiniteSet(W) /\ IntSums(h, W, k)
    BY <1>1, <1>3 DEF IntSums
  <2> HIDE DEF W
  <2>3. \A T \in SUBSET W : \A y \in T : FirstIs(h, k, T, y)
    BY <2>2, AnyElementFirst
  <2>4. k[W] = h[x] + k[W \ {x}]
    BY <2>2, <2>3 DEF FirstIs
  <2> QED
    BY <2>1, <2>4 DEF W
<1>5. k[S] = g[S]
  <2> DEFINE k2 == [s \in SUBSET S |-> k[s]]
  <2>1. Sums(f, S, k2)
    <3>1. ASSUME NEW s \in SUBSET S
          PROVE  k[s] = IF s = {} THEN 0 ELSE f[Some(s)] + k2[s \ {Some(s)}]
      <4>1. s \in SUBSET (S \union {x}) /\ s \ {Some(s)} \in SUBSET S
        OBVIOUS
      <4>2. s # {} => f[Some(s)] = h[Some(s)]
        BY SomeIsIn
      <4>3. k[s] = IF s = {} THEN 0 ELSE h[Some(s)] + k[s \ {Some(s)}]
        BY <1>3, <4>1 DEF Sums
      <4> QED
        BY <4>1, <4>2, <4>3
    <3> QED
      BY <3>1, Zenon DEF Sums
  <2>2. k2[S] = g[S]
    <3> HIDE DEF k2
    <3> QED
      BY <1>2, <2>1, SumsAgree
  <2> QED
    BY <2>2
<1> QED
  BY <1>2, <1>3, <1>4, <1>5

\* A summand changes.
LEMMA TotalMoves ==
  ASSUME NEW S, IsFiniteSet(S), NEW f \in [S -> Int], NEW h \in [S -> Int],
         NEW x \in S, \A s \in S \ {x} : h[s] = f[s]
  PROVE  Total(f) \in Int /\ Total(h) = Total(f) - f[x] + h[x]
<1> DEFINE R == S \ {x}
           r == [s \in R |-> f[s]]
<1>1. IsFiniteSet(R) /\ R \union {x} = S /\ x \notin R /\ r \in [R -> Int]
  BY FS_RemoveElement
<1>2. /\ \A s \in R : f[s] = r[s] /\ h[s] = r[s]
      /\ f \in [R \union {x} -> Int] /\ h \in [R \union {x} -> Int]
  BY <1>1
<1>3. f[x] \in Int /\ h[x] \in Int
  OBVIOUS
<1> HIDE DEF R, r
<1>4. Total(r) \in Int /\ Total(f) = Total(r) + f[x]
  BY <1>1, <1>2, TotalAdds
<1>5. Total(h) = Total(r) + h[x]
  BY <1>1, <1>2, TotalAdds
<1> QED
  BY <1>3, <1>4, <1>5

\* One summand of a part of the function.
LEMMA TotalOfPart ==
  ASSUME NEW S, NEW f \in [S -> Int], NEW T \in SUBSET S, IsFiniteSet(T), NEW x \in T
  PROVE  LET R == T \ {x}
             r == [s \in R |-> f[s]]
             t == [s \in T |-> f[s]]
         IN  f[x] \in Int /\ Total(r) \in Int /\ Total(t) = Total(r) + f[x]
<1> DEFINE R == T \ {x}
           r == [s \in R |-> f[s]]
           t == [s \in T |-> f[s]]
<1>1. IsFiniteSet(R) /\ R \union {x} = T /\ x \notin R /\ r \in [R -> Int]
  BY FS_RemoveElement
<1>2. (\A s \in R : t[s] = r[s]) /\ t \in [R \union {x} -> Int]
  BY <1>1
<1>3. t[x] = f[x] /\ f[x] \in Int
  OBVIOUS
<1> SUFFICES Total(r) \in Int /\ Total(t) = Total(r) + t[x]
  BY <1>3
<1> HIDE DEF R, r, t
<1> QED
  BY <1>1, <1>2, TotalAdds

\* One element of a part of a set.
LEMMA CardinalityOfPart ==
  ASSUME NEW T, IsFiniteSet(T), NEW x \in T, NEW D
  PROVE  /\ Cardinality(D \intersect (T \ {x})) \in Nat
         /\ Cardinality(D \intersect T) = Cardinality(D \intersect (T \ {x}))
                                          + IF x \in D THEN 1 ELSE 0
<1> DEFINE W == D \intersect T
<1>1. IsFiniteSet(W)
  BY FS_Subset
<1>2. D \intersect (T \ {x}) = W \ {x} /\ (x \in W <=> x \in D)
  OBVIOUS
<1> HIDE DEF W
<1>3. /\ IsFiniteSet(W \ {x})
      /\ Cardinality(W \ {x}) = IF x \in W THEN Cardinality(W) - 1 ELSE Cardinality(W)
  BY <1>1, FS_RemoveElement
<1>4. Cardinality(W) \in Nat /\ Cardinality(W \ {x}) \in Nat
  BY <1>1, <1>3, FS_CardinalityType
<1>5. Cardinality(W) = Cardinality(W \ {x}) + IF x \in W THEN 1 ELSE 0
  BY <1>3, <1>4
<1> QED
  BY <1>2, <1>4, <1>5 DEF W

\* A sum whose summands fall below zero by no more than a in A and b in B.
LEMMA TotalAtLeast ==
  ASSUME NEW S, IsFiniteSet(S), NEW f \in [S -> Int],
         NEW A \in SUBSET S, NEW B \in SUBSET S, NEW a \in Nat, NEW b \in Nat,
         \A x \in S : f[x] + (IF x \in A THEN a ELSE 0) + (IF x \in B THEN b ELSE 0) >= 0
  PROVE  Total(f) + a * Cardinality(A) + b * Cardinality(B) >= 0
<1> DEFINE part(T) == [x \in T |-> f[x]]
           Low(T) == ~ (Total(part(T)) + a * Cardinality(A \intersect T)
                                       + b * Cardinality(B \intersect T) >= 0)
           C == {T \in SUBSET S : Low(T)}
<1> SUFFICES ASSUME Low(S) PROVE FALSE
  <2>1. part(S) = f /\ A \intersect S = A /\ B \intersect S = B
    OBVIOUS
  <2> HIDE DEF part
  <2> QED
    BY <2>1
<1>1. PICK T \in C : \A U \in C : U \subseteq T => U = T
  <2>1. C \subseteq SUBSET S /\ S \in C
    <3> HIDE DEF Low
    <3> QED
      OBVIOUS
  <2> HIDE DEF C
  <2> QED
    BY <2>1, SmallestSet
<1>2. T \in SUBSET S /\ Low(T) /\ IsFiniteSet(T)
  <2>1. T \in SUBSET S /\ Low(T)
    <3> HIDE DEF Low
    <3> QED
      BY <1>1
  <2> HIDE DEF Low
  <2> QED
    BY <2>1, FS_Subset
<1>3. T # {}
  <2> SUFFICES ASSUME T = {} PROVE FALSE
    OBVIOUS
  <2>1. Total(part(T)) = 0
    BY EmptyTotal
  <2>2. Cardinality(A \intersect T) = 0 /\ Cardinality(B \intersect T) = 0
    <3>1. A \intersect T = {} /\ B \intersect T = {}
      OBVIOUS
    <3> QED
      BY <3>1, FS_EmptySet
  <2> HIDE DEF part
  <2> QED
    BY <1>2, <2>1, <2>2
<1>4. PICK x \in T : TRUE
  BY <1>3
<1> DEFINE R == T \ {x}
<1>5. ~ Low(R)
  <2>1. R \in SUBSET S /\ R \subseteq T /\ R # T
    BY <1>2, <1>4
  <2> HIDE DEF Low, R
  <2> QED
    BY <1>1, <2>1
<1>6. Total(part(R)) \in Int /\ Total(part(T)) = Total(part(R)) + f[x] /\ f[x] \in Int
  BY <1>2, <1>4, TotalOfPart
<1>7. ASSUME NEW D \in SUBSET S
      PROVE  /\ Cardinality(D \intersect R) \in Nat
             /\ Cardinality(D \intersect T) = Cardinality(D \intersect R)
                                              + IF x \in D THEN 1 ELSE 0
  BY <1>2, <1>4, CardinalityOfPart
<1> HIDE DEF R, part
<1>8. f[x] + (IF x \in A THEN a ELSE 0) + (IF x \in B THEN b ELSE 0) >= 0
  BY <1>2, <1>4
<1> DEFINE i == Cardinality(A \intersect R)
           j == Cardinality(B \intersect R)
<1>9. /\ i \in Nat /\ j \in Nat
      /\ a * Cardinality(A \intersect T) = a * i + IF x \in A THEN a ELSE 0
      /\ b * Cardinality(B \intersect T) = b * j + IF x \in B THEN b ELSE 0
  <2>1. /\ i \in Nat /\ Cardinality(A \intersect T) = i + IF x \in A THEN 1 ELSE 0
        /\ j \in Nat /\ Cardinality(B \intersect T) = j + IF x \in B THEN 1 ELSE 0
    BY <1>7
  <2> HIDE DEF i, j
  <2>2. a * (i + 1) = a * i + a /\ b * (j + 1) = b * j + b
    BY <2>1
  <2>3. a * Cardinality(A \intersect T) = a * i + IF x \in A THEN a ELSE 0
    <3>1. CASE x \in A  BY <2>1, <2>2, <3>1
    <3>2. CASE x \notin A  BY <2>1, <3>2
    <3> QED  BY <3>1, <3>2
  <2>4. b * Cardinality(B \intersect T) = b * j + IF x \in B THEN b ELSE 0
    <3>1. CASE x \in B  BY <2>1, <2>2, <3>1
    <3>2. CASE x \notin B  BY <2>1, <3>2
    <3> QED  BY <3>1, <3>2
  <2> QED
    BY <2>1, <2>3, <2>4
<1>10. a * i \in Int /\ b * j \in Int
  <2> HIDE DEF i, j
  <2> QED
    BY <1>9
<1>11. Total(part(R)) + a * i + b * j >= 0
  BY <1>5, <1>6
<1>12. ~ (Total(part(T)) + a * Cardinality(A \intersect T) + b * Cardinality(B \intersect T) >= 0)
  BY <1>2
<1> HIDE DEF i, j, Low, C
<1> QED
  BY <1>6, <1>8, <1>9, <1>10, <1>11, <1>12

\* A sum of zeros.
LEMMA TotalOfZeros ==
  ASSUME NEW S, IsFiniteSet(S), NEW f \in [S -> Int], \A x \in S : f[x] = 0
  PROVE  Total(f) = 0
<1>1. PICK g \in [SUBSET S -> Int] : Sums(f, S, g) /\ Total(f) = g[S]
  BY TotalUnfolds
<1> DEFINE C == {T \in SUBSET S : g[T] # 0}
<1> SUFFICES ASSUME S \in C PROVE FALSE
  BY <1>1
<1>2. PICK T \in C : \A U \in C : U \subseteq T => U = T
  <2>1. C \subseteq SUBSET S /\ C # {}
    OBVIOUS
  <2> HIDE DEF C
  <2> QED
    BY <2>1, SmallestSet
<1>3. T # {}
  BY <1>1, <1>2 DEF Sums
<1> DEFINE r == T \ {Some(T)}
<1>4. Some(T) \in T /\ r \subseteq T /\ r # T /\ r \in SUBSET S
  BY <1>2, <1>3, SomeIsIn
<1>5. g[r] = 0
  BY <1>2, <1>4
<1>6. g[T] = f[Some(T)] + g[r]
  BY <1>1, <1>2, <1>3 DEF Sums
<1>7. f[Some(T)] = 0
  BY <1>2, <1>4
<1> QED
  BY <1>2, <1>5, <1>6, <1>7

-----------------------------------------------------------------------------
(* The states of callLlm.                                                  *)

\* A call that is sent has a provider, and whoever pays has used the override up.
Knows(l) ==
    /\ l.pc \in {"send", "settle"} => l.provider \in Providers
    /\ l.pc \in {"check", "provider", "send", "settle"} => ~ l.override
ProvidersKnown == \A p \in Procs : Knows(local[p])

CallsTyped == LlmTypeOK /\ ProvidersKnown /\ counts.overrides <= counts.commands

\* The first state is typed.
LEMMA CallsStartTyped == LlmInit => CallsTyped
BY CostAssumption, CallAssumption
   DEF LlmInit, CallsTyped, LlmTypeOK, ProvidersKnown, Knows, Out, CallLabels, Tiers

\* The record of a call.
Local == [pc : CallLabels, attempt : 1..Attempts, override : BOOLEAN,
          tier : Tiers, reserved : {0, Estimate},
          provider : Providers \union {Unset}, tokens : 0..MaxTokens,
          transient : BOOLEAN]

LEMMA Product == ASSUME NEW a \in Nat, NEW b \in Nat PROVE a * b \in Nat
OBVIOUS

\* Products grow with their factors.
LEMMA Monotone ==
  ASSUME NEW a \in Nat, NEW i \in Nat, NEW j \in Nat, i <= j
  PROVE  a * i <= a * j /\ i * a <= j * a /\ a * i \in Nat /\ a * j \in Nat
OBVIOUS

\* What a call costs.
LEMMA CostsAreBounded ==
  ASSUME NEW n \in 0..MaxTokens, NEW q \in Providers, NEW t \in Tiers
  PROVE  n * Price[q][t] \in Nat /\ n * Price[q][t] <= MaxCost
<1>1. Price[q][t] \in Nat /\ MaxTokens * Price[q][t] <= MaxCost /\ MaxTokens \in Nat
      /\ MaxCost \in Nat
  BY CostAssumption
<1> DEFINE c == Price[q][t]
<1>2. c \in Nat /\ n \in Nat /\ n <= MaxTokens /\ MaxTokens * c <= MaxCost
  BY <1>1
<1> HIDE DEF c
<1>3. n * c <= MaxTokens * c /\ n * c \in Nat /\ MaxTokens * c \in Nat
  BY <1>1, <1>2, Monotone
<1> QED
  BY <1>1, <1>2, <1>3 DEF c

\* A process that runs no command.
LEMMA OutIsTyped == Out \in Local
BY CallAssumption, CostAssumption DEF Out, Local, CallLabels, Tiers

\* A step leaves every other call alone.
Moves(p, l) == l \in Local /\ local' = [local EXCEPT ![p] = l]

\* The variables that calls share.
BooksTyped ==
    /\ spent \in Int /\ failures \in 0..Threshold /\ openFor \in 0..Cooldown
    /\ chosen \in Providers \union {Unset}
    /\ bills \in [paid : Nat, settled : Nat, stuck : Nat]
    /\ counts \in [commands : 0..MaxCommands, overrides : 0..MaxCommands, calls : 0..MaxCalls,
                   kills : 0..MaxUpsets, faults : 0..MaxUpsets, choices : 0..MaxUpsets]
    /\ counts.overrides <= counts.commands

\* The typing, by what a step of one process changes and what it leaves alone.
LEMMA TypingSplits ==
    CallsTyped <=> BooksTyped /\ local \in [Procs -> Local] /\ \A p \in Procs : Knows(local[p])
BY DEF CallsTyped, BooksTyped, LlmTypeOK, ProvidersKnown, Knows, Local

\* A step is typed when the books are and the record of the one call is.
LEMMA MovesAreTyped ==
  ASSUME NEW p \in Procs, CallsTyped, BooksTyped', NEW l, Moves(p, l), Knows(l)
  PROVE  CallsTyped'
<1>1. local \in [Procs -> Local] /\ \A q \in Procs : Knows(local[q])
  BY TypingSplits
<1>2. local' \in [Procs -> Local] /\ \A q \in Procs : local'[q] = IF q = p THEN l ELSE local[q]
  BY <1>1 DEF Moves
<1>3. \A q \in Procs : Knows(local'[q])
  BY <1>1, <1>2
<1> QED
  BY <1>2, <1>3 DEF CallsTyped, BooksTyped, LlmTypeOK, ProvidersKnown, Knows, Local

\* What becomes of the record of a call.
LEMMA Edits ==
  ASSUME NEW r \in Local
  PROVE  /\ \A c \in CallLabels : [r EXCEPT !.pc = c] \in Local
         /\ \A c \in CallLabels, t \in Tiers : [r EXCEPT !.pc = c, !.tier = t] \in Local
         /\ \A c \in CallLabels, n \in {0, Estimate} :
              [r EXCEPT !.pc = c, !.reserved = n] \in Local
         /\ \A c \in CallLabels, n \in {0, Estimate}, o \in BOOLEAN :
              [r EXCEPT !.pc = c, !.reserved = n, !.override = o] \in Local
         /\ \A c \in CallLabels, q \in Providers : [r EXCEPT !.pc = c, !.provider = q] \in Local
         /\ \A c \in CallLabels, n \in 0..MaxTokens : [r EXCEPT !.pc = c, !.tokens = n] \in Local
         /\ \A c \in CallLabels, t \in BOOLEAN : [r EXCEPT !.pc = c, !.transient = t] \in Local
BY DEF Local

\* The records that a call starts over from.
LEMMA FreshIsTyped ==
  /\ Out \in Local
  /\ \A c \in CallLabels, o \in BOOLEAN : [Out EXCEPT !.pc = c, !.override = o] \in Local
  /\ \A n \in 1..Attempts, o \in BOOLEAN, t \in Tiers :
       [Out EXCEPT !.pc = "backoff", !.attempt = n, !.override = o, !.tier = t] \in Local
<1>1. Out \in Local
  BY OutIsTyped
<1>2. "backoff" \in CallLabels
  BY DEF CallLabels
<1> HIDE DEF Out
<1> QED
  BY <1>1, <1>2 DEF Local


\* The record of one call.
LEMMA LocalIsTyped ==
  ASSUME CallsTyped, NEW p \in Procs
  PROVE  local[p] \in Local /\ Knows(local[p]) /\ local \in [Procs -> Local] /\ BooksTyped
BY TypingSplits

\* What the start of a command does: an override counts as one.
LEMMA CommandTurns ==
  ASSUME CallsTyped, NEW p \in Procs, Command(p)
  PROVE  \E l \in Local :
           /\ Moves(p, l) /\ Knows(l) /\ BooksTyped' /\ local[p].pc = "out" /\ l.pc = "ready"
           /\ UNCHANGED <<spent, bills>> /\ counts'.kills = counts.kills
           /\ counts'.faults = counts.faults
           /\ counts'.overrides = IF l.override THEN counts.overrides + 1 ELSE counts.overrides
<1>0. local[p] \in Local /\ BooksTyped
  BY LocalIsTyped
<1>1. PICK o \in BOOLEAN :
        /\ local' = [local EXCEPT ![p] = [Out EXCEPT !.pc = "ready", !.override = o]]
        /\ counts' = [counts EXCEPT !.commands = @ + 1,
                                    !.overrides = IF o THEN @ + 1 ELSE @]
        /\ local[p].pc = "out" /\ counts.commands < MaxCommands
        /\ UNCHANGED <<spent, failures, openFor, bills, chosen>>
  BY DEF Command, CallAt
<1> DEFINE l == [Out EXCEPT !.pc = "ready", !.override = o]
<1>2. l \in Local /\ l.pc = "ready" /\ l.override = o
  BY FreshIsTyped DEF CallLabels, Out
<1>3. Knows(l) /\ Moves(p, l)
  BY <1>1, <1>2 DEF Knows, Moves
<1>4. BooksTyped'
  <2>1. counts.commands + 1 \in 0..MaxCommands /\ counts.overrides + 1 \in 0..MaxCommands
        /\ counts.overrides <= counts.commands /\ counts.overrides + 1 <= counts.commands + 1
        /\ counts.overrides <= counts.commands + 1
    BY <1>0, <1>1, CallAssumption DEF BooksTyped
  <2>2. CASE o
    BY <1>0, <1>1, <2>1, <2>2 DEF BooksTyped
  <2>3. CASE ~ o
    BY <1>0, <1>1, <2>1, <2>3 DEF BooksTyped
  <2> QED
    BY <2>2, <2>3
<1> HIDE DEF l
<1> QED
  BY <1>0, <1>1, <1>2, <1>3, <1>4 DEF BooksTyped

\* The call ends, and nobody holds anything for it any more.
Ends(p, l) == l.pc = "ready" /\ l.override = local[p].override

\* What the end of a call does to its record.
LEMMA ReturnTurns ==
  ASSUME CallsTyped, NEW p \in Procs, Return(p)
  PROVE  \E l \in Local : Moves(p, l) /\ Knows(l) /\ Ends(p, l)
<1>0. local[p] \in Local
  BY LocalIsTyped
<1> DEFINE l == [Out EXCEPT !.pc = "ready", !.override = local[p].override]
<1>1. local[p].override \in BOOLEAN
  BY <1>0 DEF Local
<1>2. l \in Local /\ l.pc = "ready" /\ l.override = local[p].override
  BY <1>1, FreshIsTyped DEF CallLabels, Out
<1>3. Knows(l) /\ Moves(p, l) /\ Ends(p, l)
  BY <1>2 DEF Knows, Moves, Return, Ends
<1> HIDE DEF l
<1> QED
  BY <1>2, <1>3

\* The label changes, and at most the tier, the answer or the kind of error with it.
Goes(p, l, label) ==
    /\ l.pc = label /\ l.override = local[p].override /\ l.reserved = local[p].reserved
    /\ l.provider = local[p].provider

\* What going on does to it, with the tier, the answer or the kind of error.
LEMMA GotoTurns ==
  ASSUME CallsTyped, NEW p \in Procs, NEW c \in CallLabels
  PROVE  /\ CallGoto(p, c) =>
              \E l \in Local : Moves(p, l) /\ Goes(p, l, c) /\ l.tokens = local[p].tokens
                               /\ l.tier = local[p].tier
         /\ \A t \in Tiers : local' = [local EXCEPT ![p].pc = c, ![p].tier = t] =>
              \E l \in Local : Moves(p, l) /\ Goes(p, l, c)
         /\ \A n \in 0..MaxTokens : local' = [local EXCEPT ![p].pc = c, ![p].tokens = n] =>
              \E l \in Local : Moves(p, l) /\ Goes(p, l, c) /\ l.tokens = n
                               /\ l.tier = local[p].tier
         /\ \A t \in BOOLEAN : local' = [local EXCEPT ![p].pc = c, ![p].transient = t] =>
              \E l \in Local : Moves(p, l) /\ Goes(p, l, c)
<1> DEFINE r == local[p]
<1>0. r \in Local
  BY LocalIsTyped
<1>1. CallGoto(p, c) => local' = [local EXCEPT ![p] = [r EXCEPT !.pc = c]]
  BY DEF CallGoto
<1>2. \A t : local' = [local EXCEPT ![p].pc = c, ![p].tier = t] =>
               local' = [local EXCEPT ![p] = [r EXCEPT !.pc = c, !.tier = t]]
  BY LocalIsTyped
<1>3. \A t : local' = [local EXCEPT ![p].pc = c, ![p].tokens = t] =>
               local' = [local EXCEPT ![p] = [r EXCEPT !.pc = c, !.tokens = t]]
  BY LocalIsTyped
<1>4. \A t : local' = [local EXCEPT ![p].pc = c, ![p].transient = t] =>
               local' = [local EXCEPT ![p] = [r EXCEPT !.pc = c, !.transient = t]]
  BY LocalIsTyped
<1>5. CallGoto(p, c) =>
              \E l \in Local : Moves(p, l) /\ Goes(p, l, c) /\ l.tokens = local[p].tokens
                               /\ l.tier = local[p].tier
  <2> DEFINE l == [r EXCEPT !.pc = c]
  <2>1. l \in Local
    BY <1>0, Edits
  <2>2. /\ l.pc = c /\ l.override = r.override /\ l.reserved = r.reserved
        /\ l.provider = r.provider /\ l.tokens = r.tokens /\ l.tier = r.tier
    BY <1>0 DEF Local
  <2>3. CallGoto(p, c) => Moves(p, l)
    BY <1>1, <2>1 DEF Moves
  <2> HIDE DEF l
  <2> QED
    BY <2>1, <2>2, <2>3 DEF Goes
<1>6. ASSUME NEW t \in Tiers, local' = [local EXCEPT ![p].pc = c, ![p].tier = t]
      PROVE  \E l \in Local : Moves(p, l) /\ Goes(p, l, c)
  <2> DEFINE l == [r EXCEPT !.pc = c, !.tier = t]
  <2>1. l \in Local
    BY <1>0, Edits
  <2>2. /\ l.pc = c /\ l.override = r.override /\ l.reserved = r.reserved
        /\ l.provider = r.provider
    BY <1>0 DEF Local
  <2>3. Moves(p, l)
    BY <1>2, <1>6, <2>1 DEF Moves
  <2> HIDE DEF l
  <2> QED
    BY <2>1, <2>2, <2>3 DEF Goes
<1>7. ASSUME NEW n \in 0..MaxTokens, local' = [local EXCEPT ![p].pc = c, ![p].tokens = n]
      PROVE  \E l \in Local : Moves(p, l) /\ Goes(p, l, c) /\ l.tokens = n
                              /\ l.tier = local[p].tier
  <2> DEFINE l == [r EXCEPT !.pc = c, !.tokens = n]
  <2>1. l \in Local
    BY <1>0, Edits
  <2>2. /\ l.pc = c /\ l.override = r.override /\ l.reserved = r.reserved
        /\ l.provider = r.provider /\ l.tokens = n /\ l.tier = r.tier
    BY <1>0 DEF Local
  <2>3. Moves(p, l)
    BY <1>3, <1>7, <2>1 DEF Moves
  <2> HIDE DEF l
  <2> QED
    BY <2>1, <2>2, <2>3 DEF Goes
<1>8. ASSUME NEW t \in BOOLEAN, local' = [local EXCEPT ![p].pc = c, ![p].transient = t]
      PROVE  \E l \in Local : Moves(p, l) /\ Goes(p, l, c)
  <2> DEFINE l == [r EXCEPT !.pc = c, !.transient = t]
  <2>1. l \in Local
    BY <1>0, Edits
  <2>2. /\ l.pc = c /\ l.override = r.override /\ l.reserved = r.reserved
        /\ l.provider = r.provider
    BY <1>0 DEF Local
  <2>3. Moves(p, l)
    BY <1>4, <1>8, <2>1 DEF Moves
  <2> HIDE DEF l
  <2> QED
    BY <2>1, <2>2, <2>3 DEF Goes
<1> QED
  BY <1>5, <1>6, <1>7, <1>8

CountsTyped ==
    /\ counts \in [commands : 0..MaxCommands, overrides : 0..MaxCommands, calls : 0..MaxCalls,
                   kills : 0..MaxUpsets, faults : 0..MaxUpsets, choices : 0..MaxUpsets]
    /\ counts.overrides <= counts.commands
BillsTyped == bills \in [paid : Nat, settled : Nat, stuck : Nat]
StateTyped ==
    /\ spent \in Int /\ failures \in 0..Threshold /\ openFor \in 0..Cooldown
    /\ chosen \in Providers \union {Unset}

\* The books, variable by variable.
LEMMA BooksSplit ==
  /\ BooksTyped <=> CountsTyped /\ BillsTyped /\ StateTyped
  /\ BooksTyped' <=> CountsTyped' /\ BillsTyped' /\ StateTyped'
BY DEF BooksTyped, CountsTyped, BillsTyped, StateTyped

\* Whether a step is one of those that HardCeiling makes an exception for.
Same ==
    /\ counts'.kills = counts.kills /\ counts'.faults = counts.faults
    /\ counts'.overrides = counts.overrides
Faulted ==
    /\ counts'.kills = counts.kills /\ counts'.faults = counts.faults + 1
    /\ counts'.overrides = counts.overrides
Strands(p) ==
    /\ bills'.stuck = bills.stuck + local[p].reserved
    /\ bills'.paid = bills.paid /\ bills'.settled = bills.settled

\* What is left alone keeps its type.
LEMMA StaysTyped ==
  /\ CountsTyped /\ UNCHANGED counts => CountsTyped' /\ Same
  /\ BillsTyped /\ UNCHANGED bills => BillsTyped'
  /\ StateTyped /\ UNCHANGED <<spent, failures, openFor, chosen>> => StateTyped'
BY DEF CountsTyped, Same, BillsTyped, StateTyped

\* A failing statement counts as one.
LEMMA FaultTurns == CountsTyped /\ Fault => CountsTyped' /\ Faulted
<1> SUFFICES ASSUME CountsTyped, Fault PROVE CountsTyped' /\ Faulted
  OBVIOUS
<1>1. counts.faults + 1 \in 0..MaxUpsets
  BY CallAssumption DEF CountsTyped, Fault, Calm
<1> QED
  BY <1>1 DEF CountsTyped, Fault, Faulted

\* A reservation that nobody settles is counted with the stuck ones.
LEMMA StrandTurns ==
  ASSUME CallsTyped, NEW p \in Procs, Strand(p)
  PROVE  BillsTyped' /\ Strands(p)
<1>1. local[p].reserved \in Nat /\ BillsTyped
  BY LocalIsTyped, BooksSplit, CostAssumption DEF Local
<1> QED
  BY <1>1 DEF BillsTyped, Strand, Strands

\* What each step does, one lemma for each action: to the record of its call, to the row, to
\* the bills and to what the ceiling makes an exception for.
LEMMA EndCommandTurns ==
  ASSUME CallsTyped, NEW p \in Procs, EndCommand(p)
  PROVE  \E l \in Local :
           /\ Moves(p, l) /\ Knows(l) /\ BooksTyped' /\ local[p].pc = "ready" /\ l.pc = "out"
           /\ ~ l.override /\ UNCHANGED <<spent, bills>> /\ Same
<1>1. Out \in Local /\ Knows(Out) /\ Out.pc = "out" /\ ~ Out.override
  BY FreshIsTyped DEF Knows, Out
<1>2. Moves(p, Out)
  BY <1>1 DEF EndCommand, Moves
<1>3. BooksTyped' /\ Same
  BY LocalIsTyped, BooksSplit, StaysTyped DEF EndCommand
<1> QED
  BY <1>1, <1>2, <1>3 DEF EndCommand, CallAt

LEMMA CallLlmTurns ==
  ASSUME CallsTyped, NEW p \in Procs, CallLlm(p)
  PROVE  \E l \in Local :
           /\ Moves(p, l) /\ Knows(l) /\ BooksTyped' /\ local[p].pc = "ready"
           /\ Goes(p, l, "reserve") /\ UNCHANGED <<spent, bills>> /\ Same
<1>1. \E t \in Tiers : local' = [local EXCEPT ![p].pc = "reserve", ![p].tier = t]
  BY DEF CallLlm, RouteTier, Tiers
<1>2. PICK l \in Local : Moves(p, l) /\ Goes(p, l, "reserve")
  BY <1>1, GotoTurns DEF CallLabels
<1>3. CountsTyped' /\ Same
  <2>1. CountsTyped
    BY LocalIsTyped, BooksSplit
  <2>2. counts.calls + 1 \in 0..MaxCalls
    BY <2>1, CallAssumption DEF CallLlm, CountsTyped
  <2> QED
    BY <2>1, <2>2 DEF CallLlm, CountsTyped, Same
<1>4. BooksTyped'
  BY <1>3, LocalIsTyped, BooksSplit, StaysTyped DEF CallLlm
<1> QED
  BY <1>2, <1>3, <1>4 DEF CallLlm, CallAt, Knows, Goes

LEMMA ReserveTurns ==
  ASSUME CallsTyped, NEW p \in Procs, Reserve(p)
  PROVE  \E l \in Local :
           /\ Moves(p, l) /\ Knows(l) /\ BooksTyped' /\ local[p].pc = "reserve"
           /\ UNCHANGED bills
           /\ \/ /\ l.pc = "check" /\ l.reserved = 0 /\ local[p].override
                 /\ spent' = spent /\ Same
              \/ /\ l.pc = "check" /\ l.reserved = Estimate /\ ~ local[p].override
                 /\ spent + Estimate <= Ceiling /\ spent' = spent + Estimate /\ Same
              \/ Ends(p, l) /\ spent' = spent /\ (Same \/ Faulted)
<1> DEFINE r == local[p]
<1>0. r \in Local /\ CountsTyped /\ BillsTyped /\ StateTyped
  BY LocalIsTyped, BooksSplit
<1>1. BillsTyped'
  BY <1>0, StaysTyped DEF Reserve
<1>2. CASE r.override /\ UseOverride(p) /\ UNCHANGED <<spent, counts>>
  <2> DEFINE l == [r EXCEPT !.pc = "check", !.reserved = 0, !.override = FALSE]
  <2>1. l \in Local /\ Knows(l) /\ l.pc = "check" /\ l.reserved = 0
    <3>1. l \in Local
      BY <1>0, Edits DEF CallLabels
    <3>2. l.pc = "check" /\ l.reserved = 0 /\ ~ l.override
      BY <1>0 DEF Local
    <3> QED
      BY <3>1, <3>2 DEF Knows
  <2>2. Moves(p, l)
    BY <1>2, <2>1, LocalIsTyped DEF UseOverride, Moves
  <2>3. BooksTyped' /\ Same
    BY <1>0, <1>1, <1>2, BooksSplit, StaysTyped DEF Reserve
  <2> HIDE DEF l
  <2> QED
    BY <1>2, <2>1, <2>2, <2>3 DEF Reserve, CallAt
<1>3. CASE /\ ~ r.override /\ spent + Estimate <= Ceiling
           /\ spent' = spent + Estimate
           /\ local' = [local EXCEPT ![p].pc = "check", ![p].reserved = Estimate]
           /\ UNCHANGED counts
  <2> DEFINE l == [r EXCEPT !.pc = "check", !.reserved = Estimate]
  <2>1. l \in Local /\ Knows(l) /\ l.pc = "check" /\ l.reserved = Estimate
    <3>1. l \in Local
      BY <1>0, Edits DEF CallLabels
    <3>2. l.pc = "check" /\ l.reserved = Estimate /\ ~ l.override
      BY <1>0, <1>3 DEF Local
    <3> QED
      BY <3>1, <3>2 DEF Knows
  <2>2. Moves(p, l)
    BY <1>3, <2>1, LocalIsTyped DEF Moves
  <2>3. BooksTyped' /\ Same
    BY <1>0, <1>1, <1>3, BooksSplit, StaysTyped, CostAssumption DEF Reserve, StateTyped
  <2> HIDE DEF l
  <2> QED
    BY <1>3, <2>1, <2>2, <2>3 DEF Reserve, CallAt
<1>4. CASE Return(p) /\ UNCHANGED spent /\ (UNCHANGED counts \/ Fault)
  <2>1. BooksTyped' /\ (Same \/ Faulted)
    BY <1>0, <1>1, <1>4, BooksSplit, StaysTyped, FaultTurns DEF Reserve
  <2> QED
    BY <1>4, <2>1, ReturnTurns DEF Reserve, CallAt
<1> QED
  BY <1>2, <1>3, <1>4 DEF Reserve

LEMMA CheckCircuitTurns ==
  ASSUME CallsTyped, NEW p \in Procs, CheckCircuit(p)
  PROVE  \E l \in Local :
           /\ Moves(p, l) /\ Knows(l) /\ BooksTyped' /\ local[p].pc = "check"
           /\ UNCHANGED spent
           /\ \/ Goes(p, l, "provider") /\ UNCHANGED bills /\ Same
              \/ Ends(p, l) /\ Strands(p) /\ (Same \/ Faulted)
<1>0. Knows(local[p]) /\ CountsTyped /\ BillsTyped /\ StateTyped
  BY LocalIsTyped, BooksSplit
<1>1. StateTyped' /\ local[p].pc = "check" /\ UNCHANGED spent
  BY <1>0, StaysTyped DEF CheckCircuit, CallAt
<1>2. CASE CallGoto(p, "provider") /\ UNCHANGED <<bills, counts>>
  <2>1. BooksTyped' /\ Same
    BY <1>0, <1>1, <1>2, BooksSplit, StaysTyped
  <2>2. PICK l \in Local : Moves(p, l) /\ Goes(p, l, "provider")
    BY <1>2, GotoTurns DEF CallLabels
  <2>3. Knows(l)
    BY <1>0, <1>1, <2>2 DEF Knows, Goes
  <2> QED
    BY <1>1, <1>2, <2>1, <2>2, <2>3
<1>3. CASE Return(p) /\ Strand(p) /\ (UNCHANGED counts \/ Fault)
  <2>1. BillsTyped' /\ Strands(p)
    BY <1>3, StrandTurns
  <2>2. BooksTyped' /\ (Same \/ Faulted)
    BY <1>0, <1>1, <1>3, <2>1, BooksSplit, StaysTyped, FaultTurns
  <2> QED
    BY <1>1, <1>3, <2>1, <2>2, ReturnTurns
<1> QED
  BY <1>2, <1>3 DEF CheckCircuit

LEMMA GetProviderTurns ==
  ASSUME CallsTyped, NEW p \in Procs, GetProvider(p)
  PROVE  \E l \in Local :
           /\ Moves(p, l) /\ Knows(l) /\ BooksTyped' /\ local[p].pc = "provider"
           /\ UNCHANGED spent /\ Same
           /\ \/ /\ l.pc = "send" /\ l.reserved = local[p].reserved
                 /\ l.override = local[p].override /\ UNCHANGED bills
              \/ Ends(p, l) /\ Strands(p)
<1> DEFINE r == local[p]
<1>0. r \in Local /\ Knows(r) /\ CountsTyped /\ BillsTyped /\ StateTyped
  BY LocalIsTyped, BooksSplit
<1>1. StateTyped' /\ CountsTyped' /\ r.pc = "provider" /\ UNCHANGED spent /\ Same
  BY <1>0, StaysTyped DEF GetProvider, CallAt
<1>2. CASE /\ Configured
           /\ local' = [local EXCEPT ![p].pc = "send", ![p].provider = chosen]
           /\ UNCHANGED bills
  <2>0. chosen \in Providers
    BY <1>0, <1>2 DEF Configured, StateTyped
  <2> DEFINE l == [r EXCEPT !.pc = "send", !.provider = chosen]
  <2>1. l \in Local /\ l.pc = "send" /\ l.reserved = r.reserved /\ l.override = r.override
        /\ l.provider \in Providers
    <3>1. l \in Local
      BY <1>0, <2>0, Edits DEF CallLabels
    <3>2. l.pc = "send" /\ l.reserved = r.reserved /\ l.override = r.override
          /\ l.provider = chosen
      BY <1>0 DEF Local
    <3> QED
      BY <2>0, <3>1, <3>2
  <2>2. Knows(l)
    BY <1>0, <1>1, <2>1 DEF Knows
  <2>3. Moves(p, l)
    BY <1>2, <2>1, LocalIsTyped DEF Moves
  <2>4. BooksTyped'
    BY <1>0, <1>1, <1>2, BooksSplit, StaysTyped
  <2> HIDE DEF l
  <2> QED
    BY <1>1, <1>2, <2>1, <2>2, <2>3, <2>4
<1>3. CASE Return(p) /\ Strand(p)
  <2>1. BillsTyped' /\ Strands(p)
    BY <1>3, StrandTurns
  <2>2. BooksTyped'
    BY <1>1, <2>1, BooksSplit
  <2> QED
    BY <1>1, <1>3, <2>1, <2>2, ReturnTurns
<1> QED
  BY <1>2, <1>3 DEF GetProvider

\* What the answer that a call has is worth.
Cost(l) == l.tokens * Price[l.provider][l.tier]

\* An answer costs at most MaxCost.
LEMMA CostIsBounded ==
  ASSUME NEW l \in Local, l.provider \in Providers
  PROVE  Cost(l) \in Nat /\ Cost(l) <= MaxCost
BY CostsAreBounded DEF Local, Cost

LEMMA GenerateTurns ==
  ASSUME CallsTyped, NEW p \in Procs, Generate(p)
  PROVE  \E l \in Local :
           /\ Moves(p, l) /\ Knows(l) /\ BooksTyped' /\ local[p].pc = "send"
           /\ UNCHANGED spent /\ Same
           /\ \/ /\ Goes(p, l, "settle") /\ bills'.paid = bills.paid + Cost(l)
                 /\ bills'.settled = bills.settled /\ bills'.stuck = bills.stuck
              \/ Goes(p, l, "refund") /\ UNCHANGED bills
<1>0. local[p] \in Local /\ Knows(local[p]) /\ CountsTyped /\ BillsTyped /\ StateTyped
  BY LocalIsTyped, BooksSplit
<1>1. /\ StateTyped' /\ CountsTyped' /\ local[p].pc = "send" /\ UNCHANGED spent /\ Same
      /\ local[p].provider \in Providers
  BY <1>0, StaysTyped DEF Generate, CallAt, Knows
<1>2. ASSUME NEW n \in 0..MaxTokens,
             local' = [local EXCEPT ![p].pc = "settle", ![p].tokens = n],
             bills' = [bills EXCEPT !.paid = @ + n * Price[local[p].provider][local[p].tier]]
      PROVE  \E l \in Local :
                /\ Moves(p, l) /\ Knows(l) /\ BooksTyped' /\ Goes(p, l, "settle")
                /\ bills'.paid = bills.paid + Cost(l)
                /\ bills'.settled = bills.settled /\ bills'.stuck = bills.stuck
  <2>1. PICK l \in Local : /\ Moves(p, l) /\ Goes(p, l, "settle") /\ l.tokens = n
                           /\ l.tier = local[p].tier
    BY <1>2, GotoTurns DEF CallLabels
  <2>2. Knows(l) /\ l.provider \in Providers
    BY <1>0, <1>1, <2>1 DEF Knows, Goes
  <2>3. Cost(l) = n * Price[local[p].provider][local[p].tier] /\ Cost(l) \in Nat
    BY <2>1, <2>2, CostIsBounded DEF Cost, Goes
  <2>4. BillsTyped' /\ bills'.paid = bills.paid + Cost(l)
        /\ bills'.settled = bills.settled /\ bills'.stuck = bills.stuck
    BY <1>0, <1>2, <2>3 DEF BillsTyped
  <2>5. BooksTyped'
    BY <1>1, <2>4, BooksSplit
  <2> QED
    BY <2>1, <2>2, <2>4, <2>5
<1>3. ASSUME NEW t \in BOOLEAN,
             local' = [local EXCEPT ![p].pc = "refund", ![p].transient = t], UNCHANGED bills
      PROVE  \E l \in Local :
                Moves(p, l) /\ Knows(l) /\ BooksTyped' /\ Goes(p, l, "refund")
  <2>1. PICK l \in Local : Moves(p, l) /\ Goes(p, l, "refund")
    BY <1>3, GotoTurns DEF CallLabels
  <2>2. Knows(l)
    BY <2>1 DEF Knows, Goes
  <2>3. BooksTyped'
    BY <1>0, <1>1, <1>3, BooksSplit, StaysTyped
  <2> QED
    BY <2>1, <2>2, <2>3
<1> QED
  BY <1>1, <1>2, <1>3 DEF Generate

\* A statement fails, and the catch block is next.
LEMMA CatchTurns ==
  ASSUME CallsTyped, NEW p \in Procs, Fault,
         local' = [local EXCEPT ![p].pc = "refund", ![p].transient = FALSE]
  PROVE  \E l \in Local : /\ Moves(p, l) /\ Knows(l) /\ Goes(p, l, "refund")
                          /\ CountsTyped' /\ Faulted
<1>1. PICK l \in Local : Moves(p, l) /\ Goes(p, l, "refund")
  BY GotoTurns DEF CallLabels
<1>2. Knows(l)
  BY <1>1 DEF Knows, Goes
<1>3. CountsTyped' /\ Faulted
  BY LocalIsTyped, BooksSplit, FaultTurns
<1> QED
  BY <1>1, <1>2, <1>3

LEMMA SettleTurns ==
  ASSUME CallsTyped, NEW p \in Procs, Settle(p)
  PROVE  \E l \in Local :
           /\ Moves(p, l) /\ Knows(l) /\ BooksTyped' /\ local[p].pc = "settle"
           /\ \/ /\ Goes(p, l, "success") /\ Same
                 /\ spent' = spent - local[p].reserved + Cost(local[p])
                 /\ bills'.settled = bills.settled + Cost(local[p])
                 /\ bills'.paid = bills.paid /\ bills'.stuck = bills.stuck
              \/ Goes(p, l, "refund") /\ UNCHANGED <<spent, bills>> /\ Faulted
<1>0. local[p] \in Local /\ Knows(local[p]) /\ CountsTyped /\ BillsTyped /\ StateTyped
  BY LocalIsTyped, BooksSplit
<1>1. local[p].pc = "settle" /\ local[p].provider \in Providers
  BY <1>0 DEF Settle, CallAt, Knows
<1>2. /\ CostOf(p) = Cost(local[p]) /\ Cost(local[p]) \in Nat /\ local[p].reserved \in Nat
      /\ spent \in Int
  BY <1>0, <1>1, CostIsBounded, CostAssumption DEF Cost, CostOf, Local, StateTyped
<1>3. CASE /\ spent' = spent - local[p].reserved + CostOf(p)
           /\ bills' = [bills EXCEPT !.settled = @ + CostOf(p)]
           /\ CallGoto(p, "success") /\ UNCHANGED counts
  <2>1. PICK l \in Local : Moves(p, l) /\ Goes(p, l, "success")
    BY <1>3, GotoTurns DEF CallLabels
  <2>2. Knows(l)
    BY <2>1 DEF Knows, Goes
  <2>3. CountsTyped' /\ Same
    BY <1>0, <1>3, StaysTyped
  <2>4. StateTyped' /\ spent' = spent - local[p].reserved + Cost(local[p])
    BY <1>0, <1>2, <1>3 DEF StateTyped, Settle
  <2>5. /\ BillsTyped' /\ bills'.settled = bills.settled + Cost(local[p])
        /\ bills'.paid = bills.paid /\ bills'.stuck = bills.stuck
    BY <1>0, <1>2, <1>3 DEF BillsTyped
  <2>6. BooksTyped'
    BY <2>3, <2>4, <2>5, BooksSplit
  <2> QED
    BY <1>1, <2>1, <2>2, <2>3, <2>4, <2>5, <2>6
<1>4. CASE /\ Fault
           /\ local' = [local EXCEPT ![p].pc = "refund", ![p].transient = FALSE]
           /\ UNCHANGED <<spent, bills>>
  <2>1. PICK l \in Local : /\ Moves(p, l) /\ Knows(l) /\ Goes(p, l, "refund")
                           /\ CountsTyped' /\ Faulted
    BY <1>4, CatchTurns
  <2>2. BooksTyped'
    BY <1>0, <1>4, <2>1, BooksSplit, StaysTyped DEF Settle
  <2> QED
    BY <1>1, <1>4, <2>1, <2>2
<1> QED
  BY <1>3, <1>4 DEF Settle

LEMMA RecordSuccessTurns ==
  ASSUME CallsTyped, NEW p \in Procs, RecordSuccess(p)
  PROVE  \E l \in Local :
           /\ Moves(p, l) /\ Knows(l) /\ BooksTyped' /\ local[p].pc = "success"
           /\ UNCHANGED <<spent, bills>>
           /\ \/ Ends(p, l) /\ Same
              \/ Goes(p, l, "refund") /\ Faulted
<1>0. CountsTyped /\ BillsTyped /\ StateTyped /\ local[p].pc = "success" /\ BillsTyped'
  BY LocalIsTyped, BooksSplit, StaysTyped DEF RecordSuccess, CallAt
<1>1. CASE failures' = 0 /\ openFor' = 0 /\ Return(p) /\ UNCHANGED counts
  <2>1. CountsTyped' /\ Same
    BY <1>0, <1>1, StaysTyped
  <2>2. StateTyped'
    BY <1>0, <1>1, CallAssumption DEF StateTyped, RecordSuccess
  <2> QED
    BY <1>0, <1>1, <2>1, <2>2, BooksSplit, ReturnTurns DEF RecordSuccess
<1>2. CASE /\ Fault
           /\ local' = [local EXCEPT ![p].pc = "refund", ![p].transient = FALSE]
           /\ UNCHANGED <<failures, openFor>>
  <2>1. PICK l \in Local : /\ Moves(p, l) /\ Knows(l) /\ Goes(p, l, "refund")
                           /\ CountsTyped' /\ Faulted
    BY <1>2, CatchTurns
  <2>2. BooksTyped'
    BY <1>0, <1>2, <2>1, BooksSplit, StaysTyped DEF RecordSuccess
  <2> QED
    BY <1>0, <1>2, <2>1, <2>2 DEF RecordSuccess
<1> QED
  BY <1>1, <1>2 DEF RecordSuccess

LEMMA RefundTurns ==
  ASSUME CallsTyped, NEW p \in Procs, Refund(p)
  PROVE  \E l \in Local :
           /\ Moves(p, l) /\ Knows(l) /\ BooksTyped' /\ local[p].pc = "refund"
           /\ \/ /\ l.pc \in {"trip", "ready"} /\ l.override = local[p].override
                 /\ spent' = spent - local[p].reserved /\ UNCHANGED bills /\ Same
              \/ Ends(p, l) /\ Strands(p) /\ UNCHANGED spent /\ Faulted
<1>0. CountsTyped /\ BillsTyped /\ StateTyped /\ local[p].pc = "refund" /\ local[p] \in Local
  BY LocalIsTyped, BooksSplit DEF Refund, CallAt
<1>1. CASE /\ ReleaseReservation(p)
           /\ IF local[p].transient THEN CallGoto(p, "trip") ELSE Return(p)
           /\ UNCHANGED <<bills, counts>>
  <2>1. \E l \in Local : /\ Moves(p, l) /\ Knows(l) /\ l.pc \in {"trip", "ready"}
                         /\ l.override = local[p].override
    <3>1. CASE Return(p)
      BY <3>1, ReturnTurns DEF Ends
    <3>2. CASE CallGoto(p, "trip")
      <4>1. PICK l \in Local : Moves(p, l) /\ Goes(p, l, "trip")
        BY <3>2, GotoTurns DEF CallLabels
      <4> QED
        BY <4>1 DEF Goes, Knows
    <3> QED
      BY <1>1, <3>1, <3>2
  <2>2. spent' = spent - local[p].reserved /\ StateTyped'
    BY <1>0, <1>1, CostAssumption DEF ReleaseReservation, StateTyped, Refund, Local
  <2>3. BooksTyped' /\ Same
    BY <1>0, <1>1, <2>2, BooksSplit, StaysTyped
  <2> QED
    BY <1>0, <1>1, <2>1, <2>2, <2>3
<1>2. CASE Fault /\ Return(p) /\ Strand(p) /\ UNCHANGED spent
  <2>1. BillsTyped' /\ Strands(p)
    BY <1>2, StrandTurns
  <2>2. BooksTyped' /\ Faulted
    BY <1>0, <1>2, <2>1, BooksSplit, StaysTyped, FaultTurns DEF Refund
  <2> QED
    BY <1>0, <1>2, <2>1, <2>2, ReturnTurns
<1> QED
  BY <1>1, <1>2 DEF Refund

LEMMA RecordFailureTurns ==
  ASSUME CallsTyped, NEW p \in Procs, RecordFailure(p)
  PROVE  \E l \in Local :
           /\ Moves(p, l) /\ Knows(l) /\ BooksTyped' /\ local[p].pc = "trip"
           /\ l.pc \in {"backoff", "ready"} /\ l.override = local[p].override
           /\ UNCHANGED <<spent, bills>> /\ (Same \/ Faulted)
<1> DEFINE r == local[p]
<1>0. /\ CountsTyped /\ BillsTyped /\ StateTyped /\ r \in Local /\ r.pc = "trip"
      /\ BillsTyped' /\ UNCHANGED <<spent, bills>>
  BY LocalIsTyped, BooksSplit, StaysTyped DEF RecordFailure, CallAt
<1> DEFINE l == [Out EXCEPT !.pc = "backoff", !.attempt = NextAttempt(p),
                            !.override = r.override, !.tier = r.tier]
<1>1. CASE /\ failures' = IF failures < Threshold THEN failures + 1 ELSE failures
           /\ openFor' = IF failures + 1 >= Threshold THEN Cooldown ELSE openFor
           /\ IF MayRetry(p) THEN local' = [local EXCEPT ![p] = l] ELSE Return(p)
           /\ UNCHANGED counts
  <2>1. BooksTyped' /\ Same
    <3>1. StateTyped'
      BY <1>0, <1>1, CallAssumption DEF StateTyped, RecordFailure
    <3> QED
      BY <1>0, <1>1, <3>1, BooksSplit, StaysTyped
  <2>2. CASE ~ MayRetry(p)
    BY <1>0, <1>1, <2>1, <2>2, ReturnTurns DEF Ends
  <2>3. CASE MayRetry(p)
    <3>1. NextAttempt(p) \in 1..Attempts /\ r.override \in BOOLEAN /\ r.tier \in Tiers
      BY <1>0, <2>3, CallAssumption DEF MayRetry, NextAttempt, Local
    <3>2. l \in Local /\ l.pc = "backoff" /\ l.override = r.override
      BY <3>1, FreshIsTyped DEF Out
    <3>3. Knows(l) /\ Moves(p, l)
      BY <1>1, <2>3, <3>2 DEF Knows, Moves
    <3> HIDE DEF l
    <3> QED
      BY <1>0, <2>1, <3>2, <3>3
  <2> QED
    BY <2>2, <2>3
<1>2. CASE Fault /\ Return(p) /\ UNCHANGED <<failures, openFor>>
  <2>1. BooksTyped' /\ Faulted
    BY <1>0, <1>2, BooksSplit, StaysTyped, FaultTurns DEF RecordFailure
  <2> QED
    BY <1>0, <1>2, <2>1, ReturnTurns DEF Ends
<1> QED
  BY <1>1, <1>2 DEF RecordFailure

LEMMA RetryTurns ==
  ASSUME CallsTyped, NEW p \in Procs, Retry(p)
  PROVE  \E l \in Local :
           /\ Moves(p, l) /\ Knows(l) /\ BooksTyped' /\ local[p].pc = "backoff"
           /\ Goes(p, l, "reserve") /\ UNCHANGED <<spent, bills>> /\ Same
<1>1. BooksTyped' /\ Same
  BY LocalIsTyped, BooksSplit, StaysTyped DEF Retry
<1>2. PICK l \in Local : Moves(p, l) /\ Goes(p, l, "reserve")
  BY GotoTurns DEF Retry, CallLabels
<1> QED
  BY <1>1, <1>2 DEF Retry, CallAt, Knows, Goes

LEMMA KillTurns ==
  ASSUME CallsTyped, NEW p \in Procs, KillCaller(p)
  PROVE  \E l \in Local :
           /\ Moves(p, l) /\ Knows(l) /\ BooksTyped' /\ l.pc = "out" /\ ~ l.override
           /\ UNCHANGED spent
           /\ counts'.kills = counts.kills + 1 /\ counts'.faults = counts.faults
           /\ counts'.overrides = counts.overrides
           /\ IF Reserved(p) THEN Strands(p) ELSE UNCHANGED bills
<1>1. Out \in Local /\ Knows(Out) /\ Out.pc = "out" /\ ~ Out.override
  BY FreshIsTyped DEF Knows, Out
<1>2. Moves(p, Out)
  BY <1>1 DEF KillCaller, Moves
<1>3. CountsTyped /\ BillsTyped /\ StateTyped'
  BY LocalIsTyped, BooksSplit, StaysTyped DEF KillCaller
<1>4. /\ CountsTyped'
      /\ counts'.kills = counts.kills + 1 /\ counts'.faults = counts.faults
      /\ counts'.overrides = counts.overrides
  <2>1. counts.kills + 1 \in 0..MaxUpsets
    BY <1>3, CallAssumption DEF CountsTyped, KillCaller, Calm
  <2> QED
    BY <1>3, <2>1 DEF CountsTyped, KillCaller
<1>5. BillsTyped' /\ IF Reserved(p) THEN Strands(p) ELSE UNCHANGED bills
  BY <1>3, StrandTurns, StaysTyped DEF KillCaller
<1>6. BooksTyped'
  BY <1>3, <1>4, <1>5, BooksSplit
<1> QED
  BY <1>1, <1>2, <1>4, <1>5, <1>6 DEF KillCaller

\* The steps that are not of a call.
LEMMA OthersTurn ==
  ASSUME CallsTyped, Tick \/ BeginChoice \/ EndChoice \/ UNCHANGED llmVars
  PROVE  BooksTyped' /\ UNCHANGED <<spent, bills, local>> /\ Same
<1>0. CountsTyped /\ BillsTyped /\ StateTyped
  BY BooksSplit, TypingSplits
<1>1. CASE Tick
  <2>1. StateTyped'
    BY <1>0, <1>1, CallAssumption DEF StateTyped, Tick
  <2> QED
    BY <1>0, <1>1, <2>1, BooksSplit, StaysTyped DEF Tick
<1>2. CASE BeginChoice
  <2>1. CountsTyped' /\ Same
    <3>1. counts.choices + 1 \in 0..MaxUpsets
      BY <1>0, <1>2, CallAssumption DEF CountsTyped, BeginChoice, Calm
    <3> QED
      BY <1>0, <1>2, <3>1 DEF CountsTyped, BeginChoice, Same
  <2>2. StateTyped'
    BY <1>0, <1>2 DEF StateTyped, BeginChoice
  <2> QED
    BY <1>0, <1>2, <2>1, <2>2, BooksSplit, StaysTyped DEF BeginChoice
<1>3. CASE EndChoice
  <2>1. StateTyped'
    BY <1>0, <1>3 DEF StateTyped, EndChoice
  <2> QED
    BY <1>0, <1>3, <2>1, BooksSplit, StaysTyped DEF EndChoice
<1>4. CASE UNCHANGED llmVars
  BY <1>0, <1>4, BooksSplit, StaysTyped DEF llmVars
<1> QED
  BY <1>1, <1>2, <1>3, <1>4

\* Every step keeps the types, and what is known of the calls.
LEMMA CallsStayTyped == CallsTyped /\ [LlmNext]_llmVars => CallsTyped'
<1> SUFFICES ASSUME CallsTyped, [LlmNext]_llmVars PROVE CallsTyped'
  OBVIOUS
<1>1. CASE Tick \/ BeginChoice \/ EndChoice \/ UNCHANGED llmVars
  <2>1. BooksTyped' /\ UNCHANGED local
    BY <1>1, OthersTurn
  <2> QED
    BY <2>1 DEF CallsTyped, LlmTypeOK, BooksTyped, ProvidersKnown, Knows
<1>2. ASSUME NEW p \in Procs,
             Command(p) \/ EndCommand(p) \/ CallLlm(p) \/ CallStep(p) \/ KillCaller(p)
      PROVE  CallsTyped'
  <2>1. \E l \in Local : Moves(p, l) /\ Knows(l) /\ BooksTyped'
    <3>1. CASE Command(p) \/ EndCommand(p) \/ CallLlm(p) \/ KillCaller(p)
      BY <3>1, CommandTurns, EndCommandTurns, CallLlmTurns, KillTurns
    <3>2. CASE Reserve(p) \/ CheckCircuit(p) \/ GetProvider(p) \/ Generate(p)
      BY <3>2, ReserveTurns, CheckCircuitTurns, GetProviderTurns, GenerateTurns
    <3>3. CASE Settle(p) \/ RecordSuccess(p) \/ Refund(p) \/ RecordFailure(p) \/ Retry(p)
      BY <3>3, SettleTurns, RecordSuccessTurns, RefundTurns, RecordFailureTurns, RetryTurns
    <3> QED
      BY <1>2, <3>1, <3>2, <3>3 DEF CallStep
  <2> QED
    BY <2>1, MovesAreTyped
<1> QED
  BY <1>1, <1>2 DEF LlmNext

-----------------------------------------------------------------------------
(* Every reservation is accounted for exactly once.                        *)

\* A set gains or loses one element at most.
LEMMA MembersMove ==
  ASSUME NEW S, IsFiniteSet(S), NEW A \in SUBSET S, NEW B \in SUBSET S, NEW x \in S,
         \A s \in S \ {x} : s \in A <=> s \in B
  PROVE  /\ Cardinality(A) \in Nat /\ Cardinality(B) \in Nat
         /\ Cardinality(A) <= Cardinality(S)
         /\ Cardinality(B) = Cardinality(A) - (IF x \in A THEN 1 ELSE 0)
                                            + (IF x \in B THEN 1 ELSE 0)
<1>1. IsFiniteSet(A) /\ IsFiniteSet(B)
  BY FS_Subset
<1>2. A \ {x} = B \ {x}
  OBVIOUS
<1>3. Cardinality(A) \in Nat /\ Cardinality(B) \in Nat /\ Cardinality(A) <= Cardinality(S)
  BY <1>1, FS_CardinalityType, FS_Subset
<1>4. Cardinality(A \ {x}) = IF x \in A THEN Cardinality(A) - 1 ELSE Cardinality(A)
  BY <1>1, FS_RemoveElement
<1>5. Cardinality(B \ {x}) = IF x \in B THEN Cardinality(B) - 1 ELSE Cardinality(B)
  BY <1>1, FS_RemoveElement
<1>6. Cardinality(A \ {x}) = Cardinality(B \ {x})
  BY <1>2
<1> DEFINE i == Cardinality(A)
           j == Cardinality(B)
           n == Cardinality(S)
<1>7. /\ i \in Nat /\ j \in Nat /\ i <= n
      /\ (IF x \in A THEN i - 1 ELSE i) = (IF x \in B THEN j - 1 ELSE j)
  BY <1>3, <1>4, <1>5, <1>6
<1> HIDE DEF i, j, n
<1>8. j = i - (IF x \in A THEN 1 ELSE 0) + (IF x \in B THEN 1 ELSE 0)
  BY <1>7
<1> QED
  BY <1>7, <1>8 DEF i, j, n

Holding == {"check", "provider", "send", "settle", "refund"}

\* What is reserved for a call.
Kept(l) == IF l.pc \in Holding THEN l.reserved ELSE 0

\* What calls in flight have reserved, after a step of one.
LEMMA InFlightMoves ==
  ASSUME CallsTyped, NEW p \in Procs, NEW l \in Local, Moves(p, l)
  PROVE  /\ Estimate * Cardinality(InFlight) \in Int
         /\ Estimate * Cardinality(InFlight') = Estimate * Cardinality(InFlight)
                                                - Kept(local[p]) + Kept(l)
         /\ Kept(local[p]) \in Int /\ Kept(l) \in Int
<1>0. local[p] \in Local /\ local \in [Procs -> Local] /\ Estimate \in Nat \ {0}
  BY LocalIsTyped, CostAssumption
<1>1. \A s \in Procs : local'[s] = IF s = p THEN l ELSE local[s]
  BY <1>0 DEF Moves
<1>2. \A s \in Procs \ {p} : s \in InFlight <=> s \in InFlight'
  BY <1>1 DEF InFlight, Reserved
<1>3. /\ p \in InFlight <=> local[p].pc \in Holding /\ local[p].reserved > 0
      /\ p \in InFlight' <=> l.pc \in Holding /\ l.reserved > 0
  BY <1>1 DEF InFlight, Reserved, Holding
<1>4. InFlight \in SUBSET Procs /\ InFlight' \in SUBSET Procs /\ IsFiniteSet(Procs)
  BY CallAssumption DEF InFlight
<1> DEFINE i == Cardinality(InFlight)
           j == Cardinality(InFlight')
           was == IF p \in InFlight THEN 1 ELSE 0
           is == IF p \in InFlight' THEN 1 ELSE 0
<1>5. i \in Nat /\ j \in Nat /\ j = i - was + is
  BY <1>2, <1>4, MembersMove
<1>6. Kept(local[p]) = Estimate * was /\ Kept(l) = Estimate * is
  BY <1>0, <1>3 DEF Kept, Local
<1>7. was \in Nat /\ is \in Nat
  OBVIOUS
<1> HIDE DEF i, j, was, is
<1>8. Estimate * j = Estimate * i - Estimate * was + Estimate * is
  BY <1>0, <1>5, <1>7
<1>9. Estimate * i \in Int /\ Estimate * was \in Int /\ Estimate * is \in Int
  BY <1>0, <1>5, <1>7
<1> QED
  BY <1>6, <1>8, <1>9 DEF i, j

\* What each answer that is not settled has cost.
Bill == [p \in {q \in Procs : CallAt(q, "settle")} |-> Cost(local[p])]

\* Bills are integers, and finitely many.
LEMMA BillIsTyped ==
  ASSUME CallsTyped
  PROVE  /\ Bill \in [DOMAIN Bill -> Int] /\ IsFiniteSet(DOMAIN Bill)
         /\ DOMAIN Bill = {q \in Procs : CallAt(q, "settle")}
<1>1. ASSUME NEW p \in Procs, CallAt(p, "settle") PROVE Cost(local[p]) \in Int
  <2>1. local[p] \in Local /\ local[p].provider \in Providers
    BY <1>1, LocalIsTyped DEF Knows, CallAt
  <2> QED
    BY <2>1, CostIsBounded
<1>2. IsFiniteSet({q \in Procs : CallAt(q, "settle")})
  BY CallAssumption, FS_Subset
<1> QED
  BY <1>1, <1>2 DEF Bill

LEMMA BillIsTypedNext ==
  CallsTyped' => /\ Bill' \in [DOMAIN Bill' -> Int] /\ IsFiniteSet(DOMAIN Bill')
                 /\ DOMAIN Bill' = {q \in Procs : CallAt(q, "settle")}'
<1>1. CallsTyped => /\ Bill \in [DOMAIN Bill -> Int] /\ IsFiniteSet(DOMAIN Bill)
                    /\ DOMAIN Bill = {q \in Procs : CallAt(q, "settle")}
  BY BillIsTyped
<1>2. (CallsTyped => /\ Bill \in [DOMAIN Bill -> Int] /\ IsFiniteSet(DOMAIN Bill)
                     /\ DOMAIN Bill = {q \in Procs : CallAt(q, "settle")})'
  BY <1>1, PTL
<1> QED
  BY <1>2

\* Owed is the sum of the bills, before a step and after it.
LEMMA OwedIsTotal == CallsTyped => Owed = Total(Bill)
<1> SUFFICES ASSUME CallsTyped PROVE Owed = Total(Bill)
  OBVIOUS
<1> DEFINE S == {q \in Procs : CallAt(q, "settle")}
           Costs(g) == g = [s \in SUBSET S |-> IF s = {} THEN 0
                                               ELSE CostOf(Some(s)) + g[s \ {Some(s)}]]
<1>1. Owed = (CHOOSE g : Costs(g))[S]
  BY DEF Owed, MapThenSumSet, MapThenFoldSet, Some
<1>2. \A g : Costs(g) <=> Sums(Bill, S, g)
  <2>1. \A s \in SUBSET S : s # {} => CostOf(Some(s)) = Bill[Some(s)]
    <3>1. \A s \in SUBSET S : s # {} => Some(s) \in S
      BY SomeIsIn
    <3>2. \A q \in S : CostOf(q) = Bill[q]
      BY DEF CostOf, Bill, Cost
    <3> QED
      BY <3>1, <3>2
  <2> SUFFICES ASSUME NEW g
               PROVE  [s \in SUBSET S |-> IF s = {} THEN 0
                                          ELSE CostOf(Some(s)) + g[s \ {Some(s)}]]
                    = [s \in SUBSET S |-> IF s = {} THEN 0
                                          ELSE Bill[Some(s)] + g[s \ {Some(s)}]]
    BY DEF Sums
  <2> HIDE DEF S
  <2> QED
    BY <2>1
<1>3. PICK k : Sums(Bill, S, k) /\ Total(Bill) = k[S]
  BY BillIsTyped, TotalUnfolds
<1>4. IsFiniteSet(S)
  BY BillIsTyped
<1> DEFINE h == CHOOSE g : Costs(g)
<1>5. Sums(Bill, S, h)
  <2> HIDE DEF Costs
  <2>1. Costs(k)
    BY <1>2, <1>3
  <2>2. Costs(h)
    BY <2>1
  <2> QED
    BY <1>2, <2>2
<1> HIDE DEF h, S
<1>6. h[S] = k[S]
  BY <1>3, <1>4, <1>5, SumsAgree
<1> QED
  BY <1>1, <1>3, <1>6 DEF h

LEMMA OwedIsTotalNext == CallsTyped' => Owed' = Total(Bill')
<1>1. (CallsTyped => Owed = Total(Bill))'
  BY OwedIsTotal, PTL
<1> QED
  BY <1>1

\* What one call owes.
Due(l) == IF l.pc = "settle" THEN Cost(l) ELSE 0

\* What is owed, after a step of one call.
LEMMA OwedMoves ==
  ASSUME CallsTyped, CallsTyped', NEW p \in Procs, NEW l \in Local, Moves(p, l),
         ~ (local[p].pc = "settle" /\ l.pc = "settle")
  PROVE  /\ Owed \in Int /\ Due(local[p]) \in Int /\ Due(l) \in Int
         /\ Owed' = Owed - Due(local[p]) + Due(l)
<1>0. /\ local[p] \in Local /\ Knows(local[p]) /\ local \in [Procs -> Local]
      /\ local'[p] \in Local /\ Knows(local'[p]) /\ local'[p] = l
  BY LocalIsTyped DEF Moves, CallsTyped, LlmTypeOK, ProvidersKnown, Knows, Local
<1>1. Due(local[p]) \in Int /\ Due(l) \in Int
  BY <1>0, CostIsBounded DEF Due, Knows
<1> DEFINE S == {q \in Procs : CallAt(q, "settle")}
<1>2. \A q \in Procs : local'[q] = IF q = p THEN l ELSE local[q]
  BY <1>0 DEF Moves
<1>3. /\ Bill \in [S -> Int] /\ IsFiniteSet(S) /\ Bill' \in [S' -> Int] /\ IsFiniteSet(S')
      /\ Owed = Total(Bill) /\ Owed' = Total(Bill')
  BY BillIsTyped, BillIsTypedNext, OwedIsTotal, OwedIsTotalNext
<1>4. /\ \A q \in S : Bill[q] = Cost(local[q])
      /\ \A q \in S' : Bill'[q] = Cost(local'[q])
  BY DEF Bill
<1>5. \A q \in Procs : /\ q \in S <=> local[q].pc = "settle"
                       /\ q \in S' <=> local'[q].pc = "settle"
  BY DEF CallAt
<1>6. Owed \in Int
  BY <1>3, TotalIsTyped
<1>7. CASE local[p].pc # "settle" /\ l.pc # "settle"
  <2>1. S' = S
    <3>1. S \subseteq Procs /\ S' \subseteq Procs
      OBVIOUS
    <3> HIDE DEF S
    <3> QED
      BY <1>2, <1>5, <1>7, <3>1
  <2>2. Bill' = Bill
    <3>1. \A q \in S : Bill'[q] = Bill[q]
      BY <1>2, <1>4, <1>5, <1>7, <2>1
    <3> HIDE DEF S
    <3> QED
      BY <1>3, <2>1, <3>1
  <2>3. Due(local[p]) = 0 /\ Due(l) = 0
    BY <1>7 DEF Due
  <2> QED
    BY <1>3, <1>6, <2>2, <2>3
<1>8. CASE local[p].pc # "settle" /\ l.pc = "settle"
  <2>1. S' = S \union {p} /\ p \notin S
    <3>1. S \subseteq Procs /\ S' \subseteq Procs
      OBVIOUS
    <3> HIDE DEF S
    <3> QED
      BY <1>2, <1>5, <1>8, <3>1
  <2>2. /\ \A q \in S : Bill'[q] = Bill[q]
        /\ Bill'[p] = Due(l) /\ Due(local[p]) = 0
    BY <1>2, <1>4, <1>5, <1>8, <2>1 DEF Due
  <2>3. Bill' \in [S \union {p} -> Int]
    <3> HIDE DEF S
    <3> QED
      BY <1>3, <2>1
  <2> DEFINE b == Bill
             c == Bill'
  <2>4. /\ b \in [S -> Int] /\ c \in [S \union {p} -> Int] /\ IsFiniteSet(S) /\ p \notin S
        /\ \A q \in S : c[q] = b[q]
    BY <1>3, <2>1, <2>2, <2>3
  <2>5. Total(c) = Total(b) + c[p]
    <3> HIDE DEF b, c, S
    <3> QED
      BY <2>4, TotalAdds
  <2> QED
    BY <1>1, <1>3, <1>6, <2>2, <2>5
<1>9. CASE local[p].pc = "settle" /\ l.pc # "settle"
  <2>1. S = S' \union {p} /\ p \notin S'
    <3>1. S \subseteq Procs /\ S' \subseteq Procs
      OBVIOUS
    <3> HIDE DEF S
    <3> QED
      BY <1>2, <1>5, <1>9, <3>1
  <2>2. /\ \A q \in S' : Bill'[q] = Bill[q]
        /\ Bill[p] = Due(local[p]) /\ Due(l) = 0
    BY <1>2, <1>4, <1>5, <1>9, <2>1 DEF Due
  <2> DEFINE b == Bill
             c == Bill'
             T == S'
  <2>4. /\ c \in [T -> Int] /\ b \in [T \union {p} -> Int] /\ IsFiniteSet(T) /\ p \notin T
        /\ \A q \in T : b[q] = c[q]
    BY <1>3, <2>1, <2>2
  <2>5. Total(b) = Total(c) + b[p]
    <3> HIDE DEF b, c, T
    <3> QED
      BY <2>4, TotalAdds
  <2>6. Total(c) \in Int
    BY <1>3, TotalIsTyped
  <2> QED
    BY <1>1, <1>3, <1>6, <2>2, <2>5, <2>6
<1> QED
  BY <1>7, <1>8, <1>9

\* The row is three sums, and a step moves both sides alike.
AddsUp(s, a, b, i) == s = a + b + i
ShiftAlike(s1, a1, b1, k, s, a, b, k1) == s1 - a1 - b1 + k = s - a - b + k1

\* The arithmetic of the two equations.
LEMMA BalanceAddsUp ==
  ASSUME NEW s \in Int, NEW s1 \in Int, NEW a \in Int, NEW a1 \in Int, NEW b \in Int,
         NEW b1 \in Int, NEW i \in Int, NEW k \in Int, NEW k1 \in Int,
         ShiftAlike(s1, a1, b1, k, s, a, b, k1), AddsUp(s, a, b, i)
  PROVE  AddsUp(s1, a1, b1, i - k + k1)
BY DEF ShiftAlike, AddsUp

LEMMA DebtsAddUp ==
  ASSUME NEW s \in Int, NEW s1 \in Int, NEW a \in Int, NEW a1 \in Int,
         NEW i \in Int, NEW k \in Int, NEW k1 \in Int,
         s1 - a1 + k = s - a + k1, s = a + i
  PROVE  s1 = a1 + (i - k + k1)
OBVIOUS

\* A step keeps the balance when it moves the row as it moves what is kept for the
\* call, and what is paid as it moves what the call owes.
LEMMA BalanceMoves ==
  ASSUME CallsTyped, CallsTyped', Balanced, NEW p \in Procs, NEW l \in Local, Moves(p, l),
         ~ (local[p].pc = "settle" /\ l.pc = "settle"),
         counts.faults <= counts'.faults, counts.kills <= counts'.kills,
         counts'.faults = 0 =>
           spent' - bills'.settled - bills'.stuck + Kept(local[p])
             = spent - bills.settled - bills.stuck + Kept(l),
         counts'.faults = 0 /\ counts'.kills = 0 =>
           bills'.paid - bills'.settled + Due(local[p]) = bills.paid - bills.settled + Due(l)
  PROVE  Balanced'
<1>1. /\ spent \in Int /\ spent' \in Int /\ counts.faults \in Nat /\ counts.kills \in Nat
      /\ counts'.faults \in Nat /\ counts'.kills \in Nat
      /\ bills.settled \in Int /\ bills.stuck \in Int /\ bills.paid \in Int
      /\ bills'.settled \in Int /\ bills'.stuck \in Int /\ bills'.paid \in Int
  BY CallAssumption DEF CallsTyped, LlmTypeOK
<1> SUFFICES ASSUME counts'.faults = 0
             PROVE  /\ spent' = bills'.settled + bills'.stuck + Estimate * Cardinality(InFlight')
                    /\ counts'.kills = 0 => bills'.paid = bills'.settled + Owed'
  BY DEF Balanced
<1>2. /\ counts.faults = 0
      /\ counts'.kills = 0 => counts.kills = 0
      /\ spent = bills.settled + bills.stuck + Estimate * Cardinality(InFlight)
      /\ counts.kills = 0 => bills.paid = bills.settled + Owed
  BY <1>1 DEF Balanced
<1> DEFINE i == Estimate * Cardinality(InFlight)
           j == Estimate * Cardinality(InFlight')
<1>3. i \in Int /\ j = i - Kept(local[p]) + Kept(l) /\ Kept(local[p]) \in Int /\ Kept(l) \in Int
  BY InFlightMoves
<1>4. /\ Owed \in Int /\ Due(local[p]) \in Int /\ Due(l) \in Int
      /\ Owed' = Owed - Due(local[p]) + Due(l)
  BY OwedMoves
<1>5. spent = bills.settled + bills.stuck + i
  BY <1>2
<1> SUFFICES /\ spent' = bills'.settled + bills'.stuck + j
             /\ counts'.kills = 0 => bills'.paid = bills'.settled + Owed'
  OBVIOUS
<1> HIDE DEF i, j
<1>6. spent' = bills'.settled + bills'.stuck + j
  <2>1. ShiftAlike(spent', bills'.settled, bills'.stuck, Kept(local[p]),
                  spent, bills.settled, bills.stuck, Kept(l))
    BY DEF ShiftAlike
  <2>2. AddsUp(spent, bills.settled, bills.stuck, i)
    BY <1>5 DEF AddsUp
  <2>3. AddsUp(spent', bills'.settled, bills'.stuck, i - Kept(local[p]) + Kept(l))
    BY <1>1, <1>3, <2>1, <2>2, BalanceAddsUp
  <2> QED
    BY <1>3, <2>3 DEF AddsUp
<1>7. ASSUME counts'.kills = 0 PROVE bills'.paid = bills'.settled + Owed'
  <2>1. bills'.paid - bills'.settled + Due(local[p]) = bills.paid - bills.settled + Due(l)
    BY <1>7
  <2>2. bills.paid = bills.settled + Owed
    BY <1>2, <1>7
  <2>3. bills'.paid = bills'.settled + (Owed - Due(local[p]) + Due(l))
    BY <1>1, <1>4, <2>1, <2>2, DebtsAddUp
  <2> QED
    BY <1>4, <2>3
<1> QED
  BY <1>6, <1>7

\* Every step keeps the balance.
LEMMA BalanceIsKept ==
  CallsTyped /\ CallsTyped' /\ Balanced /\ [LlmNext]_llmVars => Balanced'
<1> SUFFICES ASSUME CallsTyped, CallsTyped', Balanced, [LlmNext]_llmVars PROVE Balanced'
  OBVIOUS
<1>t. /\ spent \in Int /\ spent' \in Int /\ counts.faults \in Nat /\ counts.kills \in Nat
      /\ counts'.faults \in Nat /\ counts'.kills \in Nat
      /\ bills.settled \in Int /\ bills.stuck \in Int /\ bills.paid \in Int
      /\ bills'.settled \in Int /\ bills'.stuck \in Int /\ bills'.paid \in Int
  BY CallAssumption DEF CallsTyped, LlmTypeOK
<1>0. \A p \in Procs : /\ local[p] \in Local /\ local[p].reserved \in Int
                       /\ local[p].pc = "settle" => Cost(local[p]) \in Int
  BY LocalIsTyped, CostAssumption, CostIsBounded DEF Local, Knows
<1>1. CASE Tick \/ BeginChoice \/ EndChoice \/ UNCHANGED llmVars
  <2>1. UNCHANGED <<spent, bills, local>> /\ Same
    BY <1>1, OthersTurn
  <2>2. InFlight' = InFlight
    BY <2>1 DEF InFlight, Reserved
  <2>3. Owed' = Owed
    <3>1. Bill' = Bill
      BY <2>1 DEF Bill, CallAt
    <3> QED
      BY <3>1, OwedIsTotal, OwedIsTotalNext
  <2> QED
    BY <2>1, <2>2, <2>3 DEF Balanced, Same
<1> USE DEF Same, Faulted, Strands, Goes, Ends, Kept, Holding, Due
<1>2. ASSUME NEW p \in Procs, Command(p) PROVE Balanced'
  BY <1>2, <1>t, <1>0, CommandTurns, BalanceMoves
<1>3. ASSUME NEW p \in Procs, EndCommand(p) PROVE Balanced'
  BY <1>3, <1>t, <1>0, EndCommandTurns, BalanceMoves
<1>4. ASSUME NEW p \in Procs, CallLlm(p) PROVE Balanced'
  BY <1>4, <1>t, <1>0, CallLlmTurns, BalanceMoves
<1>5. ASSUME NEW p \in Procs, Reserve(p) PROVE Balanced'
  <2>1. PICK l \in Local :
          /\ Moves(p, l) /\ local[p].pc = "reserve" /\ UNCHANGED bills
          /\ \/ l.pc = "check" /\ l.reserved = 0 /\ spent' = spent /\ Same
             \/ l.pc = "check" /\ l.reserved = Estimate /\ spent' = spent + Estimate /\ Same
             \/ l.pc = "ready" /\ spent' = spent /\ (Same \/ Faulted)
    BY <1>5, ReserveTurns
  <2>2. Due(local[p]) = 0 /\ Due(l) = 0 /\ Kept(local[p]) = 0
    BY <2>1
  <2>3. spent' = spent + Kept(l) /\ Kept(l) \in Int
    <3>1. CASE l.pc = "check" /\ l.reserved = 0 /\ spent' = spent
      BY <1>t, <3>1
    <3>2. CASE l.pc = "check" /\ l.reserved = Estimate /\ spent' = spent + Estimate
      BY <3>2, CostAssumption
    <3>3. CASE l.pc = "ready" /\ spent' = spent
      BY <1>t, <3>3
    <3> QED
      BY <2>1, <3>1, <3>2, <3>3
  <2>4. counts.faults <= counts'.faults /\ counts.kills <= counts'.kills
    BY <1>t, <2>1
  <2> HIDE DEF Due, Kept
  <2>5. spent' - bills'.settled - bills'.stuck + Kept(local[p])
          = spent - bills.settled - bills.stuck + Kept(l)
    BY <1>t, <2>1, <2>2, <2>3
  <2>6. bills'.paid - bills'.settled + Due(local[p]) = bills.paid - bills.settled + Due(l)
    BY <1>t, <2>1, <2>2
  <2> QED
    BY <2>1, <2>4, <2>5, <2>6, BalanceMoves
<1>6. ASSUME NEW p \in Procs, CheckCircuit(p) PROVE Balanced'
  BY <1>6, <1>t, <1>0, CheckCircuitTurns, BalanceMoves
<1>7. ASSUME NEW p \in Procs, GetProvider(p) PROVE Balanced'
  BY <1>7, <1>t, <1>0, GetProviderTurns, BalanceMoves
<1>8. ASSUME NEW p \in Procs, Generate(p) PROVE Balanced'
  <2>1. PICK l \in Local :
          /\ Moves(p, l) /\ Knows(l) /\ local[p].pc = "send" /\ UNCHANGED spent /\ Same
          /\ l.reserved = local[p].reserved
          /\ \/ /\ l.pc = "settle" /\ bills'.paid = bills.paid + Cost(l)
                /\ bills'.settled = bills.settled /\ bills'.stuck = bills.stuck
             \/ l.pc = "refund" /\ UNCHANGED bills
    BY <1>8, GenerateTurns
  <2>2. Due(local[p]) = 0 /\ bills'.paid = bills.paid + Due(l) /\ Due(l) \in Int
    BY <1>t, <2>1, CostIsBounded DEF Knows
  <2>3. Kept(l) = Kept(local[p]) /\ Kept(l) \in Int
    BY <1>0, <2>1
  <2> HIDE DEF Due, Kept
  <2>4. spent' - bills'.settled - bills'.stuck + Kept(local[p])
          = spent - bills.settled - bills.stuck + Kept(l)
    BY <2>1, <2>3
  <2>5. bills'.paid - bills'.settled + Due(local[p]) = bills.paid - bills.settled + Due(l)
    BY <1>t, <2>1, <2>2
  <2> QED
    BY <1>t, <2>1, <2>4, <2>5, BalanceMoves
<1>9. ASSUME NEW p \in Procs, Settle(p) PROVE Balanced'
  BY <1>9, <1>t, <1>0, SettleTurns, BalanceMoves
<1>10. ASSUME NEW p \in Procs, RecordSuccess(p) PROVE Balanced'
  BY <1>10, <1>t, <1>0, RecordSuccessTurns, BalanceMoves
<1>11. ASSUME NEW p \in Procs, Refund(p) PROVE Balanced'
  BY <1>11, <1>t, <1>0, RefundTurns, BalanceMoves
<1>12. ASSUME NEW p \in Procs, RecordFailure(p) PROVE Balanced'
  BY <1>12, <1>t, <1>0, RecordFailureTurns, BalanceMoves
<1>13. ASSUME NEW p \in Procs, Retry(p) PROVE Balanced'
  BY <1>13, <1>t, <1>0, RetryTurns, BalanceMoves
<1>14. ASSUME NEW p \in Procs, KillCaller(p) PROVE Balanced'
  BY <1>14, <1>t, <1>0, KillTurns, BalanceMoves DEF Reserved
<1> QED
  BY <1>1, <1>2, <1>3, <1>4, <1>5, <1>6, <1>7, <1>8, <1>9, <1>10, <1>11, <1>12, <1>13, <1>14
     DEF LlmNext, CallStep

\* An empty row balances.
LEMMA BalancedAtStart == LlmInit => Balanced
<1> SUFFICES ASSUME LlmInit PROVE Balanced
  OBVIOUS
<1>1. InFlight = {} /\ DOMAIN Bill = {}
  BY DEF LlmInit, InFlight, Reserved, Out, Bill, CallAt
<1>2. Cardinality(InFlight) = 0 /\ Owed = 0
  BY <1>1, FS_EmptySet, EmptyTotal, OwedIsTotal, CallsStartTyped
<1> QED
  BY <1>2, CostAssumption DEF LlmInit, Balanced

-----------------------------------------------------------------------------
(* The ceiling.                                                            *)

\* What a call costs at most over its estimate.
Margin == MaxCost - Estimate

IsPaying(l) == l.pc \in {"check", "provider", "send", "settle"}

\* What of its reservation a call has not spent; an answer may cost more than that.
Withheld(l) == IF l.pc = "settle" THEN l.reserved - Cost(l) ELSE Kept(l)

\* A call whose cost is covered up to the margin; and a call, or one to come, that an
\* override lets through.
Covers(l) == IsPaying(l) /\ l.reserved = Estimate
Excuses(l) == l.override \/ (IsPaying(l) /\ l.reserved = 0)

Withholding == [p \in Procs |-> Withheld(local[p])]
Covered == {p \in Procs : Covers(local[p])}
Excused == {p \in Procs : Excuses(local[p])}

\* What the row does not show of what is paid, were every call in flight settled now; and
\* what the ceiling makes an exception for.
Gap == bills.paid - spent + Total(Withholding)
Excuse == counts.overrides + counts.faults

\* Overrides and failures excuse x of the calls that the row does not show and y of
\* those that took it over the ceiling.
Explained(gap, row, covered, excused, kills, excuses) ==
    \E x, y \in Nat :
        /\ x + y + excused <= excuses
        /\ gap <= Margin * kills + MaxCost * x
        /\ row <= Ceiling + Margin * (Cardinality(Procs) - covered) + MaxCost * y

MoneyOK == Explained(Gap, spent, Cardinality(Covered), Cardinality(Excused), counts.kills,
                     Excuse)

\* What the provers need to know of products.
LEMMA Distributes ==
  ASSUME NEW a \in Int, NEW i \in Int, NEW j \in Int
  PROVE  a * (i + j) = a * i + a * j /\ a * i \in Int /\ a * j \in Int
OBVIOUS

\* The constants of the bound.
LEMMA MoneyConstants ==
  /\ Margin \in Nat /\ MaxCost \in Nat /\ Ceiling \in Nat /\ Estimate \in Nat \ {0}
  /\ Margin + Estimate = MaxCost /\ Cardinality(Procs) \in Nat
BY CostAssumption, CallAssumption, FS_CardinalityType DEF Margin

\* A number grows by the margin, by the cost of a call, by both or not at all, and calls
\* that are excused use up an excuse each.
Grows(a1, a, d, e) ==
    a1 <= a + (IF d = 1 THEN Margin ELSE 0) + (IF e = 1 THEN MaxCost ELSE 0)
UsesUp(excused1, dx, dy, excuses, excused, excuses1) ==
    excused1 + dx + dy + excuses <= excused + excuses1

\* A step hides the cost of dx calls, takes the row over the ceiling for dy calls, kills dk
\* and settles dc of those that are covered.
Worsens(gap, row, covered, excused, kills, excuses,
        gap1, row1, covered1, excused1, kills1, excuses1, dx, dy, dk, dc) ==
    /\ gap \in Int /\ row \in Int /\ covered \in Nat /\ excused \in Nat
    /\ kills \in Nat /\ excuses \in Nat
    /\ gap1 \in Int /\ row1 \in Int /\ excused1 \in Nat /\ excuses1 \in Nat
    /\ dx \in {0, 1} /\ dy \in {0, 1} /\ dk \in {0, 1} /\ dc \in {0, 1}
    /\ Explained(gap, row, covered, excused, kills, excuses)
    /\ UsesUp(excused1, dx, dy, excuses, excused, excuses1)
    /\ Grows(gap1, gap, dk, dx) /\ Grows(row1, row, dc, dy)
    /\ covered1 = covered - dc /\ kills1 = kills + dk

\* A step of which Worsens says what it may do is explained when the state before is.
LEMMA Worsening ==
  \A gap, row, covered, excused, kills, excuses,
     gap1, row1, covered1, excused1, kills1, excuses1, dx, dy, dk, dc :
    Worsens(gap, row, covered, excused, kills, excuses,
            gap1, row1, covered1, excused1, kills1, excuses1, dx, dy, dk, dc)
    => Explained(gap1, row1, covered1, excused1, kills1, excuses1)
<1> SUFFICES ASSUME NEW gap, NEW row, NEW covered, NEW excused, NEW kills, NEW excuses,
                    NEW gap1, NEW row1, NEW covered1, NEW excused1, NEW kills1, NEW excuses1,
                    NEW dx, NEW dy, NEW dk, NEW dc,
                    Worsens(gap, row, covered, excused, kills, excuses, gap1, row1,
                            covered1, excused1, kills1, excuses1, dx, dy, dk, dc)
             PROVE  Explained(gap1, row1, covered1, excused1, kills1, excuses1)
  OBVIOUS
<1>0. /\ gap \in Int /\ row \in Int /\ covered \in Nat /\ excused \in Nat
      /\ kills \in Nat /\ excuses \in Nat
      /\ gap1 \in Int /\ row1 \in Int /\ excused1 \in Nat /\ excuses1 \in Nat
      /\ dx \in {0, 1} /\ dy \in {0, 1} /\ dk \in {0, 1} /\ dc \in {0, 1}
      /\ UsesUp(excused1, dx, dy, excuses, excused, excuses1)
      /\ Grows(gap1, gap, dk, dx) /\ Grows(row1, row, dc, dy)
      /\ covered1 = covered - dc /\ kills1 = kills + dk
  BY DEF Worsens
<1>1. PICK x \in Nat, y \in Nat :
        /\ x + y + excused <= excuses
        /\ gap <= Margin * kills + MaxCost * x
        /\ row <= Ceiling + Margin * (Cardinality(Procs) - covered) + MaxCost * y
  BY DEF Worsens, Explained
<1> DEFINE n == Cardinality(Procs)
<1>2. /\ Margin \in Nat /\ MaxCost \in Nat /\ Ceiling \in Nat /\ n \in Nat
  BY MoneyConstants
<1> HIDE DEF n
<1>3. /\ Margin * (kills + dk) = Margin * kills + Margin * dk /\ Margin * kills \in Int
      /\ MaxCost * (x + dx) = MaxCost * x + MaxCost * dx /\ MaxCost * x \in Int
      /\ MaxCost * (y + dy) = MaxCost * y + MaxCost * dy /\ MaxCost * y \in Int
      /\ Margin * ((n - covered) + dc) = Margin * (n - covered) + Margin * dc
      /\ Margin * (n - covered) \in Int
  BY <1>0, <1>2, Distributes
<1>4. /\ Margin * dk = IF dk = 1 THEN Margin ELSE 0
      /\ Margin * dc = IF dc = 1 THEN Margin ELSE 0
      /\ MaxCost * dx = IF dx = 1 THEN MaxCost ELSE 0
      /\ MaxCost * dy = IF dy = 1 THEN MaxCost ELSE 0
  BY <1>0, <1>2
<1>5. n - (covered - dc) = (n - covered) + dc
  BY <1>0, <1>2
<1>6. gap1 <= Margin * (kills + dk) + MaxCost * (x + dx)
  BY <1>0, <1>1, <1>2, <1>3, <1>4 DEF Grows
<1>7. row1 <= Ceiling + Margin * (n - (covered - dc)) + MaxCost * (y + dy)
  <2>1. row <= Ceiling + Margin * (n - covered) + MaxCost * y
    BY <1>1 DEF n
  <2> QED
    BY <1>0, <2>1, <1>2, <1>3, <1>4, <1>5 DEF Grows
<1>8. x + dx \in Nat /\ y + dy \in Nat /\ (x + dx) + (y + dy) + excused1 <= excuses1
  BY <1>0, <1>1 DEF UsesUp
<1> QED
  BY <1>0, <1>6, <1>7, <1>8 DEF Explained, n

\* A new reservation is within the ceiling.
LEMMA WithinCeiling ==
  ASSUME NEW gap \in Int, NEW row \in Int, NEW covered \in Nat, NEW excused \in Nat,
         NEW kills \in Nat, NEW excuses \in Nat,
         NEW row1 \in Int, NEW covered1 \in Nat, NEW excused1 \in Nat,
         Explained(gap, row, covered, excused, kills, excuses),
         excused1 <= excused, row1 <= Ceiling, covered1 <= Cardinality(Procs)
  PROVE  Explained(gap, row1, covered1, excused1, kills, excuses)
<1>1. PICK x \in Nat, y \in Nat :
        /\ x + y + excused <= excuses
        /\ gap <= Margin * kills + MaxCost * x
  BY DEF Explained
<1> DEFINE n == Cardinality(Procs)
<1>2. /\ Margin \in Nat /\ MaxCost \in Nat /\ Ceiling \in Nat /\ n \in Nat /\ n - covered1 \in Nat
  BY MoneyConstants
<1>3. Margin * (n - covered1) \in Nat /\ MaxCost * 0 = 0
  BY <1>2, Product
<1>4. row1 <= Ceiling + Margin * (n - covered1) + MaxCost * 0
  <2> HIDE DEF n
  <2> QED
    BY <1>2, <1>3
<1>5. x + 0 + excused1 <= excuses
  BY <1>1
<1> QED
  BY <1>1, <1>4, <1>5 DEF Explained

\* What a call withholds is an integer, and its reservation the estimate or nothing.
LEMMA WithheldIsTyped ==
  ASSUME NEW l \in Local, Knows(l)
  PROVE  /\ Withheld(l) \in Int /\ Kept(l) \in Nat
         /\ l.pc = "settle" => Cost(l) \in Nat /\ Cost(l) <= MaxCost
         /\ l.reserved = 0 \/ l.reserved = Estimate
<1>1. l.pc = "settle" => Cost(l) \in Nat /\ Cost(l) <= MaxCost
  BY CostIsBounded DEF Knows
<1>2. l.reserved \in Nat /\ (l.reserved = 0 \/ l.reserved = Estimate)
  BY CostAssumption DEF Local
<1> QED
  BY <1>1, <1>2 DEF Withheld, Kept

\* One or none.
One(b) == IF b THEN 1 ELSE 0

\* The numbers that MoneyOK is about, after a step of one call.
LEMMA MoneyMoves ==
  ASSUME CallsTyped, CallsTyped', NEW p \in Procs, NEW l \in Local, Moves(p, l)
  PROVE  /\ Gap \in Int /\ Withheld(local[p]) \in Int /\ Withheld(l) \in Int
         /\ Gap' \in Int
         /\ Gap' = Gap - (bills.paid - spent) - Withheld(local[p])
                   + (bills'.paid - spent') + Withheld(l)
         /\ Cardinality(Covered) \in Nat /\ Cardinality(Covered') \in Nat
         /\ Cardinality(Covered') <= Cardinality(Procs)
         /\ Cardinality(Covered') = Cardinality(Covered) - One(Covers(local[p])) + One(Covers(l))
         /\ Cardinality(Excused) \in Nat /\ Cardinality(Excused') \in Nat
         /\ Cardinality(Excused') = Cardinality(Excused) - One(Excuses(local[p]))
                                    + One(Excuses(l))
<1>0. /\ local[p] \in Local /\ Knows(local[p]) /\ local \in [Procs -> Local]
      /\ local' \in [Procs -> Local] /\ \A q \in Procs : local'[q] = IF q = p THEN l ELSE local[q]
  BY LocalIsTyped DEF Moves, Knows, Local
<1>1. /\ \A q \in Procs : Knows(local[q]) /\ Knows(local'[q])
  BY DEF CallsTyped, ProvidersKnown, Knows
<1>2. /\ Withholding \in [Procs -> Int] /\ Withholding' \in [Procs -> Int]
      /\ \A q \in Procs \ {p} : Withholding'[q] = Withholding[q]
      /\ Withholding[p] = Withheld(local[p]) /\ Withholding'[p] = Withheld(l)
      /\ Withheld(local[p]) \in Int /\ Withheld(l) \in Int
  BY <1>0, <1>1, WithheldIsTyped DEF Withholding
<1>3. IsFiniteSet(Procs)
  BY CallAssumption
<1>4. /\ Total(Withholding) \in Int
      /\ Total(Withholding') = Total(Withholding) - Withholding[p] + Withholding'[p]
  BY <1>2, <1>3, TotalMoves
<1>5. spent \in Int /\ spent' \in Int /\ bills.paid \in Int /\ bills'.paid \in Int
  BY DEF CallsTyped, LlmTypeOK
<1>6. /\ Gap \in Int /\ Gap' \in Int
      /\ Gap' = Gap - (bills.paid - spent) - Withheld(local[p])
                + (bills'.paid - spent') + Withheld(l)
  BY <1>2, <1>4, <1>5 DEF Gap
<1>7. /\ Covered \in SUBSET Procs /\ Covered' \in SUBSET Procs
      /\ \A q \in Procs \ {p} : q \in Covered <=> q \in Covered'
      /\ (p \in Covered <=> Covers(local[p])) /\ (p \in Covered' <=> Covers(l))
  BY <1>0 DEF Covered
<1>8. /\ Excused \in SUBSET Procs /\ Excused' \in SUBSET Procs
      /\ \A q \in Procs \ {p} : q \in Excused <=> q \in Excused'
      /\ (p \in Excused <=> Excuses(local[p])) /\ (p \in Excused' <=> Excuses(l))
  BY <1>0 DEF Excused
<1>9. /\ Cardinality(Covered) \in Nat /\ Cardinality(Covered') \in Nat
      /\ Cardinality(Covered') = Cardinality(Covered) - One(Covers(local[p])) + One(Covers(l))
  BY <1>3, <1>7, MembersMove DEF One
<1>10. /\ Cardinality(Excused) \in Nat /\ Cardinality(Excused') \in Nat
       /\ Cardinality(Excused') = Cardinality(Excused) - One(Excuses(local[p]))
                                  + One(Excuses(l))
  BY <1>3, <1>8, MembersMove DEF One
<1>11. Cardinality(Covered') <= Cardinality(Procs)
  BY <1>3, <1>7, FS_Subset
<1> QED
  BY <1>2, <1>6, <1>9, <1>10, <1>11

\* What a step may do: dx, dy and dk are 1 when it hides the cost of a call, goes over
\* the ceiling for a call that is excused, and kills.
Explains(p, l, dx, dy, dk) ==
    /\ counts'.kills = counts.kills + dk
    /\ One(Excuses(l)) + dx + dy + Excuse <= One(Excuses(local[p])) + Excuse'
    /\ bills'.paid - spent' + Withheld(l)
         <= bills.paid - spent + Withheld(local[p])
            + (IF dk = 1 THEN Margin ELSE 0) + (IF dx = 1 THEN MaxCost ELSE 0)
    /\ Covers(l) => Covers(local[p])
    /\ spent' <= spent + (IF Covers(local[p]) /\ ~ Covers(l) THEN Margin ELSE 0)
                       + (IF dy = 1 THEN MaxCost ELSE 0)

\* The books hold integers.
LEMMA BooksAreIntegers ==
  ASSUME CallsTyped, CallsTyped'
  PROVE  /\ spent \in Int /\ spent' \in Int /\ bills.paid \in Int /\ bills'.paid \in Int
         /\ bills.stuck \in Int /\ bills.settled \in Int
         /\ counts.kills \in Nat /\ counts'.kills \in Nat
         /\ counts.faults \in Nat /\ counts'.faults \in Nat
         /\ counts.overrides \in Nat /\ counts'.overrides \in Nat
         /\ Excuse \in Nat /\ Excuse' \in Nat
BY CallAssumption DEF CallsTyped, LlmTypeOK, Excuse

\* The arithmetic of the excuses.
LEMMA ExcusesAddUp ==
  ASSUME NEW x \in Nat, NEW b \in {0, 1}, NEW b1 \in {0, 1}, NEW dx \in {0, 1},
         NEW dy \in {0, 1}, NEW e \in Nat, NEW e1 \in Nat, UsesUp(b1, dx, dy, e, b, e1)
  PROVE  UsesUp(x - b + b1, dx, dy, e, x, e1)
BY DEF UsesUp

\* A step that explains itself keeps the invariant.
LEMMA ExplainedMoves ==
  ASSUME CallsTyped, CallsTyped', MoneyOK, NEW p \in Procs, NEW l \in Local, Moves(p, l),
         NEW dx \in {0, 1}, NEW dy \in {0, 1}, NEW dk \in {0, 1}, Explains(p, l, dx, dy, dk)
  PROVE  MoneyOK'
<1> DEFINE dc == One(Covers(local[p]) /\ ~ Covers(l))
           c == Cardinality(Covered)
           c1 == Cardinality(Covered')
           x == Cardinality(Excused)
           x1 == Cardinality(Excused')
           b == One(Excuses(local[p]))
           b1 == One(Excuses(l))
<1>0. /\ spent \in Int /\ spent' \in Int /\ counts.kills \in Nat /\ Excuse \in Nat
      /\ Excuse' \in Nat /\ bills.paid \in Int /\ bills'.paid \in Int
  BY BooksAreIntegers
<1>1. /\ Gap \in Int /\ Withheld(local[p]) \in Int /\ Withheld(l) \in Int
      /\ Gap' \in Int
      /\ Gap' = Gap - (bills.paid - spent) - Withheld(local[p])
                + (bills'.paid - spent') + Withheld(l)
  BY MoneyMoves
<1>2. /\ c \in Nat /\ c1 \in Nat /\ x \in Nat /\ x1 \in Nat
      /\ x1 = x - b + b1 /\ b \in {0, 1} /\ b1 \in {0, 1}
  BY MoneyMoves DEF One
<1>3. c1 = c - dc /\ dc \in {0, 1}
  BY <1>2, MoneyMoves DEF One, Explains
<1>4. Margin \in Nat /\ MaxCost \in Nat
  BY MoneyConstants
<1>5. Explained(Gap, spent, c, x, counts.kills, Excuse)
  BY DEF MoneyOK
<1>6. Grows(Gap', Gap, dk, dx)
  BY <1>0, <1>1, <1>4 DEF Explains, Grows
<1>7. Grows(spent', spent, dc, dy)
  BY DEF Explains, One, Grows
<1>8. UsesUp(b1, dx, dy, Excuse, b, Excuse')
  BY DEF Explains, UsesUp
<1> HIDE DEF b, b1, dc, c, c1, x, x1
<1>9. UsesUp(x1, dx, dy, Excuse, x, Excuse')
  BY <1>0, <1>2, <1>8, ExcusesAddUp
<1>10. counts'.kills = counts.kills + dk
  BY DEF Explains
<1>11. Gap \in Int /\ Gap' \in Int
  BY <1>1
<1>12. Explained(Gap', spent', c1, x1, counts'.kills, Excuse')
  <2>1. Worsens(Gap, spent, c, x, counts.kills, Excuse,
                Gap', spent', c1, x1, counts'.kills, Excuse', dx, dy, dk, dc)
    BY <1>0, <1>2, <1>3, <1>5, <1>6, <1>7, <1>9, <1>10, <1>11 DEF Worsens
  <2> QED
    BY <2>1, Worsening
<1> QED
  BY <1>12 DEF MoneyOK, c1, x1

\* And every step does.
LEMMA MoneyIsKept ==
  CallsTyped /\ CallsTyped' /\ MoneyOK /\ [LlmNext]_llmVars => MoneyOK'
<1> SUFFICES ASSUME CallsTyped, CallsTyped', MoneyOK, [LlmNext]_llmVars PROVE MoneyOK'
  OBVIOUS
<1>t. /\ spent \in Int /\ spent' \in Int /\ bills.paid \in Int /\ bills'.paid \in Int
      /\ bills.stuck \in Int /\ bills.settled \in Int
      /\ counts.kills \in Nat /\ counts'.kills \in Nat
      /\ counts.faults \in Nat /\ counts'.faults \in Nat
      /\ counts.overrides \in Nat /\ counts'.overrides \in Nat
  BY BooksAreIntegers
<1>c. /\ Margin \in Nat /\ MaxCost \in Nat /\ Estimate \in Nat \ {0}
      /\ Margin + Estimate = MaxCost
  BY MoneyConstants
<1>0. \A p \in Procs : /\ local[p] \in Local /\ Knows(local[p])
                       /\ Withheld(local[p]) \in Int /\ Kept(local[p]) \in Nat
                       /\ local[p].pc = "settle" =>
                            Cost(local[p]) \in Nat /\ Cost(local[p]) <= MaxCost
                       /\ local[p].reserved = 0 \/ local[p].reserved = Estimate
  BY LocalIsTyped, WithheldIsTyped
<1>l. \A l \in Local : Knows(l) => /\ Withheld(l) \in Int /\ Kept(l) \in Nat
                                   /\ l.pc = "settle" => Cost(l) \in Nat /\ Cost(l) <= MaxCost
                                   /\ l.reserved = 0 \/ l.reserved = Estimate
  BY WithheldIsTyped
<1>1. CASE Tick \/ BeginChoice \/ EndChoice \/ UNCHANGED llmVars
  <2>1. UNCHANGED <<spent, bills, local>> /\ Same
    BY <1>1, OthersTurn
  <2>2. Withholding' = Withholding /\ Covered' = Covered /\ Excused' = Excused
    BY <2>1 DEF Withholding, Covered, Excused
  <2> QED
    BY <2>1, <2>2 DEF MoneyOK, Same, Gap, Excuse
<1> USE DEF Same, Faulted, Strands, Goes, Ends, Kept, Holding, Withheld, Covers, Excuses,
            IsPaying, One, Excuse, Explains
<1>2. ASSUME NEW p \in Procs, Command(p) PROVE MoneyOK'
  <2>1. PICK l \in Local :
           /\ Moves(p, l) /\ local[p].pc = "out" /\ l.pc = "ready"
           /\ UNCHANGED <<spent, bills>> /\ counts'.kills = counts.kills
           /\ counts'.faults = counts.faults
           /\ counts'.overrides = IF l.override THEN counts.overrides + 1 ELSE counts.overrides
    BY <1>2, CommandTurns
  <2>2. Explains(p, l, 0, 0, 0)
    BY <1>t, <1>c, <1>0, <2>1
  <2> QED
    BY <2>1, <2>2, ExplainedMoves
<1>3. ASSUME NEW p \in Procs, EndCommand(p) PROVE MoneyOK'
  <2>1. PICK l \in Local :
           /\ Moves(p, l) /\ local[p].pc = "ready" /\ l.pc = "out"
           /\ ~ l.override /\ UNCHANGED <<spent, bills>> /\ Same
    BY <1>3, EndCommandTurns
  <2>2. Explains(p, l, 0, 0, 0)
    BY <1>t, <1>c, <1>0, <2>1
  <2> QED
    BY <2>1, <2>2, ExplainedMoves
<1>4. ASSUME NEW p \in Procs, CallLlm(p) PROVE MoneyOK'
  <2>1. PICK l \in Local :
           /\ Moves(p, l) /\ local[p].pc = "ready"
           /\ Goes(p, l, "reserve") /\ UNCHANGED <<spent, bills>> /\ Same
    BY <1>4, CallLlmTurns
  <2>2. Explains(p, l, 0, 0, 0)
    BY <1>t, <1>c, <1>0, <2>1
  <2> QED
    BY <2>1, <2>2, ExplainedMoves
<1>6. ASSUME NEW p \in Procs, CheckCircuit(p) PROVE MoneyOK'
  <2>1. PICK l \in Local :
           /\ Moves(p, l) /\ Knows(l) /\ local[p].pc = "check"
           /\ UNCHANGED spent
           /\ \/ Goes(p, l, "provider") /\ UNCHANGED bills /\ Same
              \/ Ends(p, l) /\ Strands(p) /\ (Same \/ Faulted)
    BY <1>6, CheckCircuitTurns
  <2>2. Explains(p, l, 0, 0, 0)
    BY <1>t, <1>c, <1>0, <2>1
  <2> QED
    BY <2>1, <2>2, ExplainedMoves
<1>7. ASSUME NEW p \in Procs, GetProvider(p) PROVE MoneyOK'
  <2>1. PICK l \in Local :
           /\ Moves(p, l) /\ Knows(l) /\ local[p].pc = "provider"
           /\ UNCHANGED spent /\ Same
           /\ \/ /\ l.pc = "send" /\ l.reserved = local[p].reserved
                 /\ l.override = local[p].override /\ UNCHANGED bills
              \/ Ends(p, l) /\ Strands(p)
    BY <1>7, GetProviderTurns
  <2>2. Explains(p, l, 0, 0, 0)
    BY <1>t, <1>c, <1>0, <2>1
  <2> QED
    BY <2>1, <2>2, ExplainedMoves
<1>8. ASSUME NEW p \in Procs, Generate(p) PROVE MoneyOK'
  <2>1. PICK l \in Local :
           /\ Moves(p, l) /\ Knows(l) /\ local[p].pc = "send"
           /\ UNCHANGED spent /\ Same
           /\ \/ /\ Goes(p, l, "settle") /\ bills'.paid = bills.paid + Cost(l)
              \/ Goes(p, l, "refund") /\ UNCHANGED bills
    BY <1>8, GenerateTurns
  <2>2. Explains(p, l, 0, 0, 0)
    BY <1>t, <1>c, <1>0, <1>l, <2>1
  <2> QED
    BY <2>1, <2>2, ExplainedMoves
<1>10. ASSUME NEW p \in Procs, RecordSuccess(p) PROVE MoneyOK'
  <2>1. PICK l \in Local :
           /\ Moves(p, l) /\ local[p].pc = "success" /\ UNCHANGED <<spent, bills>>
           /\ \/ Ends(p, l) /\ Same
              \/ Goes(p, l, "refund") /\ Faulted
    BY <1>10, RecordSuccessTurns
  <2>2. CASE Ends(p, l) /\ Same
    <3>1. Explains(p, l, 0, 0, 0)
      BY <1>t, <1>c, <1>0, <2>1, <2>2
    <3> QED
      BY <2>1, <3>1, ExplainedMoves
  <2>3. CASE Goes(p, l, "refund") /\ Faulted
    <3>1. Explains(p, l, 1, 0, 0)
      BY <1>t, <1>c, <1>0, <2>1, <2>3
    <3> QED
      BY <2>1, <3>1, ExplainedMoves
  <2> QED
    BY <2>1, <2>2, <2>3
<1>11. ASSUME NEW p \in Procs, Refund(p) PROVE MoneyOK'
  <2>1. PICK l \in Local :
           /\ Moves(p, l) /\ local[p].pc = "refund"
           /\ \/ /\ l.pc \in {"trip", "ready"} /\ l.override = local[p].override
                 /\ spent' = spent - local[p].reserved /\ UNCHANGED bills /\ Same
              \/ Ends(p, l) /\ Strands(p) /\ UNCHANGED spent /\ Faulted
    BY <1>11, RefundTurns
  <2>2. Explains(p, l, 0, 0, 0)
    BY <1>t, <1>c, <1>0, <2>1
  <2> QED
    BY <2>1, <2>2, ExplainedMoves
<1>12. ASSUME NEW p \in Procs, RecordFailure(p) PROVE MoneyOK'
  <2>1. PICK l \in Local :
           /\ Moves(p, l) /\ local[p].pc = "trip"
           /\ l.pc \in {"backoff", "ready"} /\ l.override = local[p].override
           /\ UNCHANGED <<spent, bills>> /\ (Same \/ Faulted)
    BY <1>12, RecordFailureTurns
  <2>2. Explains(p, l, 0, 0, 0)
    BY <1>t, <1>c, <1>0, <2>1
  <2> QED
    BY <2>1, <2>2, ExplainedMoves
<1>13. ASSUME NEW p \in Procs, Retry(p) PROVE MoneyOK'
  <2>1. PICK l \in Local :
           /\ Moves(p, l) /\ local[p].pc = "backoff"
           /\ Goes(p, l, "reserve") /\ UNCHANGED <<spent, bills>> /\ Same
    BY <1>13, RetryTurns
  <2>2. Explains(p, l, 0, 0, 0)
    BY <1>t, <1>c, <1>0, <2>1
  <2> QED
    BY <2>1, <2>2, ExplainedMoves
<1>9. ASSUME NEW p \in Procs, Settle(p) PROVE MoneyOK'
  <2>1. PICK l \in Local :
           /\ Moves(p, l) /\ local[p].pc = "settle"
           /\ \/ /\ Goes(p, l, "success") /\ Same
                 /\ spent' = spent - local[p].reserved + Cost(local[p])
                 /\ bills'.paid = bills.paid
              \/ Goes(p, l, "refund") /\ UNCHANGED <<spent, bills>> /\ Faulted
    BY <1>9, SettleTurns
  <2>2. CASE Goes(p, l, "success") /\ local[p].reserved = Estimate
    <3>1. Explains(p, l, 0, 0, 0)
      BY <1>t, <1>c, <1>0, <2>1, <2>2
    <3> QED
      BY <2>1, <3>1, ExplainedMoves
  <2>3. CASE Goes(p, l, "success") /\ local[p].reserved = 0
    <3>1. Explains(p, l, 0, 1, 0)
      BY <1>t, <1>c, <1>0, <2>1, <2>3 DEF Knows
    <3> QED
      BY <2>1, <3>1, ExplainedMoves
  <2>4. CASE Goes(p, l, "refund")
    <3>1. Explains(p, l, 1, 0, 0)
      BY <1>t, <1>c, <1>0, <2>1, <2>4
    <3> QED
      BY <2>1, <3>1, ExplainedMoves
  <2> QED
    BY <1>0, <2>1, <2>2, <2>3, <2>4
<1>14. ASSUME NEW p \in Procs, KillCaller(p) PROVE MoneyOK'
  <2>1. PICK l \in Local :
           /\ Moves(p, l) /\ l.pc = "out" /\ ~ l.override
           /\ UNCHANGED spent
           /\ counts'.kills = counts.kills + 1 /\ counts'.faults = counts.faults
           /\ counts'.overrides = counts.overrides
           /\ bills'.paid = bills.paid
    BY <1>14, KillTurns
  <2>2. CASE local[p].pc = "settle" /\ local[p].reserved = 0
    <3>1. Explains(p, l, 1, 0, 1)
      BY <1>t, <1>c, <1>0, <2>1, <2>2
    <3> QED
      BY <2>1, <3>1, ExplainedMoves
  <2>3. CASE ~ (local[p].pc = "settle" /\ local[p].reserved = 0)
    <3>1. Explains(p, l, 0, 0, 1)
      BY <1>t, <1>c, <1>0, <2>1, <2>3
    <3> QED
      BY <2>1, <3>1, ExplainedMoves
  <2> QED
    BY <2>2, <2>3
<1>5. ASSUME NEW p \in Procs, Reserve(p) PROVE MoneyOK'
  <2>1. PICK l \in Local :
           /\ Moves(p, l) /\ Knows(l) /\ local[p].pc = "reserve" /\ UNCHANGED bills
           /\ \/ /\ l.pc = "check" /\ l.reserved = 0 /\ local[p].override
                 /\ spent' = spent /\ Same
              \/ /\ l.pc = "check" /\ l.reserved = Estimate /\ ~ local[p].override
                 /\ spent + Estimate <= Ceiling /\ spent' = spent + Estimate /\ Same
              \/ Ends(p, l) /\ spent' = spent /\ (Same \/ Faulted)
    BY <1>5, ReserveTurns
  <2>2. CASE (l.pc = "check" /\ l.reserved = 0 /\ local[p].override) \/ l.pc = "ready"
    <3>1. Explains(p, l, 0, 0, 0)
      BY <1>t, <1>c, <1>0, <2>1, <2>2
    <3> QED
      BY <2>1, <3>1, ExplainedMoves
  <2>3. CASE /\ l.pc = "check" /\ l.reserved = Estimate /\ ~ local[p].override
             /\ spent + Estimate <= Ceiling /\ spent' = spent + Estimate /\ Same
    <3>1. ~ Excuses(l) /\ Withheld(l) = Withheld(local[p]) + Estimate
      BY <1>c, <2>1, <2>3 DEF Knows
    <3>2. Gap' = Gap /\ Gap \in Int
      <4>1. bills'.paid = bills.paid
        BY <2>1
      <4> HIDE DEF Withheld
      <4> QED
        BY <1>t, <1>c, <2>1, <2>3, <3>1, <4>1, MoneyMoves
    <3>3. /\ Cardinality(Excused') <= Cardinality(Excused) /\ Cardinality(Excused) \in Nat
          /\ Cardinality(Excused') \in Nat
          /\ Cardinality(Covered) \in Nat /\ Cardinality(Covered') \in Nat
          /\ Cardinality(Covered') <= Cardinality(Procs)
      BY <2>1, <2>3, <3>1, MoneyMoves
    <3>4. Excuse' = Excuse /\ counts'.kills = counts.kills /\ Excuse \in Nat
      BY <1>t, <2>3
    <3> HIDE DEF Excuse
    <3>5. Explained(Gap, spent, Cardinality(Covered), Cardinality(Excused), counts.kills, Excuse)
      BY DEF MoneyOK
    <3>6. Explained(Gap, spent', Cardinality(Covered'), Cardinality(Excused'), counts.kills, Excuse)
      BY <1>t, <2>3, <3>2, <3>3, <3>4, <3>5, WithinCeiling
    <3> QED
      BY <3>2, <3>4, <3>6 DEF MoneyOK
  <2> QED
    BY <2>1, <2>2, <2>3
<1> QED
  BY <1>1, <1>2, <1>3, <1>4, <1>5, <1>6, <1>7, <1>8, <1>9, <1>10, <1>11, <1>12, <1>13, <1>14
     DEF LlmNext, CallStep

\* Nothing is to be explained at the start.
LEMMA MoneyAtStart == LlmInit => MoneyOK
<1> SUFFICES ASSUME LlmInit PROVE MoneyOK
  OBVIOUS
<1>0. IsFiniteSet(Procs)
  BY CallAssumption
<1>1. \A p \in Procs : Withheld(local[p]) = 0 /\ ~ Covers(local[p]) /\ ~ Excuses(local[p])
  BY DEF LlmInit, Out, Withheld, Kept, Holding, Covers, Excuses, IsPaying
<1>2. Cardinality(Covered) = 0 /\ Cardinality(Excused) = 0
  <2>1. Covered = {} /\ Excused = {}
    BY <1>1 DEF Covered, Excused
  <2> QED
    BY <2>1, FS_EmptySet
<1>3. Withholding \in [Procs -> Int] /\ \A p \in Procs : Withholding[p] = 0
  BY <1>1 DEF Withholding
<1>4. Total(Withholding) = 0
  BY <1>0, <1>3, TotalOfZeros
<1>5. Gap = 0 /\ Excuse = 0 /\ spent = 0 /\ counts.kills = 0
  BY <1>4 DEF LlmInit, Gap, Excuse
<1> DEFINE n == Cardinality(Procs)
<1>6. /\ n \in Nat /\ Margin \in Nat /\ Ceiling \in Nat /\ MaxCost \in Nat
  BY MoneyConstants
<1>7. /\ 0 + 0 + 0 <= 0
      /\ 0 <= Margin * 0 + MaxCost * 0
      /\ 0 <= Ceiling + Margin * (n - 0) + MaxCost * 0
  <2> HIDE DEF n
  <2>1. Margin * n \in Nat
    BY <1>6, Product
  <2> QED
    BY <1>6, <2>1
<1>8. Explained(0, 0, 0, 0, 0, 0)
  BY <1>7 DEF Explained
<1> QED
  BY <1>2, <1>5, <1>8 DEF MoneyOK

\* What the row does not show is withheld, or explained.
LEMMA ExplainedCeiling ==
  ASSUME NEW paid \in Int, NEW row \in Int, NEW total \in Int, NEW covered \in Nat,
         NEW excused \in Nat, NEW kills \in Nat, NEW excuses \in Nat,
         Explained(paid - row + total, row, covered, excused, kills, excuses),
         total + Margin * covered + MaxCost * excused >= 0
  PROVE  paid <= Ceiling + Margin * (Cardinality(Procs) + kills) + MaxCost * excuses
<1> DEFINE n == Cardinality(Procs)
<1>1. PICK x \in Nat, y \in Nat :
        /\ x + y + excused <= excuses
        /\ paid - row + total <= Margin * kills + MaxCost * x
        /\ row <= Ceiling + Margin * (n - covered) + MaxCost * y
  BY DEF Explained
<1>2. /\ Margin \in Nat /\ MaxCost \in Nat /\ Ceiling \in Nat /\ n \in Nat
  BY MoneyConstants
<1> HIDE DEF n
<1>3. /\ Margin * ((n - covered) + covered) = Margin * (n - covered) + Margin * covered
      /\ Margin * (n - covered) \in Int /\ Margin * covered \in Int
      /\ Margin * (n + kills) = Margin * n + Margin * kills
      /\ Margin * n \in Int /\ Margin * kills \in Int
      /\ MaxCost * ((x + y) + excused) = MaxCost * (x + y) + MaxCost * excused
      /\ MaxCost * (x + y) = MaxCost * x + MaxCost * y
      /\ MaxCost * x \in Int /\ MaxCost * y \in Int /\ MaxCost * excused \in Int
  BY <1>2, Distributes
<1>4. (n - covered) + covered = n
  BY <1>2
<1>5. MaxCost * ((x + y) + excused) <= MaxCost * excuses /\ MaxCost * excuses \in Int
  BY <1>1, <1>2, Monotone
<1>6. paid <= Ceiling + Margin * (n + kills) + MaxCost * excuses
  BY <1>1, <1>2, <1>3, <1>4, <1>5
<1> QED
  BY <1>6 DEF n

\* The invariant bounds what is paid: a call withholds less than nothing only by the margin,
\* or by its cost when it is excused.
LEMMA MoneyMeansCeiling == CallsTyped /\ MoneyOK => HardCeiling
<1> SUFFICES ASSUME CallsTyped, MoneyOK PROVE HardCeiling
  OBVIOUS
<1>1. /\ Margin \in Nat /\ MaxCost \in Nat /\ Estimate \in Nat \ {0}
      /\ Margin + Estimate = MaxCost
  BY MoneyConstants
<1>2. IsFiniteSet(Procs)
  BY CallAssumption
<1>3. \A p \in Procs : /\ Knows(local[p])
                       /\ Withheld(local[p]) \in Int /\ Kept(local[p]) \in Nat
                       /\ local[p].pc = "settle" =>
                            Cost(local[p]) \in Nat /\ Cost(local[p]) <= MaxCost
                       /\ local[p].reserved = 0 \/ local[p].reserved = Estimate
  BY LocalIsTyped, WithheldIsTyped
<1>4. Withholding \in [Procs -> Int] /\ Covered \in SUBSET Procs /\ Excused \in SUBSET Procs
  BY <1>3 DEF Withholding, Covered, Excused
<1>5. \A p \in Procs : Withholding[p] + (IF p \in Covered THEN Margin ELSE 0)
                                      + (IF p \in Excused THEN MaxCost ELSE 0) >= 0
  <2> SUFFICES ASSUME NEW p \in Procs
               PROVE  Withheld(local[p]) + (IF Covers(local[p]) THEN Margin ELSE 0)
                                         + (IF Excuses(local[p]) THEN MaxCost ELSE 0) >= 0
    BY DEF Withholding, Covered, Excused
  <2>1. CASE local[p].pc = "settle"
    BY <1>1, <1>3, <2>1 DEF Withheld, Covers, Excuses, IsPaying
  <2>2. CASE local[p].pc # "settle"
    <3>1. Withheld(local[p]) \in Nat
      BY <1>3, <2>2 DEF Withheld
    <3> QED
      BY <1>1, <3>1
  <2> QED
    BY <2>1, <2>2
<1>6. Total(Withholding) + Margin * Cardinality(Covered) + MaxCost * Cardinality(Excused) >= 0
  BY <1>1, <1>2, <1>4, <1>5, TotalAtLeast
<1>7. /\ Total(Withholding) \in Int /\ bills.paid \in Int /\ spent \in Int
      /\ counts.kills \in Nat /\ Excuse \in Nat
      /\ Cardinality(Covered) \in Nat /\ Cardinality(Excused) \in Nat
  BY <1>2, <1>4, TotalIsTyped, FS_Subset, FS_CardinalityType, CallAssumption
     DEF CallsTyped, LlmTypeOK, Excuse
<1>8. Explained(bills.paid - spent + Total(Withholding), spent, Cardinality(Covered),
                Cardinality(Excused), counts.kills, Excuse)
  BY DEF MoneyOK, Gap
<1>9. bills.paid <= Ceiling + Margin * (Cardinality(Procs) + counts.kills) + MaxCost * Excuse
  BY <1>6, <1>7, <1>8, ExplainedCeiling
<1> QED
  BY <1>9 DEF HardCeiling, Margin, Excuse

CallsInv == CallsTyped /\ Balanced /\ MoneyOK

\* The inductive invariant of callLlm: the types with what is known of each call, the balance
\* of the reservations, and the account of what was paid.
THEOREM CallsInductive == LlmSpec => []CallsInv
<1>1. LlmInit => CallsInv
  BY CallsStartTyped, BalancedAtStart, MoneyAtStart DEF CallsInv
<1>2. CallsInv /\ [LlmNext]_llmVars => CallsInv'
  BY CallsStayTyped, BalanceIsKept, MoneyIsKept DEF CallsInv
<1> QED
  BY <1>1, <1>2, PTL DEF LlmSpec

\* The row of budget.ts and that of circuit.ts keep their shapes, and so do the variables of
\* callLlm: no call makes more attempts than it may.
THEOREM CallsTypeCorrect == LlmSpec => []LlmTypeOK
<1>1. CallsInv => LlmTypeOK
  BY DEF CallsInv, CallsTyped
<1> QED
  BY <1>1, CallsInductive, PTL

\* However calls interleave, are killed, fail or are refused, assertBudgetAvailable and
\* recordProviderUsage account for every reservation exactly once, and every answer is
\* settled at the price of the provider that gave it.
THEOREM CallsBalance == LlmSpec => []Balanced
<1>1. CallsInv => Balanced
  BY DEF CallsInv
<1> QED
  BY <1>1, CallsInductive, PTL

\* Whatever the number of processes, the prices and the estimate, what is paid passes the
\* ceiling only by what calls in flight or killed cost over their estimate and by one call
\* for each override and each statement that failed.
THEOREM CeilingIsHard == LlmSpec => []HardCeiling
<1>1. CallsInv => HardCeiling
  BY MoneyMeansCeiling DEF CallsInv
<1> QED
  BY <1>1, CallsInductive, PTL

-----------------------------------------------------------------------------
(* Counting up, and folds.                                                 *)

\* What holds of 0, and of the next number with a number, holds up to n.
LEMMA Counting ==
  ASSUME NEW n \in Nat, NEW S, 0 \in S, \A i \in 0..n-1 : i \in S => i + 1 \in S
  PROVE  \A i \in 0..n : i \in S
<1> DEFINE C == {0..i : i \in {j \in 0..n : j \notin S}}
<1> SUFFICES ASSUME NEW m \in 0..n, m \notin S PROVE FALSE
  OBVIOUS
<1>0. IsFiniteSet(0..n)
  BY FS_Interval
<1>1. C \subseteq SUBSET (0..n) /\ C # {}
  <2>1. 0..m \in C
    OBVIOUS
  <2>2. \A i \in 0..n : 0..i \subseteq 0..n
    OBVIOUS
  <2> QED
    BY <2>1, <2>2
<1>2. \E T \in C : \A U \in C : U \subseteq T => U = T
  <2> DEFINE N == 0..n
  <2>1. IsFiniteSet(N) /\ C \subseteq SUBSET N /\ C # {}
    BY <1>0, <1>1
  <2> HIDE DEF C, N
  <2> QED
    BY <2>1, SmallestSet
<1>3. PICK i \in 0..n : i \notin S /\ \A U \in C : U \subseteq 0..i => U = 0..i
  BY <1>2
<1>4. i # 0 /\ i - 1 \in 0..n-1
  BY <1>3
<1>5. CASE i - 1 \in S
  BY <1>3, <1>4, <1>5
<1>6. CASE i - 1 \notin S
  <2>1. 0..(i-1) \in C /\ 0..(i-1) \subseteq 0..i
    BY <1>4, <1>6
  <2>2. i \in 0..i /\ i \notin 0..(i-1)
    OBVIOUS
  <2> QED
    BY <1>3, <2>1, <2>2
<1> QED
  BY <1>5, <1>6

\* And down.
LEMMA CountingDown ==
  ASSUME NEW n \in Nat, NEW S, n \in S, \A i \in 1..n : i \in S => i - 1 \in S
  PROVE  \A i \in 0..n : i \in S
<1> DEFINE T == {i \in 0..n : n - i \in S}
<1>1. 0 \in T /\ \A i \in 0..n-1 : i \in T => i + 1 \in T
  <2>1. ASSUME NEW i \in 0..n-1, i \in T PROVE i + 1 \in T
    <3>1. n - i \in 1..n /\ (n - i) - 1 = n - (i + 1) /\ i + 1 \in 0..n
      OBVIOUS
    <3> QED
      BY <2>1, <3>1
  <2> QED
    BY <2>1
<1>2. \A i \in 0..n : i \in T
  <2> HIDE DEF T
  <2> QED
    BY <1>1, Counting
<1>3. \A i \in 0..n : n - i \in 0..n /\ n - (n - i) = i
  OBVIOUS
<1> QED
  BY <1>2, <1>3

\* The recursion over the subsets of a finite set by which a fold is defined, for choices and
\* steps that are functions: `types` says what the value of each subset is, and a step takes
\* a value of the subset without the chosen element to one of the subset.
Solves(g, s, pick, step, base) ==
    g[s] = IF s = {} THEN base ELSE step[<<s, g[s \ {pick[s]}]>>]

LEMMA FoldsExist ==
  ASSUME NEW S, IsFiniteSet(S), NEW types, NEW base \in types[{}],
         NEW pick, \A s \in SUBSET S : s # {} => pick[s] \in s,
         NEW step,
         \A s \in SUBSET S : s # {} => \A v \in types[s \ {pick[s]}] : step[<<s, v>>] \in types[s]
  PROVE  \E g : /\ g = [s \in SUBSET S |-> g[s]]
                /\ \A s \in SUBSET S : g[s] \in types[s] /\ Solves(g, s, pick, step, base)
<1> DEFINE n == Cardinality(S)
           Good(g, s) == g[s] \in types[s] /\ Solves(g, s, pick, step, base)
           Upto(k) == \E g : /\ g = [s \in SUBSET S |-> g[s]]
                             /\ \A s \in SUBSET S : Cardinality(s) <= k => Good(g, s)
           K == {k \in 0..n : Upto(k)}
<1>0. n \in Nat /\ \A s \in SUBSET S : Cardinality(s) \in 0..n /\ IsFiniteSet(s)
  BY FS_CardinalityType, FS_Subset
<1>1. Upto(0)
  <2> DEFINE g == [s \in SUBSET S |-> base]
  <2>1. \A s \in SUBSET S : Cardinality(s) <= 0 => s = {}
    BY <1>0, FS_EmptySet
  <2>2. g = [s \in SUBSET S |-> g[s]]
    OBVIOUS
  <2>3. \A s \in SUBSET S : Cardinality(s) <= 0 => Good(g, s)
    BY <2>1 DEF Solves
  <2> QED
    BY <2>2, <2>3
<1>2. ASSUME NEW k \in 0..n-1, Upto(k) PROVE Upto(k + 1)
  <2>1. PICK f : \A s \in SUBSET S : Cardinality(s) <= k => Good(f, s)
    BY <1>2
  <2> DEFINE value(s) == IF s = {} THEN base ELSE step[<<s, f[s \ {pick[s]}]>>]
             g == [s \in SUBSET S |-> value(s)]
  <2>2. g = [s \in SUBSET S |-> g[s]]
    OBVIOUS
  <2>3. ASSUME NEW s \in SUBSET S, Cardinality(s) <= k + 1 PROVE Good(g, s)
    <3>1. CASE s = {}
      BY <3>1 DEF Solves
    <3>2. CASE s # {}
      <4> DEFINE r == s \ {pick[s]}
      <4>1. pick[s] \in s /\ r \in SUBSET S
        BY <3>2
      <4>2. Cardinality(r) <= k
        <5>1. Cardinality(r) = Cardinality(s) - 1
          BY <1>0, <4>1, FS_RemoveElement
        <5> QED
          BY <1>0, <2>3, <5>1
      <4>3. f[r] \in types[r] /\ f[r] = value(r)
        BY <2>1, <4>1, <4>2 DEF Solves
      <4>4. g[r] = f[r] /\ g[s] = step[<<s, f[r]>>]
        BY <3>2, <4>1, <4>3
      <4>5. g[s] \in types[s]
        BY <3>2, <4>3, <4>4
      <4> HIDE DEF g
      <4> QED
        BY <3>2, <4>4, <4>5 DEF Solves
    <3> QED
      BY <3>1, <3>2
  <2> HIDE DEF g, Good
  <2> QED
    BY <2>2, <2>3
<1>3. Upto(n)
  <2> HIDE DEF Upto
  <2>1. 0 \in K /\ \A i \in 0..n-1 : i \in K => i + 1 \in K
    BY <1>0, <1>1, <1>2
  <2> HIDE DEF K
  <2>2. \A i \in 0..n : i \in K
    BY <1>0, <2>1, Counting
  <2>3. n \in K
    BY <1>0, <2>2
  <2> QED
    BY <2>3 DEF K
<1> QED
  <2>1. \A s \in SUBSET S : Cardinality(s) <= n
    BY <1>0
  <2> HIDE DEF n
  <2> QED
    BY <1>3, <2>1

\* A set of positions that is not empty has a first one and a last one.
LEMMA FirstPosition ==
  ASSUME NEW n \in Nat, NEW s \in SUBSET (1..n), s # {}
  PROVE  Min(s) \in s /\ \A j \in s : Min(s) <= j
<1> DEFINE N == 1..n
           C == {1..i : i \in s}
<1>1. IsFiniteSet(N) /\ C \subseteq SUBSET N /\ C # {}
  <2>1. \A i \in s : 1..i \subseteq 1..n
    OBVIOUS
  <2>2. C # {}
    OBVIOUS
  <2>3. C \subseteq SUBSET N
    BY <2>1
  <2>4. IsFiniteSet(N)
    BY FS_Interval
  <2> QED
    BY <2>2, <2>3, <2>4
<1>2. \E T \in C : \A U \in C : U \subseteq T => U = T
  <2> HIDE DEF C, N
  <2> QED
    BY <1>1, SmallestSet
<1>3. PICK i \in s : \A U \in C : U \subseteq 1..i => U = 1..i
  BY <1>2
<1>4. \A j \in s : i <= j
  <2> SUFFICES ASSUME NEW j \in s, ~ (i <= j) PROVE FALSE
    OBVIOUS
  <2>1. 1..j \in C /\ 1..j \subseteq 1..i /\ i \in 1..i /\ i \notin 1..j
    OBVIOUS
  <2> QED
    BY <1>3, <2>1
<1> QED
  BY <1>4 DEF Min

LEMMA LastPosition ==
  ASSUME NEW n \in Nat, NEW s \in SUBSET (1..n), s # {}
  PROVE  Max(s) \in s /\ \A j \in s : j <= Max(s)
<1> DEFINE r == {n + 1 - i : i \in s}
<1>1. r \in SUBSET (1..n) /\ r # {}
  <2>1. \A i \in s : n + 1 - i \in 1..n
    OBVIOUS
  <2> QED
    BY <2>1
<1> HIDE DEF r
<1>2. Min(r) \in r /\ \A j \in r : Min(r) <= j
  BY <1>1, FirstPosition
<1>3. PICK i \in s : Min(r) = n + 1 - i
  BY <1>2 DEF r
<1>4. \A j \in s : n + 1 - j \in r
  BY DEF r
<1>5. \A j \in s : i >= j
  BY <1>2, <1>3, <1>4
<1> QED
  BY <1>5 DEF Max

\* The first i positions end in i.
LEMMA LastOfPrefix ==
  \A i \in Nat : i # 0 => 1..i # {} /\ Max(1..i) = i /\ (1..i) \ {Max(1..i)} = 1..(i - 1)
<1> SUFFICES ASSUME NEW i \in Nat, i # 0
             PROVE  1..i # {} /\ Max(1..i) = i /\ (1..i) \ {Max(1..i)} = 1..(i - 1)
  OBVIOUS
<1> DEFINE N == 1..i
<1>1. N \in SUBSET (1..i) /\ N # {} /\ i \in N
  OBVIOUS
<1>2. Max(N) \in N /\ \A j \in N : j <= Max(N)
  <2> HIDE DEF N
  <2> QED
    BY <1>1, LastPosition
<1>3. Max(N) = i
  BY <1>1, <1>2
<1> QED
  BY <1>1, <1>3

\* A fold from the left over the elements of a sequence: a solution of its recursion, for
\* as long as the values are of the type of the step; and the values from left to right.
IsFold(g, n, seq, V, base, step) ==
    \A s \in SUBSET (1..n) :
        /\ s = {} => g[s] = base
        /\ s # {} /\ g[s \ {Max(s)}] \in V => g[s] = step[<<g[s \ {Max(s)}], seq[Max(s)]>>]

IsRun(h, n, seq, base, step, end) ==
    h[0] = base /\ h[n] = end /\ \A i \in 1..n : h[i] = step[<<h[i-1], seq[i]>>]

\* The left fold over a sequence of a typed step exists.
LEMMA LeftFoldExists ==
  ASSUME NEW n \in Nat, NEW E, NEW seq \in [1..n -> E], NEW V, NEW base \in V,
         NEW step \in [V \X E -> V]
  PROVE  \E g \in [SUBSET (1..n) -> V] : IsFold(g, n, seq, V, base, step)
<1> DEFINE N == 1..n
           pick == [s \in SUBSET N |-> Max(s)]
           types == [s \in SUBSET N |-> V]
           next == [z \in (SUBSET N) \X V |-> step[<<z[2], seq[Max(z[1])]>>]]
<1>1. IsFiniteSet(N) /\ base \in types[{}]
  BY FS_Interval
<1>2. \A s \in SUBSET N : s # {} => pick[s] \in s
  BY LastPosition
<1>3. \A s \in SUBSET N, v \in V : s # {} =>
         next[<<s, v>>] = step[<<v, seq[Max(s)]>>] /\ next[<<s, v>>] \in V
  BY <1>2
<1>4. \A s \in SUBSET N : types[s] = V /\ types[s \ {pick[s]}] = V
  OBVIOUS
<1>5. \E g : /\ g = [s \in SUBSET N |-> g[s]]
             /\ \A s \in SUBSET N : g[s] \in types[s] /\ Solves(g, s, pick, next, base)
  <2> HIDE DEF N, pick, next, types
  <2> QED
    BY <1>1, <1>2, <1>3, <1>4, FoldsExist
<1>6. PICK g : /\ g = [s \in SUBSET N |-> g[s]]
               /\ \A s \in SUBSET N : g[s] \in types[s] /\ Solves(g, s, pick, next, base)
  BY <1>5
<1>7. g \in [SUBSET N -> V]
  <2>1. \A s \in SUBSET N : g[s] \in V
    BY <1>4, <1>6
  <2> QED
    BY <1>6, <2>1
<1>8. ASSUME NEW s \in SUBSET N, s # {}
      PROVE  g[s] = step[<<g[s \ {Max(s)}], seq[Max(s)]>>]
  <2>1. g[s] = next[<<s, g[s \ {Max(s)}]>>]
    BY <1>6, <1>8 DEF Solves
  <2> HIDE DEF next
  <2> QED
    BY <1>3, <1>7, <1>8, <2>1
<1>9. g[{}] = base
  BY <1>6 DEF Solves
<1> HIDE DEF next
<1> QED
  BY <1>7, <1>8, <1>9 DEF IsFold

\* The same fold in the order in which it takes the elements: every solution ends where
\* the steps from the first element to the last one end.
LEMMA LeftFold ==
  ASSUME NEW n \in Nat, NEW E, NEW seq \in [1..n -> E], NEW V, NEW base \in V,
         NEW step \in [V \X E -> V],
         NEW g, IsFold(g, n, seq, V, base, step)
  PROVE  \E h \in [0..n -> V] : IsRun(h, n, seq, base, step, g[1..n])
<1> DEFINE h == [i \in 0..n |-> g[1..i]]
           S == {i \in 0..n : h[i] \in V}
<1>1. h[0] = base
  <2>1. 1..0 = {} /\ 1..0 \in SUBSET (1..n) /\ 0 \in 0..n
    OBVIOUS
  <2>2. g[1..0] = base
    BY <2>1 DEF IsFold
  <2>3. h[0] = g[1..0]
    BY <2>1
  <2> QED
    BY <2>2, <2>3
<1>2. ASSUME NEW i \in 1..n, h[i-1] \in V PROVE h[i] = step[<<h[i-1], seq[i]>>]
  <2>1. 1..i \in SUBSET (1..n) /\ i \in 0..n /\ i-1 \in 0..n /\ i \in Nat /\ i # 0
    OBVIOUS
  <2>2. 1..i # {} /\ Max(1..i) = i /\ (1..i) \ {Max(1..i)} = 1..(i-1)
    BY <2>1, LastOfPrefix
  <2>3. h[i-1] = g[1..(i-1)] /\ h[i] = g[1..i]
    BY <2>1
  <2>4. g[1..i] = step[<<g[(1..i) \ {Max(1..i)}], seq[Max(1..i)]>>]
    BY <1>2, <2>1, <2>2, <2>3 DEF IsFold
  <2> QED
    BY <2>2, <2>3, <2>4
<1> HIDE DEF h
<1>3. \A i \in 0..n : h[i] \in V
  <2>1. 0 \in S
    BY <1>1
  <2>2. ASSUME NEW i \in 0..n-1, i \in S PROVE i+1 \in S
    <3>1. i+1 \in 1..n /\ (i+1)-1 = i
      OBVIOUS
    <3>2. h[i+1] = step[<<h[i], seq[i+1]>>]
      BY <2>2, <3>1, <1>2
    <3> QED
      BY <2>2, <3>1, <3>2
  <2> HIDE DEF S
  <2>3. \A i \in 0..n : i \in S
    BY <2>1, <2>2, Counting
  <2> QED
    BY <2>3 DEF S
<1>4. h \in [0..n -> V] /\ h[n] = g[1..n]
  BY <1>3 DEF h
<1>5. \A i \in 1..n : h[i-1] \in V
  BY <1>3
<1> QED
  BY <1>1, <1>2, <1>4, <1>5 DEF IsRun

-----------------------------------------------------------------------------
(* The folds of the parser and of the hunks, as runs from left to right.   *)

TextLines ==
    {NoiseLine} \cup [kind : {"old", "new"}, path : DiffPaths]
        \cup [kind : {"range"}, start : Nat] \cup [kind : {"body"}, line : DiffLines]

Unopened == [files : Seq(DiffSections), current : Seq(DiffSections), open : BOOLEAN]

ParserStates ==
    {s \in Unopened : /\ Len(s.current) <= 1
                      /\ s.open => s.current # <<>> /\ s.current[1].hunks # <<>>}

Read(s, text) == FoldLeft(ParseLine, s, text)

Closed(files, current) == [files |-> files, current |-> current, open |-> FALSE]
Opened(files, current) == [files |-> files, current |-> current, open |-> TRUE]

\* States of the parser, closed and open.
LEMMA ParserState ==
  ASSUME NEW files \in Seq(DiffSections), NEW current \in Seq(DiffSections), Len(current) <= 1
  PROVE  /\ Closed(files, current) \in ParserStates
         /\ current # <<>> /\ current[1].hunks # <<>> => Opened(files, current) \in ParserStates
BY DEF Closed, Opened, ParserStates, Unopened

LEMMA OneElement ==
  ASSUME NEW S, NEW s \in Seq(S), Len(s) <= 1, s # <<>>
  PROVE  Len(s) = 1 /\ s[1] \in S /\ s = <<s[1]>>
<1>1. Len(s) = 1 /\ s[1] \in S
  OBVIOUS
<1>2. <<s[1]>> \in Seq(S) /\ Len(<<s[1]>>) = 1
  BY <1>1
<1> QED
  BY <1>1, <1>2, SeqEqual

\* A line leaves the parser in one of its states.
LEMMA ParseLineType ==
  ASSUME NEW s \in ParserStates, NEW l \in TextLines
  PROVE  ParseLine(s, l) \in ParserStates
<1>0. /\ s \in Unopened /\ Len(s.current) <= 1
      /\ s.files \in Seq(DiffSections) /\ s.current \in Seq(DiffSections) /\ s.open \in BOOLEAN
      /\ s.open => s.current # <<>> /\ s.current[1].hunks # <<>>
  BY DEF ParserStates, Unopened
<1>1. CASE l.kind = "old"
  <2>1. l.path \in DiffPaths
    BY <1>1 DEF TextLines, NoiseLine
  <2> DEFINE x == NewSection(l.path, NoPath)
  <2>2. x \in DiffSections
    BY <2>1 DEF NewSection, DiffSections, DiffPaths
  <2>4. s.files \o s.current \in Seq(DiffSections)
    BY <1>0
  <2>5. ParseLine(s, l) = Closed(s.files \o s.current, <<x>>)
    BY <1>1 DEF ParseLine, Closed
  <2> HIDE DEF x
  <2>6. <<x>> \in Seq(DiffSections) /\ Len(<<x>>) <= 1
    BY <2>2
  <2> QED
    BY <2>4, <2>5, <2>6, ParserState
<1>2. CASE l.kind = "new"
  <2>1. l.path \in DiffPaths
    BY <1>2 DEF TextLines, NoiseLine
  <2> DEFINE c == IF s.current = <<>> THEN <<NewSection(NoPath, l.path)>>
                  ELSE <<[s.current[1] EXCEPT !.new = l.path]>>
  <2>2. c \in Seq(DiffSections) /\ Len(c) <= 1
    <3>1. CASE s.current = <<>>
      <4>1. NewSection(NoPath, l.path) \in DiffSections
        BY <2>1 DEF NewSection, DiffSections, DiffPaths
      <4> QED
        BY <3>1, <4>1
    <3>2. CASE s.current # <<>>
      <4>1. s.current[1] \in DiffSections
        BY <1>0, <3>2
      <4>2. [s.current[1] EXCEPT !.new = l.path] \in DiffSections
        BY <2>1, <4>1 DEF DiffSections
      <4> QED
        BY <3>2, <4>2
    <3> QED
      BY <3>1, <3>2
  <2>3. ParseLine(s, l) = Closed(s.files, c)
    BY <1>0, <1>2 DEF ParseLine, Unopened, Closed, Opened
  <2> HIDE DEF c
  <2> QED
    BY <1>0, <2>2, <2>3, ParserState
<1>3. CASE l.kind = "range" /\ s.current # <<>>
  <2> DEFINE hunk == [start |-> l.start, body |-> <<>>]
             c == [s.current EXCEPT ![1].hunks = Append(@, hunk)]
  <2>1. l.start \in Nat
    BY <1>3 DEF TextLines, NoiseLine
  <2>2. hunk \in DiffHunks
    BY <2>1 DEF DiffHunks
  <2>3. s.current[1] \in DiffSections /\ Len(s.current) = 1
    BY <1>0, <1>3, OneElement
  <2> HIDE DEF hunk
  <2> DEFINE x == [s.current[1] EXCEPT !.hunks = Append(@, hunk)]
  <2>5. c = <<x>>
    <3>1. s.current = <<s.current[1]>>
      BY <1>0, <1>3, OneElement
    <3> QED
      BY <3>1
  <2>4. x \in DiffSections
    BY <2>2, <2>3 DEF DiffSections
  <2>6. x.hunks = Append(s.current[1].hunks, hunk) /\ s.current[1].hunks \in Seq(DiffHunks)
    BY <2>3 DEF DiffSections
  <2>7. x.hunks # <<>>
    BY <2>2, <2>6, AppendProperties
  <2>8. ParseLine(s, l) = Opened(s.files, c)
    BY <1>0, <1>3 DEF ParseLine, Unopened, Closed, Opened, hunk
  <2> HIDE DEF c, x
  <2>9. <<x>> \in Seq(DiffSections) /\ Len(<<x>>) <= 1 /\ <<x>>[1] = x /\ <<x>> # <<>>
    BY <2>4
  <2> QED
    BY <1>0, <2>5, <2>7, <2>8, <2>9, ParserState
<1>4. CASE l.kind = "body" /\ s.open
  <2> DEFINE k == Len(s.current[1].hunks)
             c == [s.current EXCEPT ![1].hunks[k].body = Append(@, l.line)]
  <2>1. l.line \in DiffLines
    BY <1>4 DEF TextLines, NoiseLine
  <2>2. s.current[1] \in DiffSections /\ Len(s.current) = 1 /\ s.current = <<s.current[1]>>
    BY <1>0, <1>4, OneElement
  <2>3. s.current[1].hunks \in Seq(DiffHunks) /\ s.current[1].hunks # <<>>
    BY <1>0, <1>4, <2>2 DEF DiffSections
  <2>4. k \in 1..k /\ s.current[1].hunks[k] \in DiffHunks
    BY <2>3
  <2> DEFINE hunk == [s.current[1].hunks[k] EXCEPT !.body = Append(@, l.line)]
             hunks == [s.current[1].hunks EXCEPT ![k] = hunk]
  <2>5. hunk \in DiffHunks
    <3>1. Append(s.current[1].hunks[k].body, l.line) \in Seq(DiffLines)
      BY <2>1, <2>4 DEF DiffHunks
    <3> QED
      BY <2>4, <3>1 DEF DiffHunks
  <2>6. hunks \in Seq(DiffHunks) /\ Len(hunks) = k
    <3> HIDE DEF hunk
    <3> QED
      BY <2>3, <2>4, <2>5
  <2> DEFINE x == [s.current[1] EXCEPT !.hunks = hunks]
  <2>7. c = <<x>>
    BY <1>0, <2>2
  <2> HIDE DEF hunks
  <2>8. x \in DiffSections /\ x.hunks = hunks /\ hunks # <<>>
    BY <2>2, <2>3, <2>6 DEF DiffSections
  <2>9. ParseLine(s, l) = Opened(s.files, c)
    BY <1>0, <1>4 DEF ParseLine, Unopened, Closed, Opened
  <2> HIDE DEF c, x
  <2>10. <<x>> \in Seq(DiffSections) /\ Len(<<x>>) <= 1 /\ <<x>>[1] = x /\ <<x>> # <<>>
    BY <2>8
  <2> QED
    BY <1>0, <2>7, <2>8, <2>9, <2>10, ParserState
<1>5. CASE /\ l.kind # "old" /\ l.kind # "new" /\ ~ (l.kind = "range" /\ s.current # <<>>)
           /\ ~ (l.kind = "body" /\ s.open)
  BY <1>5 DEF ParseLine
<1> QED
  BY <1>1, <1>2, <1>3, <1>4, <1>5

\* Reading a text is to take its lines from the first to the last.
LEMMA ReadRun ==
  ASSUME NEW s \in ParserStates, NEW text \in Seq(TextLines)
  PROVE  \E h \in [0..Len(text) -> ParserStates] :
            /\ h[0] = s /\ \A i \in 1..Len(text) : h[i] = ParseLine(h[i-1], text[i])
            /\ Read(s, text) = h[Len(text)]
<1> DEFINE n == Len(text)
           V == ParserStates
           E == TextLines
           step == [z \in V \X E |-> ParseLine(z[1], z[2])]
           Iter(g) == g = [q \in SUBSET DOMAIN text |->
                              IF q = {} THEN s ELSE ParseLine(g[q \ {Max(q)}], text[Max(q)])]
           f == CHOOSE g : Iter(g)
<1>1. n \in Nat /\ text \in [1..n -> E] /\ DOMAIN text = 1..n
  OBVIOUS
<1>2. step \in [V \X E -> V] /\ \A v \in V, e \in E : step[<<v, e>>] = ParseLine(v, e)
  BY ParseLineType
<1>3. Read(s, text) = f[DOMAIN text]
  BY DEF Read, FoldLeft, MapThenFoldSet
<1>4. \A q \in SUBSET (1..n) : q # {} => Max(q) \in q /\ Max(q) \in 1..n
  BY <1>1, LastPosition
<1>5. s \in V
  OBVIOUS
<1> HIDE DEF n, V, E, step
<1>6. PICK g \in [SUBSET (1..n) -> V] : IsFold(g, n, text, V, s, step)
  BY <1>1, <1>2, <1>5, LeftFoldExists
<1>7. Iter(g)
  <2>1. \A q \in SUBSET (1..n) : q # {} =>
           Max(q) \in 1..n /\ text[Max(q)] \in E /\ g[q \ {Max(q)}] \in V
    BY <1>1, <1>4, <1>6
  <2> QED
    BY <1>1, <1>2, <1>6, <2>1 DEF IsFold
<1>8. Iter(f)
  BY <1>7
<1> HIDE DEF f
<1>9. IsFold(f, n, text, V, s, step)
  <2>1. \A q \in SUBSET (1..n) : q # {} => Max(q) \in 1..n /\ text[Max(q)] \in E
    BY <1>1, <1>4
  <2> QED
    BY <1>1, <1>2, <1>8, <2>1 DEF IsFold
<1>10. PICK h \in [0..n -> V] : IsRun(h, n, text, s, step, f[1..n])
  BY <1>1, <1>2, <1>5, <1>9, LeftFold
<1>11. \A i \in 1..n : h[i] = ParseLine(h[i-1], text[i])
  <2>1. \A i \in 1..n : h[i-1] \in V /\ text[i] \in E
    BY <1>1
  <2> QED
    BY <1>2, <1>10, <2>1 DEF IsRun
<1>12. h[0] = s /\ Read(s, text) = h[n]
  BY <1>1, <1>3, <1>10 DEF IsRun
<1> QED
  BY <1>10, <1>11, <1>12 DEF n, V

LEMMA KeepType ==
  ASSUME NEW kept \in Seq(DiffSections), NEW s \in DiffSections
  PROVE  Keep(kept, s) \in Seq(DiffSections)
BY DEF Keep

\* And so is dropping the sections that change nothing.
LEMMA KeepRun ==
  ASSUME NEW seq \in Seq(DiffSections)
  PROVE  \E h \in [0..Len(seq) -> Seq(DiffSections)] :
            /\ h[0] = <<>> /\ \A i \in 1..Len(seq) : h[i] = Keep(h[i-1], seq[i])
            /\ FoldLeft(Keep, <<>>, seq) = h[Len(seq)]
<1> DEFINE n == Len(seq)
           V == Seq(DiffSections)
           E == DiffSections
           step == [z \in V \X E |-> Keep(z[1], z[2])]
           Iter(g) == g = [q \in SUBSET DOMAIN seq |->
                              IF q = {} THEN <<>> ELSE Keep(g[q \ {Max(q)}], seq[Max(q)])]
           f == CHOOSE g : Iter(g)
<1>1. n \in Nat /\ seq \in [1..n -> E] /\ DOMAIN seq = 1..n
  OBVIOUS
<1>2. step \in [V \X E -> V] /\ \A v \in V, e \in E : step[<<v, e>>] = Keep(v, e)
  BY KeepType
<1>3. FoldLeft(Keep, <<>>, seq) = f[DOMAIN seq]
  BY DEF FoldLeft, MapThenFoldSet
<1>4. \A q \in SUBSET (1..n) : q # {} => Max(q) \in q /\ Max(q) \in 1..n
  BY <1>1, LastPosition
<1>5. <<>> \in V
  OBVIOUS
<1> HIDE DEF n, V, E, step
<1>6. PICK g \in [SUBSET (1..n) -> V] : IsFold(g, n, seq, V, <<>>, step)
  BY <1>1, <1>2, <1>5, LeftFoldExists
<1>7. Iter(g)
  <2>1. \A q \in SUBSET (1..n) : q # {} =>
           Max(q) \in 1..n /\ seq[Max(q)] \in E /\ g[q \ {Max(q)}] \in V
    BY <1>1, <1>4, <1>6
  <2> QED
    BY <1>1, <1>2, <1>6, <2>1 DEF IsFold
<1>8. Iter(f)
  BY <1>7
<1> HIDE DEF f
<1>9. IsFold(f, n, seq, V, <<>>, step)
  <2>1. \A q \in SUBSET (1..n) : q # {} => Max(q) \in 1..n /\ seq[Max(q)] \in E
    BY <1>1, <1>4
  <2> QED
    BY <1>1, <1>2, <1>8, <2>1 DEF IsFold
<1>10. PICK h \in [0..n -> V] : IsRun(h, n, seq, <<>>, step, f[1..n])
  BY <1>1, <1>2, <1>5, <1>9, LeftFold
<1>11. \A i \in 1..n : h[i] = Keep(h[i-1], seq[i])
  <2>1. \A i \in 1..n : h[i-1] \in V /\ seq[i] \in E
    BY <1>1
  <2> QED
    BY <1>2, <1>10, <2>1 DEF IsRun
<1>12. h[0] = <<>> /\ FoldLeft(Keep, <<>>, seq) = h[n]
  BY <1>1, <1>3, <1>10 DEF IsRun
<1> QED
  BY <1>10, <1>11, <1>12 DEF n, V

\* A line of a hunk on one of its sides.
OnSide(side, l, mark) == IF l.mark \in {" ", mark} THEN Append(side, l.text) ELSE side

LEMMA OnSideType ==
  ASSUME NEW side \in Seq(Texts), NEW l \in DiffLines, NEW mark
  PROVE  OnSide(side, l, mark) \in Seq(Texts)
<1>1. l.text \in Texts
  BY DEF DiffLines
<1>2. Append(side, l.text) \in Seq(Texts)
  BY <1>1
<1> QED
  BY <1>2 DEF OnSide

\* The side of a hunk is collected line by line.
LEMMA SideRun ==
  ASSUME NEW hunk \in DiffHunks, NEW mark
  PROVE  \E h \in [0..Len(hunk.body) -> Seq(Texts)] :
            /\ h[0] = <<>> /\ \A i \in 1..Len(hunk.body) : h[i] = OnSide(h[i-1], hunk.body[i], mark)
            /\ Side(hunk, mark) = h[Len(hunk.body)]
<1> DEFINE n == Len(hunk.body)
           V == Seq(Texts)
           E == DiffLines
           step == [z \in V \X E |-> OnSide(z[1], z[2], mark)]
           Iter(g) == g = [q \in SUBSET DOMAIN hunk.body |->
                              IF q = {} THEN <<>>
                              ELSE OnSide(g[q \ {Max(q)}], hunk.body[Max(q)], mark)]
           f == CHOOSE g : Iter(g)
<1>1. n \in Nat /\ hunk.body \in [1..n -> E] /\ DOMAIN hunk.body = 1..n
  BY DEF DiffHunks
<1>2. step \in [V \X E -> V] /\ \A v \in V, e \in E : step[<<v, e>>] = OnSide(v, e, mark)
  BY OnSideType
<1>3. Side(hunk, mark) = f[DOMAIN hunk.body]
  BY DEF Side, OnSide, FoldLeft, MapThenFoldSet
<1>4. \A q \in SUBSET (1..n) : q # {} => Max(q) \in q /\ Max(q) \in 1..n
  BY <1>1, LastPosition
<1>5. <<>> \in V
  OBVIOUS
<1> HIDE DEF n, V, E, step
<1>6. PICK g \in [SUBSET (1..n) -> V] : IsFold(g, n, hunk.body, V, <<>>, step)
  BY <1>1, <1>2, <1>5, LeftFoldExists
<1>7. Iter(g)
  <2>1. \A q \in SUBSET (1..n) : q # {} =>
           Max(q) \in 1..n /\ hunk.body[Max(q)] \in E /\ g[q \ {Max(q)}] \in V
    BY <1>1, <1>4, <1>6
  <2> QED
    BY <1>1, <1>2, <1>6, <2>1 DEF IsFold
<1>8. Iter(f)
  BY <1>7
<1> HIDE DEF f
<1>9. IsFold(f, n, hunk.body, V, <<>>, step)
  <2>1. \A q \in SUBSET (1..n) : q # {} => Max(q) \in 1..n /\ hunk.body[Max(q)] \in E
    BY <1>1, <1>4
  <2> QED
    BY <1>1, <1>2, <1>8, <2>1 DEF IsFold
<1>10. PICK h \in [0..n -> V] : IsRun(h, n, hunk.body, <<>>, step, f[1..n])
  BY <1>1, <1>2, <1>5, <1>9, LeftFold
<1>11. \A i \in 1..n : h[i] = OnSide(h[i-1], hunk.body[i], mark)
  <2>1. \A i \in 1..n : h[i-1] \in V /\ hunk.body[i] \in E
    BY <1>1
  <2> QED
    BY <1>2, <1>10, <2>1 DEF IsRun
<1>12. h[0] = <<>> /\ Side(hunk, mark) = h[n]
  BY <1>1, <1>3, <1>10 DEF IsRun
<1> QED
  BY <1>10, <1>11, <1>12 DEF n, V

\* The lines a hunk can write.
Written == Texts \cup {Blank}

Cursors == [at : Nat, out : Seq(Written), ok : BOOLEAN]

LEMMA ApplyLineType ==
  ASSUME NEW base \in Seq(Texts), NEW s \in Cursors, NEW l \in DiffLines
  PROVE  ApplyLine(base, s, l) \in Cursors
<1>1. l.text \in Written /\ s.out \in Seq(Written) /\ s.at \in Nat
  BY DEF DiffLines, Cursors, Written
<1>2. Append(s.out, l.text) \in Seq(Written) /\ s.at + 1 \in Nat
  BY <1>1
<1> QED
  BY <1>1, <1>2 DEF ApplyLine, Cursors

LinesApplied(base, s, body) == FoldLeft(LAMBDA t, l : ApplyLine(base, t, l), s, body)

\* The lines of a hunk are applied from the first to the last.
LEMMA LineRun ==
  ASSUME NEW base \in Seq(Texts), NEW s \in Cursors, NEW body \in Seq(DiffLines)
  PROVE  \E h \in [0..Len(body) -> Cursors] :
            /\ h[0] = s /\ \A i \in 1..Len(body) : h[i] = ApplyLine(base, h[i-1], body[i])
            /\ LinesApplied(base, s, body) = h[Len(body)]
<1> DEFINE n == Len(body)
           V == Cursors
           E == DiffLines
           step == [z \in V \X E |-> ApplyLine(base, z[1], z[2])]
           Iter(g) == g = [q \in SUBSET DOMAIN body |->
                              IF q = {} THEN s ELSE ApplyLine(base, g[q \ {Max(q)}], body[Max(q)])]
           f == CHOOSE g : Iter(g)
<1>1. n \in Nat /\ body \in [1..n -> E] /\ DOMAIN body = 1..n
  OBVIOUS
<1>2. step \in [V \X E -> V] /\ \A v \in V, e \in E : step[<<v, e>>] = ApplyLine(base, v, e)
  BY ApplyLineType
<1>3. LinesApplied(base, s, body) = f[DOMAIN body]
  BY DEF LinesApplied, FoldLeft, MapThenFoldSet
<1>4. \A q \in SUBSET (1..n) : q # {} => Max(q) \in q /\ Max(q) \in 1..n
  BY <1>1, LastPosition
<1>5. s \in V
  OBVIOUS
<1> HIDE DEF n, V, E, step
<1>6. PICK g \in [SUBSET (1..n) -> V] : IsFold(g, n, body, V, s, step)
  BY <1>1, <1>2, <1>5, LeftFoldExists
<1>7. Iter(g)
  <2>1. \A q \in SUBSET (1..n) : q # {} =>
           Max(q) \in 1..n /\ body[Max(q)] \in E /\ g[q \ {Max(q)}] \in V
    BY <1>1, <1>4, <1>6
  <2> QED
    BY <1>1, <1>2, <1>6, <2>1 DEF IsFold
<1>8. Iter(f)
  BY <1>7
<1> HIDE DEF f
<1>9. IsFold(f, n, body, V, s, step)
  <2>1. \A q \in SUBSET (1..n) : q # {} => Max(q) \in 1..n /\ body[Max(q)] \in E
    BY <1>1, <1>4
  <2> QED
    BY <1>1, <1>2, <1>8, <2>1 DEF IsFold
<1>10. PICK h \in [0..n -> V] : IsRun(h, n, body, s, step, f[1..n])
  BY <1>1, <1>2, <1>5, <1>9, LeftFold
<1>11. \A i \in 1..n : h[i] = ApplyLine(base, h[i-1], body[i])
  <2>1. \A i \in 1..n : h[i-1] \in V /\ body[i] \in E
    BY <1>1
  <2> QED
    BY <1>2, <1>10, <2>1 DEF IsRun
<1>12. h[0] = s /\ LinesApplied(base, s, body) = h[n]
  BY <1>1, <1>3, <1>10 DEF IsRun
<1> QED
  BY <1>10, <1>11, <1>12 DEF n, V

LEMMA HunkStartType ==
  ASSUME NEW h \in DiffHunks
  PROVE  HunkStart(h) \in Nat
BY DEF HunkStart, DiffHunks

LEMMA CopiedType ==
  ASSUME NEW base \in Seq(Texts), NEW from \in Nat, NEW to \in Nat, from <= to
  PROVE  Copied(base, from, to) \in Seq(Written) /\ Len(Copied(base, from, to)) = to - from
<1> DEFINE k == to - from
           line(i) == IF from + i <= Len(base) THEN base[from + i] ELSE Blank
<1>1. k \in Nat
  OBVIOUS
<1>2. \A i \in 1..k : line(i) \in Written
  <2> SUFFICES ASSUME NEW i \in 1..k, from + i <= Len(base) PROVE base[from + i] \in Texts
    BY DEF Written
  <2>1. from + i \in 1..Len(base)
    OBVIOUS
  <2> QED
    BY <2>1, ElementOfSeq
<1>3. [i \in 1..k |-> line(i)] \in Seq(Written) /\ Len([i \in 1..k |-> line(i)]) = k
  <2> HIDE DEF k, line
  <2> QED
    BY <1>1, <1>2
<1> QED
  BY <1>3 DEF Copied

\* The cursor when the lines of a hunk begin.
Moved(base, s, h) == [s EXCEPT !.at = HunkStart(h), !.out = @ \o Copied(base, s.at, HunkStart(h))]

LEMMA MovedType ==
  ASSUME NEW base \in Seq(Texts), NEW s \in Cursors, NEW h \in DiffHunks, ~ (HunkStart(h) < s.at)
  PROVE  Moved(base, s, h) \in Cursors
<1>1. s.at \in Nat /\ HunkStart(h) \in Nat /\ s.at <= HunkStart(h)
  BY HunkStartType DEF Cursors
<1>2. Copied(base, s.at, HunkStart(h)) \in Seq(Written)
  BY <1>1, CopiedType
<1>3. s.out \o Copied(base, s.at, HunkStart(h)) \in Seq(Written)
  BY <1>2 DEF Cursors
<1> QED
  BY <1>1, <1>3 DEF Moved, Cursors

LEMMA ApplyHunkType ==
  ASSUME NEW base \in Seq(Texts), NEW s \in Cursors, NEW h \in DiffHunks
  PROVE  ApplyHunk(base, s, h) \in Cursors
<1>1. CASE ~s.ok \/ HunkStart(h) < s.at
  <2>1. ApplyHunk(base, s, h) = [s EXCEPT !.ok = FALSE]
    BY <1>1 DEF ApplyHunk
  <2> QED
    BY <2>1 DEF Cursors
<1>2. CASE ~ (~s.ok \/ HunkStart(h) < s.at)
  <2>1. Moved(base, s, h) \in Cursors /\ h.body \in Seq(DiffLines)
    BY <1>2, MovedType DEF DiffHunks
  <2>2. LinesApplied(base, Moved(base, s, h), h.body) \in Cursors
    <3>1. PICK g \in [0..Len(h.body) -> Cursors] :
             LinesApplied(base, Moved(base, s, h), h.body) = g[Len(h.body)]
      BY <2>1, LineRun
    <3>2. Len(h.body) \in 0..Len(h.body)
      BY <2>1
    <3> QED
      BY <3>1, <3>2
  <2>3. ApplyHunk(base, s, h) = LinesApplied(base, Moved(base, s, h), h.body)
    BY <1>2 DEF ApplyHunk, LinesApplied, Moved
  <2> QED
    BY <2>2, <2>3
<1> QED
  BY <1>1, <1>2

Untouched == [at |-> 0, out |-> <<>>, ok |-> TRUE]

HunksApplied(base, hunks) == FoldLeft(LAMBDA s, h : ApplyHunk(base, s, h), Untouched, hunks)

\* And the hunks of a section.
LEMMA HunkRun ==
  ASSUME NEW base \in Seq(Texts), NEW hunks \in Seq(DiffHunks)
  PROVE  \E h \in [0..Len(hunks) -> Cursors] :
            /\ h[0] = Untouched /\ \A i \in 1..Len(hunks) : h[i] = ApplyHunk(base, h[i-1], hunks[i])
            /\ HunksApplied(base, hunks) = h[Len(hunks)]
<1> DEFINE n == Len(hunks)
           V == Cursors
           E == DiffHunks
           step == [z \in V \X E |-> ApplyHunk(base, z[1], z[2])]
           Iter(g) == g = [q \in SUBSET DOMAIN hunks |->
                              IF q = {} THEN Untouched
                              ELSE ApplyHunk(base, g[q \ {Max(q)}], hunks[Max(q)])]
           f == CHOOSE g : Iter(g)
<1>1. n \in Nat /\ hunks \in [1..n -> E] /\ DOMAIN hunks = 1..n
  OBVIOUS
<1>2. step \in [V \X E -> V] /\ \A v \in V, e \in E : step[<<v, e>>] = ApplyHunk(base, v, e)
  BY ApplyHunkType
<1>3. HunksApplied(base, hunks) = f[DOMAIN hunks]
  BY DEF HunksApplied, FoldLeft, MapThenFoldSet
<1>4. \A q \in SUBSET (1..n) : q # {} => Max(q) \in q /\ Max(q) \in 1..n
  BY <1>1, LastPosition
<1>5. Untouched \in V
  BY DEF Untouched, Cursors
<1> HIDE DEF n, V, E, step
<1>6. PICK g \in [SUBSET (1..n) -> V] : IsFold(g, n, hunks, V, Untouched, step)
  BY <1>1, <1>2, <1>5, LeftFoldExists
<1>7. Iter(g)
  <2>1. \A q \in SUBSET (1..n) : q # {} =>
           Max(q) \in 1..n /\ hunks[Max(q)] \in E /\ g[q \ {Max(q)}] \in V
    BY <1>1, <1>4, <1>6
  <2> QED
    BY <1>1, <1>2, <1>6, <2>1 DEF IsFold
<1>8. Iter(f)
  BY <1>7
<1> HIDE DEF f
<1>9. IsFold(f, n, hunks, V, Untouched, step)
  <2>1. \A q \in SUBSET (1..n) : q # {} => Max(q) \in 1..n /\ hunks[Max(q)] \in E
    BY <1>1, <1>4
  <2> QED
    BY <1>1, <1>2, <1>8, <2>1 DEF IsFold
<1>10. PICK h \in [0..n -> V] : IsRun(h, n, hunks, Untouched, step, f[1..n])
  BY <1>1, <1>2, <1>5, <1>9, LeftFold
<1>11. \A i \in 1..n : h[i] = ApplyHunk(base, h[i-1], hunks[i])
  <2>1. \A i \in 1..n : h[i-1] \in V /\ hunks[i] \in E
    BY <1>1
  <2> QED
    BY <1>2, <1>10, <2>1 DEF IsRun
<1>12. h[0] = Untouched /\ HunksApplied(base, hunks) = h[n]
  BY <1>1, <1>3, <1>10 DEF IsRun
<1> QED
  BY <1>10, <1>11, <1>12 DEF n, V

-----------------------------------------------------------------------------
(* One hunk.                                                               *)

\* The lines of a side lie in a file after the first `at`.
Found(base, at, side) ==
    \A j \in 1..Len(side) : at + j <= Len(base) /\ base[at + j] = side[j]

\* One more line is found if it stands next.
LEMMA FoundAppend ==
  ASSUME NEW base \in Seq(Texts), NEW at \in Nat, NEW side \in Seq(Texts), NEW x \in Texts
  PROVE  Found(base, at, Append(side, x)) <=>
            Found(base, at, side) /\ at + Len(side) < Len(base) /\ base[at + Len(side) + 1] = x
<1> DEFINE n == Len(side)
           more == Append(side, x)
<1>1. n \in Nat /\ Len(more) = n + 1 /\ more[n + 1] = x /\ \A j \in 1..n : more[j] = side[j]
  OBVIOUS
<1>2. Len(base) \in Nat
  OBVIOUS
<1> HIDE DEF more
<1>3. ASSUME Found(base, at, more)
      PROVE  Found(base, at, side) /\ at + n < Len(base) /\ base[at + n + 1] = x
  <2>1. \A j \in 1..n : j \in 1..Len(more)
    BY <1>1
  <2>2. n + 1 \in 1..Len(more)
    BY <1>1
  <2>3. at + (n + 1) <= Len(base) /\ base[at + (n + 1)] = x
    BY <1>1, <1>3, <2>2 DEF Found
  <2>4. at + (n + 1) = at + n + 1
    BY <1>1
  <2>5. Found(base, at, side)
    BY <1>1, <1>3, <2>1 DEF Found
  <2> QED
    BY <1>1, <1>2, <2>3, <2>4, <2>5
<1>4. ASSUME Found(base, at, side), at + n < Len(base), base[at + n + 1] = x
      PROVE  Found(base, at, more)
  <2> SUFFICES ASSUME NEW j \in 1..Len(more)
               PROVE  at + j <= Len(base) /\ base[at + j] = more[j]
    BY DEF Found
  <2>1. CASE j \in 1..n
    BY <1>1, <1>4, <2>1 DEF Found
  <2>2. CASE j = n + 1
    <3>1. at + j = at + n + 1
      BY <1>1, <2>2
    <3> QED
      BY <1>1, <1>2, <1>4, <2>2, <3>1
  <2> QED
    BY <1>1, <2>1, <2>2
<1> QED
  BY <1>3, <1>4 DEF more

LEMMA SideType ==
  ASSUME NEW h \in DiffHunks, NEW mark
  PROVE  Side(h, mark) \in Seq(Texts) /\ Len(Side(h, mark)) \in Nat
<1>1. PICK g \in [0..Len(h.body) -> Seq(Texts)] : Side(h, mark) = g[Len(h.body)]
  BY SideRun
<1>2. Len(h.body) \in 0..Len(h.body)
  BY DEF DiffHunks
<1> QED
  BY <1>1, <1>2

LEMMA HunkEndType ==
  ASSUME NEW h \in DiffHunks
  PROVE  /\ HunkStart(h) \in Nat /\ HunkEnd(h) \in Nat
         /\ HunkEnd(h) = HunkStart(h) + Len(Side(h, "-")) /\ HunkStart(h) <= HunkEnd(h)
BY HunkStartType, SideType DEF HunkEnd

\* What a cursor that was not stopped has done with the lines of a hunk so far.
Done(base, s, t, old, new) ==
    /\ t.ok <=> Found(base, s.at, old)
    /\ t.ok => t.at = s.at + Len(old) /\ t.out = s.out \o new

\* The three marks of a line.
LEMMA Marks ==
  ASSUME NEW l \in DiffLines, NEW side
  PROVE  /\ l.text \in Texts
         /\ OnSide(side, l, "-") = IF l.mark = "+" THEN side ELSE Append(side, l.text)
         /\ OnSide(side, l, "+") = IF l.mark = "-" THEN side ELSE Append(side, l.text)
<1>1. l.text \in Texts /\ l.mark \in {" ", "-", "+"} /\ " " # "-" /\ " " # "+" /\ "-" # "+"
  BY Zenon DEF DiffLines
<1> QED
  BY <1>1, Zenon DEF OnSide

\* A line of a hunk: a context or removed line is compared, the others are written.
LEMMA LineApplied ==
  ASSUME NEW base, NEW t \in Cursors, NEW l \in DiffLines
  PROVE  LET u == ApplyLine(base, t, l)
         IN  /\ ~t.ok => u = t
             /\ t.ok /\ l.mark = "+" => u.ok /\ u.at = t.at /\ u.out = Append(t.out, l.text)
             /\ t.ok /\ l.mark # "+" =>
                   IF t.at >= Len(base) \/ base[t.at + 1] # l.text THEN ~u.ok
                   ELSE /\ u.ok /\ u.at = t.at + 1
                        /\ u.out = IF l.mark = "-" THEN t.out ELSE Append(t.out, l.text)
<1> DEFINE u == ApplyLine(base, t, l)
           out == IF l.mark = " " THEN Append(t.out, l.text) ELSE t.out
<1>1. l.text \in Texts /\ l.mark \in {" ", "-", "+"} /\ " " # "-" /\ " " # "+" /\ "-" # "+"
  BY Zenon DEF DiffLines
<1>2. CASE ~t.ok
  BY <1>2, Zenon DEF ApplyLine
<1>3. CASE t.ok /\ l.mark = "+"
  <2>1. u = [t EXCEPT !.out = Append(t.out, l.text)]
    BY <1>3, Zenon DEF ApplyLine
  <2> HIDE DEF u
  <2>2. u.ok = t.ok /\ u.at = t.at /\ u.out = Append(t.out, l.text)
    BY <2>1 DEF Cursors
  <2> QED
    BY <1>3, <2>2, Zenon DEF u
<1>4. CASE t.ok /\ l.mark # "+" /\ (t.at >= Len(base) \/ base[t.at + 1] # l.text)
  <2>1. u = [t EXCEPT !.ok = FALSE]
    BY <1>4, Zenon DEF ApplyLine
  <2> HIDE DEF u
  <2>2. u.ok = FALSE
    BY <2>1 DEF Cursors
  <2> QED
    BY <1>4, <2>2, Zenon DEF u
<1>5. CASE t.ok /\ l.mark # "+" /\ ~ (t.at >= Len(base) \/ base[t.at + 1] # l.text)
  <2>1. u = [t EXCEPT !.at = t.at + 1, !.out = out]
    BY <1>5, Zenon DEF ApplyLine
  <2>2. out = IF l.mark = "-" THEN t.out ELSE Append(t.out, l.text)
    BY <1>1, <1>5, Zenon
  <2> HIDE DEF u, out
  <2>3. u.ok = t.ok /\ u.at = t.at + 1 /\ u.out = out
    BY <2>1 DEF Cursors
  <2> QED
    BY <1>5, <2>2, <2>3, Zenon DEF u
<1> QED
  BY <1>2, <1>3, <1>4, <1>5

LEMMA AppendWritten ==
  ASSUME NEW s \in Seq(Written), NEW t \in Seq(Written), NEW x \in Written
  PROVE  Append(s \o t, x) = s \o Append(t, x)
OBVIOUS

LEMMA LineDone ==
  ASSUME NEW base \in Seq(Texts), NEW s \in Cursors, NEW t \in Cursors, NEW l \in DiffLines,
         NEW old \in Seq(Texts), NEW new \in Seq(Texts), Done(base, s, t, old, new)
  PROVE  Done(base, s, ApplyLine(base, t, l), OnSide(old, l, "-"), OnSide(new, l, "+"))
<1> DEFINE u == ApplyLine(base, t, l)
<1>0. /\ s.at \in Nat /\ s.out \in Seq(Written) /\ t.at \in Nat /\ t.out \in Seq(Written)
      /\ t.ok \in BOOLEAN
  BY DEF Cursors
<1>1. l.text \in Texts
  BY Marks
<1>2. (s.out \o new) \in Seq(Written) /\ Append(s.out \o new, l.text) = s.out \o Append(new, l.text)
  <2>1. new \in Seq(Written) /\ l.text \in Written
    BY <1>1 DEF Written
  <2>2. s.out \o new \in Seq(Written)
    BY <1>0, <2>1
  <2> QED
    BY <1>0, <2>1, <2>2, AppendWritten
<1>3. /\ OnSide(old, l, "-") = IF l.mark = "+" THEN old ELSE Append(old, l.text)
      /\ OnSide(new, l, "+") = IF l.mark = "-" THEN new ELSE Append(new, l.text)
  BY Marks
<1>4. Len(Append(old, l.text)) = Len(old) + 1 /\ Len(old) \in Nat
  BY <1>1
<1>5. CASE ~t.ok
  <2>0. u = t
    BY <1>5 DEF ApplyLine
  <2>1. u = t /\ ~Found(base, s.at, old)
    BY <1>5, <2>0 DEF Done
  <2>2. ~Found(base, s.at, Append(old, l.text))
    BY <1>0, <1>1, <2>1, FoundAppend
  <2> QED
    BY <1>3, <1>5, <2>1, <2>2 DEF Done
<1>6. CASE t.ok
  <2>1. Found(base, s.at, old) /\ t.at = s.at + Len(old) /\ t.out = s.out \o new
    BY <1>6 DEF Done
  <2>2. CASE l.mark = "+"
    <3>2. u.ok /\ u.at = t.at /\ u.out = Append(t.out, l.text)
      BY <1>6, <2>2, LineApplied
    <3> HIDE DEF u
    <3>3. OnSide(old, l, "-") = old /\ OnSide(new, l, "+") = Append(new, l.text)
      BY <1>3, <2>2
    <3>4. Done(base, s, u, old, Append(new, l.text))
      BY <1>2, <1>6, <2>1, <3>2, Zenon DEF Done
    <3> QED
      BY <3>3, <3>4 DEF u
  <2>3. CASE l.mark # "+"
    <3>1. Found(base, s.at, Append(old, l.text)) <=> (t.at < Len(base) /\ base[t.at + 1] = l.text)
      BY <1>0, <1>1, <2>1, FoundAppend
    <3>2. CASE t.at >= Len(base) \/ base[t.at + 1] # l.text
      <4>1. ~u.ok
        BY <1>6, <2>3, <3>2, LineApplied
      <4>2. ~Found(base, s.at, Append(old, l.text))
        BY <1>0, <3>1, <3>2
      <4> HIDE DEF u
      <4>4. Done(base, s, u, Append(old, l.text), OnSide(new, l, "+"))
        BY <4>1, <4>2 DEF Done
      <4> QED
        BY <1>3, <2>3, <4>4 DEF u
    <3>3. CASE ~ (t.at >= Len(base) \/ base[t.at + 1] # l.text)
      <4>2. u.ok = t.ok /\ u.at = t.at + 1
        BY <1>6, <2>3, <3>3, LineApplied
      <4>3. u.out = IF l.mark = "-" THEN t.out ELSE Append(t.out, l.text)
        BY <1>6, <2>3, <3>3, LineApplied
      <4> HIDE DEF u
      <4>4. Found(base, s.at, Append(old, l.text))
        BY <1>0, <3>1, <3>3
      <4>5. u.at = s.at + Len(Append(old, l.text))
        <5>1. \A a, b \in Nat : (a + b) + 1 = a + (b + 1)
          OBVIOUS
        <5> QED
          BY <1>0, <1>4, <2>1, <4>2, <5>1, Zenon
      <4>6. u.out = s.out \o OnSide(new, l, "+")
        BY <1>2, <1>3, <2>1, <4>3
      <4>7. Done(base, s, u, Append(old, l.text), OnSide(new, l, "+"))
        BY <1>6, <4>2, <4>4, <4>5, <4>6 DEF Done
      <4> QED
        BY <1>3, <2>3, <4>7 DEF u
    <3> QED
      BY <3>2, <3>3
  <2> QED
    BY <2>2, <2>3
<1> QED
  BY <1>5, <1>6

\* The lines of a hunk are all done exactly if its old side lies at the cursor.
LEMMA LinesDone ==
  ASSUME NEW base \in Seq(Texts), NEW s \in Cursors, s.ok, NEW h \in DiffHunks
  PROVE  /\ LinesApplied(base, s, h.body) \in Cursors
         /\ Done(base, s, LinesApplied(base, s, h.body), Side(h, "-"), Side(h, "+"))
<1> DEFINE n == Len(h.body)
<1>1. h.body \in Seq(DiffLines) /\ n \in Nat
  BY DEF DiffHunks
<1>2. PICK w \in [0..n -> Cursors] :
            /\ w[0] = s /\ \A i \in 1..n : w[i] = ApplyLine(base, w[i-1], h.body[i])
            /\ LinesApplied(base, s, h.body) = w[n]
  BY <1>1, LineRun
<1>3. PICK old \in [0..n -> Seq(Texts)] :
            /\ old[0] = <<>> /\ \A i \in 1..n : old[i] = OnSide(old[i-1], h.body[i], "-")
            /\ Side(h, "-") = old[n]
  BY SideRun
<1>4. PICK new \in [0..n -> Seq(Texts)] :
            /\ new[0] = <<>> /\ \A i \in 1..n : new[i] = OnSide(new[i-1], h.body[i], "+")
            /\ Side(h, "+") = new[n]
  BY SideRun
<1> DEFINE S == {i \in 0..n : Done(base, s, w[i], old[i], new[i])}
<1>5. 0 \in S
  <2>1. s.at \in Nat /\ s.out \in Seq(Written) /\ Len(<<>>) = 0
    BY DEF Cursors
  <2>2. s.at = s.at + Len(<<>>) /\ s.out = s.out \o <<>> /\ Found(base, s.at, <<>>)
    BY <2>1, ConcatEmptySeq DEF Found
  <2>3. Done(base, s, s, <<>>, <<>>)
    BY <2>2 DEF Done
  <2>4. 0 \in 0..n
    BY <1>1
  <2> QED
    BY <1>2, <1>3, <1>4, <2>3, <2>4
<1>6. ASSUME NEW i \in 0..n-1, i \in S PROVE i + 1 \in S
  <2>1. i + 1 \in 1..n /\ (i + 1) - 1 = i /\ i + 1 \in 0..n /\ i \in 0..n
    BY <1>1
  <2>2. h.body[i + 1] \in DiffLines /\ w[i] \in Cursors /\ old[i] \in Seq(Texts)
        /\ new[i] \in Seq(Texts)
    BY <1>1, <2>1
  <2>3. /\ w[i + 1] = ApplyLine(base, w[i], h.body[i + 1])
        /\ old[i + 1] = OnSide(old[i], h.body[i + 1], "-")
        /\ new[i + 1] = OnSide(new[i], h.body[i + 1], "+")
    BY <1>2, <1>3, <1>4, <2>1
  <2>4. Done(base, s, w[i], old[i], new[i])
    BY <1>6
  <2>5. Done(base, s, w[i + 1], old[i + 1], new[i + 1])
    BY <2>2, <2>3, <2>4, LineDone
  <2> QED
    BY <2>1, <2>5
<1>7. n \in S
  <2> HIDE DEF S
  <2>1. \A i \in 0..n : i \in S
    BY <1>1, <1>5, <1>6, Counting
  <2> QED
    BY <1>1, <2>1
<1>8. n \in 0..n
  BY <1>1
<1> QED
  BY <1>2, <1>3, <1>4, <1>7, <1>8

\* What a hunk does to a cursor: it goes on only if the hunk begins after what was used up
\* and the lines it takes away are there.
Lands(base, s, h, t) ==
    /\ t.ok <=> s.ok /\ s.at <= HunkStart(h) /\ Found(base, HunkStart(h), Side(h, "-"))
    /\ t.ok => /\ t.at = HunkEnd(h)
               /\ t.out = (s.out \o Copied(base, s.at, HunkStart(h))) \o Side(h, "+")

\* A hunk lands exactly if it is not behind the cursor and its old side is there.
LEMMA HunkDone ==
  ASSUME NEW base \in Seq(Texts), NEW s \in Cursors, NEW h \in DiffHunks
  PROVE  Lands(base, s, h, ApplyHunk(base, s, h))
<1> DEFINE t == ApplyHunk(base, s, h)
<1>1. s.at \in Nat /\ HunkStart(h) \in Nat
  BY HunkStartType DEF Cursors
<1>2. CASE ~s.ok \/ HunkStart(h) < s.at
  <2>1. t = [s EXCEPT !.ok = FALSE]
    BY <1>2 DEF ApplyHunk
  <2>2. ~t.ok
    <3> HIDE DEF t
    <3> QED
      BY <2>1 DEF Cursors
  <2>3. ~ (s.ok /\ s.at <= HunkStart(h))
    BY <1>1, <1>2
  <2> QED
    BY <2>2, <2>3, Zenon DEF Lands
<1>3. CASE ~ (~s.ok \/ HunkStart(h) < s.at)
  <2> DEFINE m == Moved(base, s, h)
  <2>1. m \in Cursors
    BY <1>3, MovedType
  <2>2. m.ok = s.ok /\ m.at = HunkStart(h) /\ m.out = s.out \o Copied(base, s.at, HunkStart(h))
    BY DEF Moved, Cursors
  <2>3. t = LinesApplied(base, m, h.body)
    BY <1>3 DEF ApplyHunk, LinesApplied, Moved
  <2> HIDE DEF m
  <2>4. Done(base, m, t, Side(h, "-"), Side(h, "+"))
    BY <1>3, <2>1, <2>2, <2>3, LinesDone
  <2> HIDE DEF t
  <2>5. t.ok <=> Found(base, HunkStart(h), Side(h, "-"))
    BY <2>2, <2>4 DEF Done
  <2>6. t.ok => /\ t.at = HunkEnd(h)
                /\ t.out = (s.out \o Copied(base, s.at, HunkStart(h))) \o Side(h, "+")
    BY <2>2, <2>4 DEF Done, HunkEnd
  <2>7. s.ok /\ s.at <= HunkStart(h)
    BY <1>1, <1>3
  <2> QED
    BY <2>5, <2>6, <2>7, Zenon DEF t, Lands
<1> QED
  BY <1>2, <1>3

-----------------------------------------------------------------------------
(* All hunks of a section.                                                 *)

\* The lines of the file that the first i hunks have used up.
Used(hunks, i) == IF i = 0 THEN 0 ELSE HunkEnd(hunks[i])

InPlace(base, hunks, i) ==
    /\ Used(hunks, i - 1) <= HunkStart(hunks[i])
    /\ Found(base, HunkStart(hunks[i]), Side(hunks[i], "-"))

LEMMA UsedType ==
  ASSUME NEW hunks \in Seq(DiffHunks), NEW i \in 0..Len(hunks)
  PROVE  Used(hunks, i) \in Nat
<1>1. CASE i = 0
  BY <1>1 DEF Used
<1>2. CASE i # 0
  <2>1. hunks[i] \in DiffHunks
    BY <1>2
  <2> QED
    BY <1>2, <2>1, HunkEndType DEF Used
<1> QED
  BY <1>1, <1>2

\* The cursor after the hunks, as long as each is in its place.
LEMMA HunksDone ==
  ASSUME NEW base \in Seq(Texts), NEW hunks \in Seq(DiffHunks)
  PROVE  \E w \in [0..Len(hunks) -> Cursors] :
            /\ w[0] = Untouched
            /\ \A i \in 1..Len(hunks) : w[i].ok =>
                  w[i].out = (w[i-1].out \o Copied(base, w[i-1].at, HunkStart(hunks[i])))
                                \o Side(hunks[i], "+")
            /\ \A i \in 0..Len(hunks) :
                  /\ w[i].ok <=> \A k \in 1..i : InPlace(base, hunks, k)
                  /\ w[i].ok => w[i].at = Used(hunks, i)
            /\ HunksApplied(base, hunks) = w[Len(hunks)]
<1> DEFINE n == Len(hunks)
<1>1. n \in Nat
  OBVIOUS
<1>2. PICK w \in [0..n -> Cursors] :
            /\ w[0] = Untouched /\ \A i \in 1..n : w[i] = ApplyHunk(base, w[i-1], hunks[i])
            /\ HunksApplied(base, hunks) = w[n]
  BY HunkRun
<1>3. ASSUME NEW i \in 1..n PROVE Lands(base, w[i-1], hunks[i], w[i])
  <2>1. w[i-1] \in Cursors /\ hunks[i] \in DiffHunks
    BY <1>1
  <2> QED
    BY <1>2, <2>1, HunkDone
<1> DEFINE P(i) == /\ w[i].ok <=> \A k \in 1..i : InPlace(base, hunks, k)
                   /\ w[i].ok => w[i].at = Used(hunks, i)
           S == {i \in 0..n : P(i)}
<1>4. 0 \in S
  <2>1. w[0].ok /\ w[0].at = 0
    BY <1>2 DEF Untouched
  <2>2. \A k \in 1..0 : InPlace(base, hunks, k)
    OBVIOUS
  <2>3. P(0)
    BY <2>1, <2>2 DEF Used
  <2> QED
    BY <1>1, <2>3
<1>5. ASSUME NEW i \in 0..n-1, i \in S PROVE i + 1 \in S
  <2>1. i + 1 \in 1..n /\ (i + 1) - 1 = i /\ i + 1 \in 0..n /\ i + 1 # 0
        /\ 1..(i+1) = (1..i) \cup {i+1}
    BY <1>1
  <2>2. P(i)
    BY <1>5
  <2>3. /\ w[i+1].ok <=> /\ w[i].ok /\ w[i].at <= HunkStart(hunks[i+1])
                         /\ Found(base, HunkStart(hunks[i+1]), Side(hunks[i+1], "-"))
        /\ w[i+1].ok => w[i+1].at = HunkEnd(hunks[i+1])
    <3>1. Lands(base, w[i], hunks[i+1], w[i+1])
      BY <1>3, <2>1
    <3> QED
      BY <3>1 DEF Lands
  <2>4. w[i].ok => (InPlace(base, hunks, i+1) <=>
                      /\ w[i].at <= HunkStart(hunks[i+1])
                      /\ Found(base, HunkStart(hunks[i+1]), Side(hunks[i+1], "-")))
    BY <2>1, <2>2 DEF InPlace
  <2>5. w[i+1].ok <=> w[i].ok /\ InPlace(base, hunks, i+1)
    BY <2>3, <2>4
  <2>6. w[i+1].ok <=> \A k \in 1..(i+1) : InPlace(base, hunks, k)
    BY <2>1, <2>2, <2>5
  <2>7. P(i+1)
    BY <2>1, <2>3, <2>6 DEF Used
  <2> HIDE DEF P
  <2> QED
    BY <2>1, <2>7
<1>6. \A i \in 0..n : P(i)
  <2> HIDE DEF S
  <2>1. \A i \in 0..n : i \in S
    BY <1>1, <1>4, <1>5, Counting
  <2> QED
    BY <2>1 DEF S
<1>7. \A i \in 1..n : w[i].ok =>
         w[i].out = (w[i-1].out \o Copied(base, w[i-1].at, HunkStart(hunks[i])))
                        \o Side(hunks[i], "+")
  BY <1>3 DEF Lands
<1> QED
  BY <1>2, <1>6, <1>7

\* A hunk with a line to find, or at the start of the file, lies on its lines or does not.
LEMMA FoundAsSubSeq ==
  ASSUME NEW base \in Seq(Texts), NEW h \in DiffHunks, Side(h, "-") # <<>> \/ HunkStart(h) = 0
  PROVE  Found(base, HunkStart(h), Side(h, "-")) <=>
            /\ HunkEnd(h) <= Len(base)
            /\ SubSeq(base, HunkStart(h) + 1, HunkEnd(h)) = Side(h, "-")
<1> DEFINE a == HunkStart(h)
           old == Side(h, "-")
           m == Len(old)
           part == SubSeq(base, a + 1, HunkEnd(h))
<1>1. a \in Nat /\ m \in Nat /\ old \in Seq(Texts) /\ HunkEnd(h) = a + m /\ Len(base) \in Nat
  BY HunkEndType, SideType
<1> HIDE DEF a, old
<1>2. ASSUME HunkEnd(h) <= Len(base)
      PROVE  part \in Seq(Texts) /\ Len(part) = m /\ \A j \in 1..m : part[j] = base[a + j]
  <2>1. \A i \in a + 1 .. a + m : i \in 1..Len(base)
    BY <1>1, <1>2
  <2>2. \A i \in a + 1 .. a + m : base[i] \in Texts
    BY <2>1, ElementOfSeq
  <2>3. /\ SubSeq(base, a + 1, a + m) \in Seq(Texts)
        /\ Len(SubSeq(base, a + 1, a + m)) = IF a + 1 <= a + m THEN (a + m) - (a + 1) + 1 ELSE 0
        /\ \A i \in 1..(a + m) - (a + 1) + 1 : SubSeq(base, a + 1, a + m)[i] = base[(a + 1) + i - 1]
    BY <1>1, <2>2, SubSeqProperties
  <2>4. \A j \in 1..m : (a + 1) + j - 1 = a + j
    BY <1>1
  <2> QED
    BY <1>1, <2>3, <2>4
<1>3. ASSUME Found(base, a, old) PROVE HunkEnd(h) <= Len(base) /\ part = old
  <2>1. HunkEnd(h) <= Len(base)
    <3>1. CASE m = 0
      <4>1. old = <<>>
        BY <1>1, <3>1
      <4> QED
        BY <1>1, <3>1, <4>1 DEF a, old
    <3>2. CASE m # 0
      <4>1. m \in 1..m
        BY <1>1, <3>2
      <4> QED
        BY <1>1, <1>3, <4>1 DEF Found
    <3> QED
      BY <3>1, <3>2
  <2>2. part \in Seq(Texts) /\ Len(part) = m /\ \A j \in 1..m : part[j] = base[a + j]
    BY <1>2, <2>1
  <2>3. \A j \in 1..m : part[j] = old[j]
    BY <1>3, <2>2 DEF Found
  <2> HIDE DEF part
  <2> QED
    BY <1>1, <2>1, <2>2, <2>3, SeqEqual
<1>4. ASSUME HunkEnd(h) <= Len(base), part = old PROVE Found(base, a, old)
  <2>1. \A j \in 1..m : part[j] = base[a + j]
    BY <1>2, <1>4
  <2>2. \A j \in 1..m : a + j <= Len(base)
    BY <1>1, <1>4
  <2> QED
    BY <1>4, <2>1, <2>2 DEF Found
<1> QED
  BY <1>3, <1>4 DEF a, old

\* A section whose hunks all have a line to find, or start at the start of the file.
Anchored(hunks) == \A i \in DOMAIN hunks : Side(hunks[i], "-") # <<>> \/ HunkStart(hunks[i]) = 0

\* Hunks fit a file exactly if each is in its place after the one before it.
LEMMA FitsInPlace ==
  ASSUME NEW base \in Seq(Texts), NEW hunks \in Seq(DiffHunks), Anchored(hunks)
  PROVE  Fits(base, hunks) <=> \A i \in 1..Len(hunks) : InPlace(base, hunks, i)
<1> DEFINE n == Len(hunks)
<1>1. n \in Nat /\ DOMAIN hunks = 1..n /\ \A i \in 1..n : hunks[i] \in DiffHunks
  OBVIOUS
<1>2. \A i \in 1..n :
         /\ HunkStart(hunks[i]) \in Nat /\ HunkEnd(hunks[i]) \in Nat
         /\ HunkStart(hunks[i]) <= HunkEnd(hunks[i])
         /\ Found(base, HunkStart(hunks[i]), Side(hunks[i], "-")) <=>
               /\ HunkEnd(hunks[i]) <= Len(base)
               /\ SubSeq(base, HunkStart(hunks[i]) + 1, HunkEnd(hunks[i])) = Side(hunks[i], "-")
  BY <1>1, FoundAsSubSeq, HunkEndType DEF Anchored
<1>3. ASSUME Fits(base, hunks), NEW i \in 1..n PROVE InPlace(base, hunks, i)
  <2>1. Used(hunks, i - 1) <= HunkStart(hunks[i])
    <3>1. CASE i = 1
      BY <1>2, <3>1 DEF Used
    <3>2. CASE i # 1
      <4>1. i - 1 \in 1..i-1 /\ i - 1 # 0
        BY <1>1, <3>2
      <4> QED
        BY <1>1, <1>3, <4>1 DEF Used, Fits
    <3> QED
      BY <3>1, <3>2
  <2>2. Found(base, HunkStart(hunks[i]), Side(hunks[i], "-"))
    BY <1>1, <1>2, <1>3 DEF Fits
  <2> QED
    BY <2>1, <2>2 DEF InPlace
<1>4. ASSUME \A i \in 1..n : InPlace(base, hunks, i) PROVE Fits(base, hunks)
  <2>1. ASSUME NEW i \in 1..n, NEW j \in 1..i-1
        PROVE  HunkEnd(hunks[j]) <= HunkStart(hunks[i])
    <3> DEFINE k == i - 1 - j
               S == {m \in 0..k : HunkEnd(hunks[j]) <= HunkEnd(hunks[j + m])}
    <3>1. k \in Nat /\ j \in 1..n /\ j + 0 = j /\ 0 \in 0..k
      BY <1>1
    <3>2. 0 \in S
      BY <1>2, <3>1
    <3>3. ASSUME NEW m \in 0..k-1, m \in S PROVE m + 1 \in S
      <4>1. /\ j + m \in 1..n /\ j + (m + 1) \in 1..n /\ (j + (m + 1)) - 1 = j + m /\ j + m # 0
            /\ m + 1 \in 0..k
        BY <1>1, <3>1
      <4>2. HunkEnd(hunks[j + m]) <= HunkStart(hunks[j + (m + 1)])
        BY <1>4, <4>1 DEF InPlace, Used
      <4>3. HunkEnd(hunks[j]) <= HunkEnd(hunks[j + m])
        BY <3>3
      <4>4. HunkEnd(hunks[j]) <= HunkEnd(hunks[j + (m + 1)])
        BY <1>2, <3>1, <4>1, <4>2, <4>3
      <4> QED
        BY <4>1, <4>4
    <3>4. k \in S
      <4> HIDE DEF S, k
      <4>1. \A m \in 0..k : m \in S
        BY <3>1, <3>2, <3>3, Counting
      <4> QED
        BY <3>1, <4>1
    <3>5. j + k = i - 1 /\ i - 1 # 0 /\ i - 1 \in 1..n
      BY <1>1
    <3>6. HunkEnd(hunks[j]) <= HunkEnd(hunks[i - 1])
      BY <3>4, <3>5
    <3>7. HunkEnd(hunks[i - 1]) <= HunkStart(hunks[i])
      BY <1>4, <3>5 DEF InPlace, Used
    <3>8. /\ HunkEnd(hunks[j]) \in Nat /\ HunkEnd(hunks[i - 1]) \in Nat
          /\ HunkStart(hunks[i]) \in Nat
      BY <1>2, <3>1, <3>5
    <3> QED
      BY <3>6, <3>7, <3>8
  <2>2. \A i \in 1..n : Found(base, HunkStart(hunks[i]), Side(hunks[i], "-"))
    BY <1>4 DEF InPlace
  <2> QED
    BY <1>1, <1>2, <2>1, <2>2 DEF Fits
<1> QED
  BY <1>3, <1>4

LEMMA FirstOfSuffix ==
  \A n \in Nat : \A i \in 1..n : i..n # {} /\ Min(i..n) = i /\ (i..n) \ {Min(i..n)} = (i+1)..n
<1> SUFFICES ASSUME NEW n \in Nat, NEW i \in 1..n
             PROVE  i..n # {} /\ Min(i..n) = i /\ (i..n) \ {Min(i..n)} = (i+1)..n
  OBVIOUS
<1> DEFINE N == i..n
<1>1. N \in SUBSET (1..n) /\ N # {} /\ i \in N
  OBVIOUS
<1>2. Min(N) \in N /\ \A j \in N : Min(N) <= j
  <2> HIDE DEF N
  <2> QED
    BY <1>1, FirstPosition
<1>3. Min(N) = i
  BY <1>1, <1>2
<1> QED
  BY <1>1, <1>3

\* The elements from one position to another.
LEMMA Part ==
  ASSUME NEW S, NEW s \in Seq(S), NEW i \in Nat, NEW j \in Nat, i <= j, j <= Len(s)
  PROVE  /\ SubSeq(s, i + 1, j) \in Seq(S) /\ Len(SubSeq(s, i + 1, j)) = j - i
         /\ \A x \in 1..j - i : SubSeq(s, i + 1, j)[x] = s[i + x]
<1> DEFINE part == SubSeq(s, i + 1, j)
<1>1. \A x \in i + 1..j : s[x] \in S
  <2>1. \A x \in i + 1..j : x \in 1..Len(s)
    OBVIOUS
  <2> QED
    BY <2>1, ElementOfSeq
<1>2. /\ part \in Seq(S) /\ Len(part) = IF i + 1 <= j THEN j - (i + 1) + 1 ELSE 0
      /\ \A x \in 1..j - (i + 1) + 1 : part[x] = s[(i + 1) + x - 1]
  BY <1>1, SubSeqProperties
<1> HIDE DEF part
<1>3. j - (i + 1) + 1 = j - i /\ \A x \in 1..j - i : (i + 1) + x - 1 = i + x
  OBVIOUS
<1>4. Len(part) = j - i
  BY <1>2
<1>5. \A x \in 1..j - i : part[x] = s[i + x]
  BY <1>2, <1>3, Zenon
<1> QED
  BY <1>2, <1>4, <1>5 DEF part

\* The old side of a hunk replaced by the new one.
Patch(h, lines) == SubSeq(lines, 1, HunkStart(h)) \o Side(h, "+")
                      \o SubSeq(lines, HunkEnd(h) + 1, Len(lines))

\* The first k lines of two files are there and the same.
SameUpTo(base, lines, k) == k <= Len(lines) /\ \A x \in 1..k : lines[x] = base[x]

LEMMA PatchElements ==
  ASSUME NEW lines \in Seq(Texts), NEW h \in DiffHunks, HunkEnd(h) <= Len(lines)
  PROVE  LET a == HunkStart(h)  b == Len(Side(h, "+"))  p == Patch(h, lines)
         IN  /\ p \in Seq(Texts) /\ Len(p) = a + b + (Len(lines) - HunkEnd(h))
             /\ \A x \in 1..a : p[x] = lines[x]
             /\ \A x \in 1..b : p[a + x] = Side(h, "+")[x]
             /\ \A x \in 1..Len(lines) - HunkEnd(h) : p[a + b + x] = lines[HunkEnd(h) + x]
<1> DEFINE a == HunkStart(h)
           e == HunkEnd(h)
           new == Side(h, "+")
           b == Len(new)
           m == Len(lines)
           head == SubSeq(lines, 1, a)
           tail == SubSeq(lines, e + 1, m)
<1>1. /\ a \in Nat /\ e \in Nat /\ b \in Nat /\ m \in Nat /\ a <= e /\ e <= m
      /\ new \in Seq(Texts)
  BY HunkEndType, SideType
<1>2. Patch(h, lines) = (head \o new) \o tail
  BY DEF Patch
<1> HIDE DEF a, e, new
<1>3. head \in Seq(Texts) /\ Len(head) = a /\ \A x \in 1..a : head[x] = lines[x]
  <2>1. /\ SubSeq(lines, 0 + 1, a) \in Seq(Texts) /\ Len(SubSeq(lines, 0 + 1, a)) = a - 0
        /\ \A x \in 1..a - 0 : SubSeq(lines, 0 + 1, a)[x] = lines[0 + x]
    BY <1>1, Part
  <2>2. 0 + 1 = 1 /\ a - 0 = a /\ \A x \in 1..a : 0 + x = x
    BY <1>1
  <2> QED
    BY <2>1, <2>2, Zenon
<1>4. tail \in Seq(Texts) /\ Len(tail) = m - e /\ \A x \in 1..m - e : tail[x] = lines[e + x]
  BY <1>1, Part
<1> HIDE DEF head, tail, b, m
<1>5. /\ head \o new \in Seq(Texts) /\ Len(head \o new) = a + b
      /\ \A x \in 1..a + b : (head \o new)[x] = IF x <= a THEN head[x] ELSE new[x - a]
  BY <1>1, <1>3, ConcatProperties DEF b
<1> DEFINE front == head \o new
<1>6. /\ front \o tail \in Seq(Texts) /\ Len(front \o tail) = (a + b) + (m - e)
      /\ \A x \in 1..(a + b) + (m - e) :
            (front \o tail)[x] = IF x <= a + b THEN front[x] ELSE tail[x - (a + b)]
  <2>1. front \in Seq(Texts) /\ Len(front) = a + b
    BY <1>5
  <2> HIDE DEF front
  <2>2. /\ front \o tail \in Seq(Texts) /\ Len(front \o tail) = Len(front) + Len(tail)
        /\ \A x \in 1..Len(front) + Len(tail) :
              (front \o tail)[x] = IF x <= Len(front) THEN front[x] ELSE tail[x - Len(front)]
    BY <1>4, <2>1, ConcatProperties
  <2> QED
    BY <1>4, <2>1, <2>2, Zenon
<1> HIDE DEF front
<1> DEFINE p == front \o tail
<1>7. \A x \in 1..a : p[x] = lines[x]
  <2>1. \A x \in 1..a : x \in 1..a + b /\ x \in 1..(a + b) + (m - e) /\ x <= a + b /\ x <= a
    BY <1>1
  <2> QED
    BY <1>3, <1>5, <1>6, <2>1 DEF front
<1>8. \A x \in 1..b : p[a + x] = new[x]
  <2>1. \A x \in 1..b : /\ a + x \in 1..a + b /\ a + x \in 1..(a + b) + (m - e)
                        /\ a + x <= a + b /\ ~ (a + x <= a) /\ (a + x) - a = x
    BY <1>1
  <2> QED
    BY <1>5, <1>6, <2>1 DEF front
<1>9. \A x \in 1..m - e : p[a + b + x] = lines[e + x]
  <2>1. \A x \in 1..m - e : /\ a + b + x \in 1..(a + b) + (m - e) /\ ~ (a + b + x <= a + b)
                            /\ (a + b + x) - (a + b) = x
    BY <1>1
  <2> QED
    BY <1>4, <1>6, <2>1
<1>10. Patch(h, lines) = p
  BY <1>2 DEF front
<1> HIDE DEF p
<1> QED
  BY <1>6, <1>7, <1>8, <1>9, <1>10 DEF a, e, new, p, b, m

LEMMA PatchKeeps ==
  ASSUME NEW base \in Seq(Texts), NEW lines \in Seq(Texts), NEW h \in DiffHunks,
         SameUpTo(base, lines, HunkEnd(h)), NEW k \in Nat, k <= HunkStart(h)
  PROVE  Patch(h, lines) \in Seq(Texts) /\ SameUpTo(base, Patch(h, lines), k)
<1> DEFINE p == Patch(h, lines)
           b == Len(Side(h, "+"))
<1>1. /\ HunkStart(h) \in Nat /\ HunkEnd(h) \in Nat /\ HunkStart(h) <= HunkEnd(h)
      /\ b \in Nat /\ Len(lines) \in Nat /\ HunkEnd(h) <= Len(lines)
  BY HunkEndType, SideType DEF SameUpTo
<1>2. /\ p \in Seq(Texts) /\ Len(p) = HunkStart(h) + b + (Len(lines) - HunkEnd(h))
      /\ \A x \in 1..HunkStart(h) : p[x] = lines[x]
  BY <1>1, PatchElements
<1> HIDE DEF p, b
<1>3. k <= Len(p)
  BY <1>1, <1>2
<1>4. \A x \in 1..k : x \in 1..HunkStart(h) /\ x \in 1..HunkEnd(h)
  BY <1>1
<1>5. \A x \in 1..k : p[x] = base[x]
  BY <1>2, <1>4 DEF SameUpTo
<1> QED
  BY <1>2, <1>3, <1>5 DEF SameUpTo, p

\* The patch, hunk by hunk from the last one.
LEMMA PatchRun ==
  ASSUME NEW base \in Seq(Texts), NEW hunks \in Seq(DiffHunks), Fits(base, hunks)
  PROVE  \E r \in [0..Len(hunks) -> Seq(Texts)] :
            /\ r[Len(hunks)] = base /\ Patched(base, hunks) = r[0]
            /\ \A i \in 1..Len(hunks) : /\ r[i-1] = Patch(hunks[i], r[i])
                                        /\ SameUpTo(base, r[i], HunkEnd(hunks[i]))
<1> DEFINE n == Len(hunks)
           N == 1..n
           Type(q) == {v \in Seq(Texts) : \A j \in N :
                         (\A k \in q : j < k) => SameUpTo(base, v, HunkEnd(hunks[j]))}
           types == [q \in SUBSET N |-> Type(q)]
           pick == [q \in SUBSET N |-> Min(q)]
           step == [z \in (SUBSET N) \X Seq(Texts) |-> Patch(hunks[Min(z[1])], z[2])]
           Iter(g) == g = [q \in SUBSET DOMAIN hunks |->
                              IF q = {} THEN base ELSE Patch(hunks[Min(q)], g[q \ {Min(q)}])]
           f == CHOOSE g : Iter(g)
<1>1. n \in Nat /\ DOMAIN hunks = N /\ \A i \in N : hunks[i] \in DiffHunks
  OBVIOUS
<1>2. Patched(base, hunks) = f[N]
  BY <1>1 DEF Patched, FoldRight, MapThenFoldSet, Patch
<1>3. \A q \in SUBSET N : q # {} => Min(q) \in q /\ \A k \in q \ {Min(q)} : Min(q) < k
  <2> SUFFICES ASSUME NEW q \in SUBSET N, q # {}
               PROVE  Min(q) \in q /\ \A k \in q \ {Min(q)} : Min(q) < k
    OBVIOUS
  <2>1. Min(q) \in q /\ \A k \in q : Min(q) <= k
    BY <1>1, FirstPosition
  <2>2. \A k \in q : k \in 1..n
    OBVIOUS
  <2>3. Min(q) \in 1..n
    BY <2>1, <2>2
  <2>4. \A k \in 1..n : Min(q) <= k /\ k # Min(q) => Min(q) < k
    BY <1>1, <2>3
  <2> QED
    BY <2>1, <2>2, <2>4
<1>4. ASSUME NEW q \in SUBSET N, q # {}, NEW v \in Type(q \ {Min(q)})
      PROVE  Patch(hunks[Min(q)], v) \in Type(q)
  <2> DEFINE i == Min(q)
             p == Patch(hunks[i], v)
  <2>1. i \in N /\ i \in q /\ \A k \in q \ {i} : i < k
    BY <1>3, <1>4
  <2>2. v \in Seq(Texts) /\ SameUpTo(base, v, HunkEnd(hunks[i]))
    BY <1>4, <2>1
  <2>3. hunks[i] \in DiffHunks /\ HunkStart(hunks[i]) \in Nat
    BY <1>1, <2>1, HunkStartType
  <2> HIDE DEF i
  <2>4. \A k \in Nat : k <= HunkStart(hunks[i]) => p \in Seq(Texts) /\ SameUpTo(base, p, k)
    BY <2>2, <2>3, PatchKeeps
  <2>5. p \in Seq(Texts)
    BY <2>3, <2>4
  <2>6. ASSUME NEW j \in N, \A k \in q : j < k PROVE SameUpTo(base, p, HunkEnd(hunks[j]))
    <3>1. j < i
      BY <2>1, <2>6
    <3>2. j \in 1..i-1 /\ i \in DOMAIN hunks
      BY <1>1, <2>1, <3>1
    <3>3. HunkEnd(hunks[j]) <= HunkStart(hunks[i])
      BY <3>2 DEF Fits
    <3>4. HunkEnd(hunks[j]) \in Nat
      BY <1>1, HunkEndType
    <3> QED
      BY <2>4, <3>3, <3>4
  <2> HIDE DEF p
  <2> QED
    BY <2>5, <2>6 DEF p, i
<1>5. base \in Type({})
  <2>1. ASSUME NEW j \in N PROVE SameUpTo(base, base, HunkEnd(hunks[j]))
    BY <1>1 DEF Fits, SameUpTo
  <2> QED
    BY <2>1
<1> HIDE DEF Type
<1>6. \A q \in SUBSET N : Type(q) \subseteq Seq(Texts)
  BY DEF Type
<1>7. /\ IsFiniteSet(N) /\ base \in types[{}]
      /\ \A q \in SUBSET N : q # {} => pick[q] \in q
      /\ \A q \in SUBSET N : q # {} => \A v \in types[q \ {pick[q]}] :
            step[<<q, v>>] = Patch(hunks[Min(q)], v) /\ step[<<q, v>>] \in types[q]
  <2>1. IsFiniteSet(N) /\ base \in types[{}]
    BY <1>1, <1>5, FS_Interval
  <2>2. ASSUME NEW q \in SUBSET N, q # {} PROVE pick[q] = Min(q) /\ pick[q] \in q
    BY <1>3, <2>2
  <2>3. ASSUME NEW q \in SUBSET N, q # {}, NEW v \in types[q \ {pick[q]}]
        PROVE  step[<<q, v>>] = Patch(hunks[Min(q)], v) /\ step[<<q, v>>] \in types[q]
    <3>1. v \in Type(q \ {Min(q)}) /\ v \in Seq(Texts) /\ types[q] = Type(q)
      BY <1>6, <2>2, <2>3
    <3>2. step[<<q, v>>] = Patch(hunks[Min(q)], v)
      BY <3>1
    <3> HIDE DEF step, types
    <3> QED
      BY <1>4, <2>3, <3>1, <3>2
  <2> QED
    BY <2>1, <2>2, <2>3
<1>8. PICK g : /\ g = [q \in SUBSET N |-> g[q]]
               /\ \A q \in SUBSET N : g[q] \in types[q] /\ Solves(g, q, pick, step, base)
  <2> HIDE DEF N, types, pick, step
  <2> QED
    BY <1>7, FoldsExist
<1>9. Iter(g)
  <2>1. ASSUME NEW q \in SUBSET N
        PROVE  g[q] = IF q = {} THEN base ELSE Patch(hunks[Min(q)], g[q \ {Min(q)}])
    <3>1. CASE q = {}
      BY <1>8, <3>1 DEF Solves
    <3>2. CASE q # {}
      <4>1. pick[q] = Min(q) /\ q \ {pick[q]} \in SUBSET N
        OBVIOUS
      <4> HIDE DEF step, pick, types
      <4>2. g[q \ {pick[q]}] \in types[q \ {pick[q]}]
        BY <1>8, <4>1
      <4>3. g[q] = step[<<q, g[q \ {pick[q]}]>>]
        BY <1>8, <3>2 DEF Solves
      <4> QED
        BY <1>7, <3>2, <4>1, <4>2, <4>3
    <3> QED
      BY <3>1, <3>2
  <2> QED
    BY <1>1, <1>8, <2>1
<1>10. Iter(f)
  BY <1>9
<1> HIDE DEF f
<1>11. ASSUME NEW i \in 1..n PROVE f[i..n] = Patch(hunks[i], f[(i+1)..n])
  <2>1. i..n # {} /\ Min(i..n) = i /\ (i..n) \ {Min(i..n)} = (i+1)..n
    BY <1>1, FirstOfSuffix
  <2>2. i..n \in SUBSET N
    BY <1>1
  <2> QED
    BY <1>1, <1>10, <2>1, <2>2
<1>12. \A i \in 0..n : f[(i+1)..n] \in Type((i+1)..n)
  <2> DEFINE S == {i \in 0..n : f[(i+1)..n] \in Type((i+1)..n)}
  <2>1. n \in S
    <3>1. (n+1)..n = {} /\ {} \in SUBSET N
      BY <1>1
    <3>2. f[{}] = base
      BY <1>1, <1>10
    <3> QED
      BY <1>1, <1>5, <3>1, <3>2
  <2>2. ASSUME NEW i \in 1..n, i \in S PROVE i - 1 \in S
    <3>1. (i-1)+1 = i /\ i-1 \in 0..n /\ i..n \in SUBSET N
      BY <1>1
    <3>2. i..n # {} /\ Min(i..n) = i /\ (i..n) \ {Min(i..n)} = (i+1)..n
      BY <1>1, FirstOfSuffix
    <3>3. Patch(hunks[Min(i..n)], f[(i+1)..n]) \in Type(i..n)
      BY <1>4, <2>2, <3>1, <3>2
    <3>4. f[i..n] \in Type(i..n)
      BY <1>11, <3>2, <3>3
    <3> QED
      BY <3>1, <3>4
  <2> HIDE DEF S
  <2>3. \A i \in 0..n : i \in S
    BY <1>1, <2>1, <2>2, CountingDown
  <2> QED
    BY <2>3 DEF S
<1> DEFINE r == [i \in 0..n |-> f[(i+1)..n]]
<1>13. r \in [0..n -> Seq(Texts)]
  <2>1. \A i \in 0..n : (i+1)..n \in SUBSET N
    BY <1>1
  <2> QED
    BY <1>6, <1>12, <2>1
<1>14. r[n] = base /\ r[0] = f[N]
  <2>1. (n+1)..n = {} /\ 0 \in 0..n /\ n \in 0..n /\ 0 + 1 = 1 /\ {} \in SUBSET N
    BY <1>1
  <2>2. f[{}] = base
    BY <1>1, <1>10
  <2> QED
    BY <2>1, <2>2
<1>15. ASSUME NEW i \in 1..n
       PROVE  r[i-1] = Patch(hunks[i], r[i]) /\ SameUpTo(base, r[i], HunkEnd(hunks[i]))
  <2>1. i-1 \in 0..n /\ i \in 0..n /\ (i-1)+1 = i /\ i \in N /\ \A k \in (i+1)..n : i < k
    BY <1>1
  <2>2. r[i] \in Type((i+1)..n)
    BY <1>12, <2>1
  <2> QED
    BY <1>11, <2>1, <2>2 DEF Type
<1> HIDE DEF r
<1> QED
  BY <1>2, <1>13, <1>14, <1>15

LEMMA WrittenType ==
  ASSUME NEW s \in Seq(Texts)
  PROVE  s \in Seq(Written)
<1>1. Texts \subseteq Written
  BY DEF Written
<1> QED
  BY <1>1, SeqMonotonic

LEMMA ConcatWritten ==
  ASSUME NEW s \in Seq(Written), NEW t \in Seq(Written)
  PROVE  /\ s \o t \in Seq(Written) /\ Len(s \o t) = Len(s) + Len(t)
         /\ \A i \in 1..Len(s) : (s \o t)[i] = s[i]
         /\ \A i \in 1..Len(t) : (s \o t)[Len(s) + i] = t[i]
OBVIOUS

LEMMA AssociativeWritten ==
  ASSUME NEW s \in Seq(Written), NEW t \in Seq(Written), NEW u \in Seq(Written)
  PROVE  (s \o t) \o u = s \o (t \o u)
OBVIOUS

\* To copy the lines up to a hunk, write its new side and go on after its old one is to go on
\* in the file in which the hunk is replaced.
Spliced(base, lines, h, from) ==
    SubSeq(Patch(h, lines), from + 1, Len(Patch(h, lines))) =
        (Copied(base, from, HunkStart(h)) \o Side(h, "+"))
            \o SubSeq(lines, HunkEnd(h) + 1, Len(lines))

LEMMA Splice ==
  ASSUME NEW base \in Seq(Texts), NEW lines \in Seq(Texts), NEW h \in DiffHunks,
         SameUpTo(base, lines, HunkEnd(h)), HunkStart(h) <= Len(base),
         NEW from \in Nat, from <= HunkStart(h)
  PROVE  Spliced(base, lines, h, from)
<1> DEFINE p == Patch(h, lines)
           a == HunkStart(h)
           e == HunkEnd(h)
           m == Len(lines)
           new == Side(h, "+")
           b == Len(new)
           copy == Copied(base, from, a)
           tail == SubSeq(lines, e + 1, m)
           rest == SubSeq(p, from + 1, Len(p))
           front == copy \o new
           all == front \o tail
           c == a - from
           d == m - e
<1>1. /\ a \in Nat /\ e \in Nat /\ a <= e /\ b \in Nat /\ m \in Nat /\ e <= m /\ c \in Nat
      /\ d \in Nat
      /\ from + c = a /\ e + d = m /\ from \in Nat /\ Len(base) \in Nat /\ a <= Len(base)
      /\ new \in Seq(Written)
  <2>1. a \in Nat /\ e \in Nat /\ a <= e /\ from <= a /\ a <= Len(base)
    BY HunkEndType
  <2>2. b \in Nat /\ new \in Seq(Written)
    BY SideType, WrittenType
  <2>3. m \in Nat /\ e <= m /\ Len(base) \in Nat
    BY DEF SameUpTo
  <2> HIDE DEF a, e, b, m, new
  <2> QED
    BY <2>1, <2>2, <2>3
<1>2. /\ p \in Seq(Texts) /\ Len(p) = a + b + d
      /\ \A x \in 1..a : p[x] = lines[x]
      /\ \A x \in 1..b : p[a + x] = new[x]
      /\ \A x \in 1..d : p[a + b + x] = lines[e + x]
  BY <1>1, PatchElements
<1>3. \A x \in 1..e : lines[x] = base[x]
  BY DEF SameUpTo
<1>4. copy \in Seq(Written) /\ Len(copy) = c /\ \A x \in 1..c : copy[x] = base[from + x]
  <2>1. copy \in Seq(Written) /\ Len(copy) = c
    BY <1>1, CopiedType
  <2>2. \A x \in 1..c : from + x <= Len(base) /\ x \in 1..a - from
    BY <1>1
  <2>3. \A x \in 1..c : copy[x] = base[from + x]
    BY <2>2 DEF Copied
  <2> QED
    BY <2>1, <2>3
<1>5. tail \in Seq(Written) /\ Len(tail) = d /\ \A x \in 1..d : tail[x] = lines[e + x]
  <2>1. tail \in Seq(Texts) /\ Len(tail) = d /\ \A x \in 1..d : tail[x] = lines[e + x]
    <3>1. e \in Nat /\ m \in Nat /\ e <= m
      BY <1>1
    <3> HIDE DEF e
    <3> QED
      BY <3>1, Part
  <2> QED
    BY <2>1, WrittenType
<1> HIDE DEF p, a, e, m, b, c, d, copy, tail, new
<1>6. rest \in Seq(Written) /\ Len(rest) = c + b + d
      /\ \A x \in 1..c + b + d : rest[x] = p[from + x]
  <2>1. from <= Len(p) /\ Len(p) \in Nat /\ Len(p) - from = c + b + d
    BY <1>1, <1>2
  <2>2. /\ rest \in Seq(Texts) /\ Len(rest) = Len(p) - from
        /\ \A x \in 1..Len(p) - from : rest[x] = p[from + x]
    BY <1>1, <1>2, <2>1, Part
  <2>3. rest \in Seq(Written)
    BY <2>2, WrittenType
  <2> QED
    BY <2>1, <2>2, <2>3, Zenon
<1>7. /\ front \in Seq(Written) /\ Len(front) = c + b
      /\ \A x \in 1..c : front[x] = copy[x]
      /\ \A x \in 1..b : front[c + x] = new[x]
  <2>1. /\ front \in Seq(Written) /\ Len(front) = Len(copy) + Len(new)
        /\ \A x \in 1..Len(copy) : front[x] = copy[x]
        /\ \A x \in 1..Len(new) : front[Len(copy) + x] = new[x]
    BY <1>1, <1>4, ConcatWritten
  <2> QED
    BY <1>4, <2>1, Zenon DEF b
<1> HIDE DEF front
<1>8. /\ all \in Seq(Written) /\ Len(all) = c + b + d
      /\ \A x \in 1..c + b : all[x] = front[x]
      /\ \A x \in 1..d : all[c + b + x] = tail[x]
  <2>1. /\ all \in Seq(Written) /\ Len(all) = Len(front) + Len(tail)
        /\ \A x \in 1..Len(front) : all[x] = front[x]
        /\ \A x \in 1..Len(tail) : all[Len(front) + x] = tail[x]
    BY <1>5, <1>7, ConcatWritten
  <2> QED
    BY <1>5, <1>7, <2>1, Zenon
<1> HIDE DEF rest, all
<1>9. ASSUME NEW y \in 1..c + b + d PROVE rest[y] = all[y]
  <2>1. CASE y <= c
    <3>1. y \in 1..c /\ y \in 1..c + b /\ from + y \in 1..a /\ from + y \in 1..e
      BY <1>1, <2>1
    <3>2. rest[y] = lines[from + y] /\ lines[from + y] = base[from + y]
      BY <1>2, <1>3, <1>6, <3>1
    <3>3. all[y] = base[from + y]
      BY <1>4, <1>7, <1>8, <3>1
    <3> QED
      BY <3>2, <3>3
  <2>2. CASE c < y /\ y <= c + b
    <3> DEFINE x == y - c
    <3>1. x \in 1..b /\ y = c + x /\ y \in 1..c + b /\ from + y = a + x
      BY <1>1, <2>2
    <3> HIDE DEF x
    <3>2. rest[y] = new[x]
      BY <1>2, <1>6, <3>1
    <3>3. all[y] = new[x]
      BY <1>7, <1>8, <3>1
    <3> QED
      BY <3>2, <3>3
  <2>3. CASE c + b < y
    <3> DEFINE x == y - (c + b)
    <3>1. x \in 1..d /\ y = c + b + x /\ from + y = a + b + x
      BY <1>1, <2>3
    <3> HIDE DEF x
    <3>2. rest[y] = lines[e + x]
      BY <1>2, <1>6, <3>1
    <3>3. all[y] = lines[e + x]
      BY <1>5, <1>8, <3>1
    <3> QED
      BY <3>2, <3>3
  <2>4. c + b \in Nat /\ y \in Int
    BY <1>1
  <2> QED
    BY <1>1, <2>1, <2>2, <2>3, <2>4
<1>10. rest = all
  BY <1>6, <1>8, <1>9, SeqEqual
<1> QED
  BY <1>10 DEF rest, all, front, p, a, e, m, copy, tail, new, Spliced

\* Hunks are applied exactly if every one of them lies where it says on the lines it was made
\* from, and then to the lines with every old side replaced by its new one: entrypoints/
\* ingest.ts's cursor, which copies, compares and drops lines, is the patch.
THEOREM HunksApplyAsMeant ==
  ASSUME NEW base \in Seq(Texts), NEW hunks \in Seq(DiffHunks), Anchored(hunks)
  PROVE  /\ ApplyHunks(base, hunks).ok <=> Fits(base, hunks)
         /\ Fits(base, hunks) => ApplyHunks(base, hunks).lines = Patched(base, hunks)
<1> DEFINE n == Len(hunks)
           end == HunksApplied(base, hunks)
<1>1. n \in Nat /\ n \in 0..n /\ DOMAIN hunks = 1..n /\ (\A i \in 1..n : hunks[i] \in DiffHunks)
      /\ Len(base) \in Nat
  OBVIOUS
<1>2. /\ ApplyHunks(base, hunks).ok = end.ok
      /\ ApplyHunks(base, hunks).lines = end.out \o SubSeq(base, end.at + 1, Len(base))
  BY DEF ApplyHunks, HunksApplied, Untouched
<1> HIDE DEF end
<1>3. PICK w \in [0..n -> Cursors] :
            /\ w[0] = Untouched
            /\ \A i \in 1..n : w[i].ok =>
                  w[i].out = (w[i-1].out \o Copied(base, w[i-1].at, HunkStart(hunks[i])))
                                \o Side(hunks[i], "+")
            /\ \A i \in 0..n :
                  /\ w[i].ok <=> \A k \in 1..i : InPlace(base, hunks, k)
                  /\ w[i].ok => w[i].at = Used(hunks, i)
            /\ end = w[n]
  BY HunksDone DEF end
<1>4. end.ok <=> Fits(base, hunks)
  BY <1>1, <1>3, FitsInPlace
<1>5. ASSUME Fits(base, hunks)
      PROVE  end.out \o SubSeq(base, end.at + 1, Len(base)) = Patched(base, hunks)
  <2>1. PICK r \in [0..n -> Seq(Texts)] :
            /\ r[n] = base /\ Patched(base, hunks) = r[0]
            /\ \A i \in 1..n : /\ r[i-1] = Patch(hunks[i], r[i])
                               /\ SameUpTo(base, r[i], HunkEnd(hunks[i]))
    BY <1>5, PatchRun
  <2>2. \A i \in 1..n : InPlace(base, hunks, i) /\ HunkStart(hunks[i]) <= Len(base)
    <3>1. \A i \in 1..n : InPlace(base, hunks, i)
      BY <1>5, FitsInPlace
    <3>2. ASSUME NEW i \in 1..n PROVE HunkStart(hunks[i]) <= Len(base)
      <4>1. HunkEnd(hunks[i]) <= Len(base)
        BY <1>1, <1>5 DEF Fits
      <4>2. /\ HunkStart(hunks[i]) \in Nat /\ HunkEnd(hunks[i]) \in Nat
            /\ HunkStart(hunks[i]) <= HunkEnd(hunks[i])
        BY <1>1, HunkEndType
      <4> QED
        BY <1>1, <4>1, <4>2
    <3> QED
      BY <3>1, <3>2
  <2>3. \A i \in 0..n : w[i].ok /\ w[i].at = Used(hunks, i)
    <3>1. \A i \in 0..n : \A k \in 1..i : k \in 1..n
      BY <1>1
    <3> QED
      BY <1>3, <2>2, <3>1
  <2> DEFINE Whole(i) == w[i].out \o SubSeq(r[i], Used(hunks, i) + 1, Len(r[i]))
             S == {i \in 0..n : Whole(i) = Whole(0)}
  <2>4. ASSUME NEW i \in 1..n PROVE Whole(i-1) = Whole(i)
    <3> DEFINE h == hunks[i]
               from == Used(hunks, i-1)
               copy == Copied(base, from, HunkStart(h))
               tail == SubSeq(r[i], HunkEnd(h) + 1, Len(r[i]))
               out == w[i-1].out
    <3>1. i-1 \in 0..n /\ i \in 0..n /\ i # 0
      BY <1>1
    <3>2. /\ h \in DiffHunks /\ r[i] \in Seq(Texts) /\ out \in Seq(Written)
          /\ from \in Nat /\ from <= HunkStart(h) /\ HunkStart(h) <= Len(base)
          /\ SameUpTo(base, r[i], HunkEnd(h))
      BY <1>1, <2>1, <2>2, <3>1, UsedType DEF InPlace, Cursors
    <3>3. SubSeq(r[i-1], from + 1, Len(r[i-1])) = (copy \o Side(h, "+")) \o tail
      <4>1. Spliced(base, r[i], h, from)
        BY <3>2, Splice
      <4> QED
        BY <2>1, <4>1 DEF Spliced
    <3>4. copy \in Seq(Written) /\ Side(h, "+") \in Seq(Written)
      BY <3>2, HunkStartType, CopiedType, SideType, WrittenType
    <3>5. tail \in Seq(Written)
      <4>1. HunkEnd(h) \in Nat /\ HunkEnd(h) <= Len(r[i]) /\ Len(r[i]) \in Nat
        <5>1. SameUpTo(base, r[i], HunkEnd(h)) /\ h \in DiffHunks /\ r[i] \in Seq(Texts)
          BY <3>2
        <5> HIDE DEF h
        <5>2. HunkEnd(h) \in Nat
          BY <5>1, HunkEndType
        <5>3. HunkEnd(h) <= Len(r[i])
          BY <5>1 DEF SameUpTo
        <5>4. Len(r[i]) \in Nat
          BY <5>1, LenProperties
        <5> QED
          BY <5>2, <5>3, <5>4
      <4>2. tail \in Seq(Texts)
        BY <3>2, <4>1, Part
      <4> QED
        BY <4>2, WrittenType
    <3>6. w[i].out = (out \o copy) \o Side(h, "+") /\ Used(hunks, i) = HunkEnd(h)
      BY <1>3, <2>3, <3>1 DEF Used
    <3> HIDE DEF h, copy, tail, out
    <3>7. out \o ((copy \o Side(h, "+")) \o tail) = ((out \o copy) \o Side(h, "+")) \o tail
      <4> DEFINE new == Side(h, "+")
      <4>1. new \in Seq(Written)
        BY <3>4
      <4> HIDE DEF new
      <4>2. copy \o new \in Seq(Written) /\ out \o copy \in Seq(Written)
        BY <3>2, <3>4, <4>1, ConcatWritten
      <4>3. out \o ((copy \o new) \o tail) = (out \o (copy \o new)) \o tail
        BY <3>2, <3>5, <4>2, AssociativeWritten
      <4>4. out \o (copy \o new) = (out \o copy) \o new
        BY <3>2, <3>4, <4>1, AssociativeWritten
      <4> QED
        BY <4>3, <4>4 DEF new
    <3> QED
      BY <3>3, <3>6, <3>7 DEF h, tail, out
  <2>5. n \in S
    <3>1. 0 \in S
      <4> HIDE DEF Whole
      <4> QED
        BY <1>1
    <3>2. ASSUME NEW i \in 0..n-1, i \in S PROVE i + 1 \in S
      <4>1. i + 1 \in 1..n /\ (i + 1) - 1 = i /\ i + 1 \in 0..n
        BY <1>1
      <4>2. Whole((i + 1) - 1) = Whole(i + 1)
        BY <2>4, <4>1
      <4> HIDE DEF Whole
      <4> QED
        BY <3>2, <4>1, <4>2
    <3> HIDE DEF S
    <3>3. \A i \in 0..n : i \in S
      BY <1>1, <3>1, <3>2, Counting
    <3> QED
      BY <1>1, <3>3
  <2>6. Whole(0) = r[0]
    <3>1. r[0] \in Seq(Texts) /\ 0 + 1 = 1
      BY <1>1
    <3>2. SubSeq(r[0], 1, Len(r[0])) = r[0]
      BY <3>1, SubSeqFull
    <3>3. <<>> \o r[0] = r[0]
      BY <3>1, ConcatEmptySeq
    <3> QED
      BY <1>3, <3>1, <3>2, <3>3 DEF Untouched, Used
  <2>7. Whole(n) = end.out \o SubSeq(base, end.at + 1, Len(base))
    BY <1>1, <1>3, <2>1, <2>3
  <2> HIDE DEF Whole
  <2> QED
    BY <2>1, <2>5, <2>6, <2>7
<1> QED
  BY <1>2, <1>4, <1>5

-----------------------------------------------------------------------------
(* What the parser makes of a text, line after line and part after part.   *)

LEMMA ConcatText ==
  ASSUME NEW s \in Seq(TextLines), NEW t \in Seq(TextLines)
  PROVE  /\ s \o t \in Seq(TextLines) /\ Len(s \o t) = Len(s) + Len(t)
         /\ \A i \in 1..Len(s) : (s \o t)[i] = s[i]
         /\ \A i \in 1..Len(t) : (s \o t)[Len(s) + i] = t[i]
OBVIOUS

\* A set of states for every place of a text: if each line leads from one to the next,
\* reading ends in the last.
LEMMA ReadThrough ==
  ASSUME NEW text \in Seq(TextLines), NEW I, NEW s \in ParserStates, s \in I[0],
         \A i \in 1..Len(text) :
            \A z \in ParserStates : z \in I[i-1] => ParseLine(z, text[i]) \in I[i]
  PROVE  Read(s, text) \in I[Len(text)]
<1>1. PICK h \in [0..Len(text) -> ParserStates] :
            /\ h[0] = s /\ \A i \in 1..Len(text) : h[i] = ParseLine(h[i-1], text[i])
            /\ Read(s, text) = h[Len(text)]
  BY ReadRun
<1> DEFINE n == Len(text)
           S == {i \in 0..n : h[i] \in I[i]}
<1>2. n \in Nat
  OBVIOUS
<1>3. 0 \in S
  BY <1>1, <1>2
<1>4. ASSUME NEW i \in 0..n-1, i \in S
      PROVE  i + 1 \in S
  <2>1. i + 1 \in 1..n /\ i + 1 \in 0..n /\ (i + 1) - 1 = i /\ i \in 0..n
    BY <1>2
  <2>2. h[i] \in ParserStates /\ h[i] \in I[i]
    BY <1>4, <2>1
  <2>3. h[i+1] = ParseLine(h[i], text[i+1])
    BY <1>1, <2>1
  <2>4. ParseLine(h[i], text[i+1]) \in I[i+1]
    BY <2>1, <2>2
  <2> QED
    BY <2>1, <2>3, <2>4
<1>5. \A i \in 0..n : i \in S
  <2> HIDE DEF n, S
  <2> QED
    BY <1>2, <1>3, <1>4, Counting
<1>6. n \in 0..n
  BY <1>2
<1> QED
  BY <1>1, <1>5, <1>6

LEMMA ReadType ==
  ASSUME NEW s \in ParserStates, NEW text \in Seq(TextLines)
  PROVE  Read(s, text) \in ParserStates
<1>1. PICK h \in [0..Len(text) -> ParserStates] :
            /\ h[0] = s /\ \A i \in 1..Len(text) : h[i] = ParseLine(h[i-1], text[i])
            /\ Read(s, text) = h[Len(text)]
  BY ReadRun
<1>2. Len(text) \in 0..Len(text)
  OBVIOUS
<1> QED
  BY <1>1, <1>2

\* A text of one line, of none, and of two parts.
LEMMA ReadLine ==
  ASSUME NEW s \in ParserStates, NEW l \in TextLines
  PROVE  Read(s, <<l>>) = ParseLine(s, l) /\ Read(s, <<l>>) \in ParserStates
<1>1. <<l>> \in Seq(TextLines) /\ Len(<<l>>) = 1 /\ <<l>>[1] = l
  OBVIOUS
<1>2. PICK h \in [0..1 -> ParserStates] :
            /\ h[0] = s /\ \A i \in 1..1 : h[i] = ParseLine(h[i-1], <<l>>[i])
            /\ Read(s, <<l>>) = h[1]
  BY <1>1, ReadRun
<1>3. h[1] = ParseLine(h[0], <<l>>[1])
  BY <1>2
<1> QED
  BY <1>1, <1>2, <1>3, ParseLineType

LEMMA ReadNothing ==
  ASSUME NEW s \in ParserStates
  PROVE  Read(s, <<>>) = s
<1>1. <<>> \in Seq(TextLines) /\ Len(<<>>) = 0
  OBVIOUS
<1>2. PICK h \in [0..Len(<<>>) -> ParserStates] :
            /\ h[0] = s /\ \A i \in 1..Len(<<>>) : h[i] = ParseLine(h[i-1], <<>>[i])
            /\ Read(s, <<>>) = h[Len(<<>>)]
  BY <1>1, ReadRun
<1> QED
  BY <1>1, <1>2

LEMMA ReadParts ==
  ASSUME NEW s \in ParserStates, NEW t \in Seq(TextLines), NEW u \in Seq(TextLines)
  PROVE  Read(s, t \o u) = Read(Read(s, t), u) /\ Read(s, t) \in ParserStates
<1> DEFINE text == t \o u
           m == Len(t)
           n == Len(u)
<1>1. /\ text \in Seq(TextLines) /\ Len(text) = m + n /\ m \in Nat /\ n \in Nat
      /\ \A i \in 1..m : text[i] = t[i]
      /\ \A i \in 1..n : text[m + i] = u[i]
  BY ConcatText
<1>2. PICK h \in [0..Len(text) -> ParserStates] :
            /\ h[0] = s /\ \A i \in 1..Len(text) : h[i] = ParseLine(h[i-1], text[i])
            /\ Read(s, text) = h[Len(text)]
  BY <1>1, ReadRun
<1>3. PICK g \in [0..m -> ParserStates] :
            /\ g[0] = s /\ \A i \in 1..m : g[i] = ParseLine(g[i-1], t[i])
            /\ Read(s, t) = g[m]
  BY ReadRun
<1>4. Read(s, t) \in ParserStates
  BY <1>1, <1>3
<1>5. PICK k \in [0..n -> ParserStates] :
            /\ k[0] = Read(s, t) /\ \A i \in 1..n : k[i] = ParseLine(k[i-1], u[i])
            /\ Read(Read(s, t), u) = k[n]
  BY <1>4, ReadRun
<1> DEFINE S == {i \in 0..m : h[i] = g[i]}
           R == {i \in 0..n : h[m + i] = k[i]}
<1> HIDE DEF text, m, n
<1>6. \A i \in 0..m : i \in S
  <2>1. 0 \in S
    BY <1>1, <1>2, <1>3
  <2>2. ASSUME NEW i \in 0..m-1, i \in S
        PROVE  i + 1 \in S
    <3>1. i + 1 \in 1..m /\ i + 1 \in 1..Len(text) /\ i + 1 \in 0..m /\ (i + 1) - 1 = i
      BY <1>1
    <3>2. h[i+1] = ParseLine(h[i], t[i+1]) /\ g[i+1] = ParseLine(g[i], t[i+1])
      BY <1>1, <1>2, <1>3, <3>1
    <3> QED
      BY <2>2, <3>1, <3>2
  <2> HIDE DEF S
  <2> QED
    BY <1>1, <2>1, <2>2, Counting
<1>7. h[m] = Read(s, t)
  BY <1>1, <1>3, <1>6
<1>8. \A i \in 0..n : i \in R
  <2>1. 0 \in R
    BY <1>1, <1>5, <1>7
  <2>2. ASSUME NEW i \in 0..n-1, i \in R
        PROVE  i + 1 \in R
    <3>1. /\ i + 1 \in 1..n /\ i + 1 \in 0..n /\ (i + 1) - 1 = i
          /\ m + (i + 1) \in 1..Len(text) /\ (m + (i + 1)) - 1 = m + i
      BY <1>1
    <3>2. h[m + (i + 1)] = ParseLine(h[m + i], u[i+1]) /\ k[i+1] = ParseLine(k[i], u[i+1])
      BY <1>1, <1>2, <1>5, <3>1
    <3> QED
      BY <2>2, <3>1, <3>2
  <2> HIDE DEF R
  <2> QED
    BY <1>1, <2>1, <2>2, Counting
<1>9. h[m + n] = k[n]
  BY <1>1, <1>8
<1> QED
  BY <1>1, <1>2, <1>4, <1>5, <1>9 DEF text

\* The parts of a text laid end to end.
LEMMA FlatRun ==
  ASSUME NEW seqs \in Seq(Seq(TextLines))
  PROVE  \E f \in [0..Len(seqs) -> Seq(TextLines)] :
            /\ f[0] = <<>> /\ \A i \in 1..Len(seqs) : f[i] = f[i-1] \o seqs[i]
            /\ FlattenSeq(seqs) = f[Len(seqs)]
<1> DEFINE n == Len(seqs)
           V == Seq(TextLines)
           step == [z \in V \X V |-> z[1] \o z[2]]
           Iter(g) == g = [i \in 1..n |-> IF i = 1 THEN seqs[i] ELSE g[i-1] \o seqs[i]]
           c == CHOOSE g : Iter(g)
           f == [i \in 0..n |-> IF i = 0 THEN <<>> ELSE c[i]]
<1>1. n \in Nat /\ seqs \in [1..n -> V] /\ <<>> \in V
  OBVIOUS
<1>2. step \in [V \X V -> V] /\ \A v, w \in V : step[<<v, w>>] = v \o w /\ v \o w \in V
  <2>1. \A v, w \in V : v \o w \in V
    BY ConcatText
  <2> HIDE DEF V
  <2> QED
    BY <2>1
<1>3. \A v \in V : <<>> \o v = v
  <2> SUFFICES ASSUME NEW v \in Seq(TextLines)
               PROVE  <<>> \o v = v
    OBVIOUS
  <2> QED
    BY ConcatEmptySeq, Zenon
<1>4. FlattenSeq(seqs) = IF n = 0 THEN seqs ELSE c[n]
  BY DEF FlattenSeq
<1>5. n = 0 => seqs = <<>>
  OBVIOUS
<1> HIDE DEF n, V, step
<1>6. PICK e \in [SUBSET (1..n) -> V] : IsFold(e, n, seqs, V, <<>>, step)
  BY <1>1, <1>2, LeftFoldExists
<1>7. PICK h \in [0..n -> V] : IsRun(h, n, seqs, <<>>, step, e[1..n])
  BY <1>1, <1>2, <1>6, LeftFold
<1>8. h[0] = <<>> /\ \A i \in 1..n : h[i] = h[i-1] \o seqs[i]
  <2>1. \A i \in 1..n : h[i-1] \in V /\ seqs[i] \in V
    BY <1>1, <1>7
  <2> QED
    BY <1>2, <1>7, <2>1 DEF IsRun
<1>9. \E g : Iter(g)
  <2> DEFINE g == [i \in 1..n |-> h[i]]
  <2>1. ASSUME NEW i \in 1..n
        PROVE  h[i] = IF i = 1 THEN seqs[i] ELSE g[i-1] \o seqs[i]
    <3>1. CASE i = 1
      <4>1. h[1] = h[1-1] \o seqs[1] /\ 1 - 1 = 0 /\ seqs[1] \in V
        BY <1>1, <1>8, <3>1
      <4>2. h[1] = <<>> \o seqs[1] /\ <<>> \o seqs[1] = seqs[1]
        BY <1>3, <1>8, <4>1
      <4> QED
        BY <3>1, <4>2
    <3>2. CASE i # 1
      <4>1. i - 1 \in 1..n
        BY <1>1, <3>2
      <4> QED
        BY <1>8, <3>2, <4>1
    <3> QED
      BY <3>1, <3>2
  <2>2. Iter(g)
    BY <2>1
  <2> QED
    BY <2>2
<1>10. Iter(c)
  BY <1>9
<1> HIDE DEF c
<1>11. \A i \in 1..n : f[i] = f[i-1] \o seqs[i]
  <2> SUFFICES ASSUME NEW i \in 1..n
               PROVE  f[i] = f[i-1] \o seqs[i]
    OBVIOUS
  <2>1. f[i] = IF i = 1 THEN seqs[i] ELSE c[i-1] \o seqs[i]
    <3>1. i \in 0..n /\ i # 0
      BY <1>1
    <3> QED
      BY <1>10, <3>1
  <2>2. CASE i = 1
    <3>1. f[i-1] = <<>> /\ seqs[i] \in V
      BY <1>1, <2>2
    <3> QED
      BY <1>3, <2>1, <2>2, <3>1
  <2>3. CASE i # 1
    <3>1. i - 1 \in 0..n /\ i - 1 # 0
      BY <1>1, <2>3
    <3> QED
      BY <2>1, <2>3, <3>1
  <2> QED
    BY <2>2, <2>3
<1>12. \A i \in 0..n : f[i] \in V
  <2> DEFINE S == {i \in 0..n : f[i] \in V}
  <2>1. 0 \in S
    BY <1>1
  <2>2. ASSUME NEW i \in 0..n-1, i \in S
        PROVE  i + 1 \in S
    <3>1. i + 1 \in 1..n /\ i + 1 \in 0..n /\ (i + 1) - 1 = i
      BY <1>1
    <3> HIDE DEF f
    <3>2. f[i+1] = f[i] \o seqs[i+1] /\ f[i] \in V /\ seqs[i+1] \in V
      BY <1>1, <1>11, <2>2, <3>1
    <3> QED
      BY <1>2, <3>1, <3>2
  <2> HIDE DEF S
  <2>3. \A i \in 0..n : i \in S
    BY <1>1, <2>1, <2>2, Counting
  <2> QED
    BY <2>3 DEF S
<1>13. FlattenSeq(seqs) = f[n] /\ f[0] = <<>>
  <2>1. n \in 0..n /\ 0 \in 0..n
    BY <1>1
  <2> QED
    BY <1>4, <1>5, <2>1
<1>14. f \in [0..n -> V]
  BY <1>12
<1> HIDE DEF f
<1> QED
  BY <1>11, <1>13, <1>14 DEF n, V

LEMMA FlatType ==
  ASSUME NEW seqs \in Seq(Seq(TextLines))
  PROVE  FlattenSeq(seqs) \in Seq(TextLines)
<1>1. PICK f \in [0..Len(seqs) -> Seq(TextLines)] : FlattenSeq(seqs) = f[Len(seqs)]
  BY FlatRun
<1>2. Len(seqs) \in 0..Len(seqs)
  OBVIOUS
<1> QED
  BY <1>1, <1>2

\* The same for a text in parts.
LEMMA ReadFlat ==
  ASSUME NEW seqs \in Seq(Seq(TextLines)), NEW I, NEW s \in ParserStates, s \in I[0],
         \A i \in 1..Len(seqs) : \A z \in ParserStates : z \in I[i-1] => Read(z, seqs[i]) \in I[i]
  PROVE  Read(s, FlattenSeq(seqs)) \in I[Len(seqs)]
<1> DEFINE n == Len(seqs)
<1>1. PICK f \in [0..n -> Seq(TextLines)] :
            /\ f[0] = <<>> /\ \A i \in 1..n : f[i] = f[i-1] \o seqs[i]
            /\ FlattenSeq(seqs) = f[n]
  BY FlatRun
<1>2. n \in Nat /\ \A i \in 1..n : seqs[i] \in Seq(TextLines)
  OBVIOUS
<1> DEFINE S == {i \in 0..n : Read(s, f[i]) \in I[i] /\ Read(s, f[i]) \in ParserStates}
<1>3. 0 \in S
  BY <1>1, <1>2, ReadNothing
<1>4. ASSUME NEW i \in 0..n-1, i \in S
      PROVE  i + 1 \in S
  <2>1. i + 1 \in 1..n /\ i + 1 \in 0..n /\ (i + 1) - 1 = i /\ i \in 0..n
    BY <1>2
  <2>2. f[i] \in Seq(TextLines) /\ seqs[i+1] \in Seq(TextLines) /\ f[i+1] = f[i] \o seqs[i+1]
    BY <1>1, <1>2, <2>1
  <2>3. Read(s, f[i]) \in ParserStates /\ Read(s, f[i]) \in I[i]
    BY <1>4
  <2>4. Read(s, f[i+1]) = Read(Read(s, f[i]), seqs[i+1])
    BY <2>2, ReadParts
  <2>5. Read(Read(s, f[i]), seqs[i+1]) \in I[i+1]
    BY <2>1, <2>3
  <2>6. Read(s, f[i+1]) \in ParserStates
    <3>1. f[i+1] \in Seq(TextLines)
      BY <1>1, <2>1
    <3> QED
      BY <3>1, ReadType
  <2> QED
    BY <2>1, <2>4, <2>5, <2>6
<1>5. \A i \in 0..n : i \in S
  <2> HIDE DEF n, S
  <2> QED
    BY <1>2, <1>3, <1>4, Counting
<1>6. n \in 0..n
  BY <1>2
<1> QED
  BY <1>1, <1>5, <1>6

-----------------------------------------------------------------------------
(* A section whose lines are not taken for headers is read as it was meant. *)

RemovedHeader == [mark |-> "-", text |-> MinusMinus]
AddedHeader == [mark |-> "+", text |-> PlusPlus]
OldGhost == [kind |-> "old", path |-> Ghost]
NewGhost == [kind |-> "new", path |-> Ghost]
AsBody(l) == [kind |-> "body", line |-> l]
RangeLine(h) == [kind |-> "range", start |-> h.start]
OldLine(p) == [kind |-> "old", path |-> p]
NewLine(p) == [kind |-> "new", path |-> p]

LEMMA LineTypes ==
  /\ \A p \in DiffPaths : OldLine(p) \in TextLines /\ NewLine(p) \in TextLines
  /\ NoiseLine \in TextLines /\ OldGhost \in TextLines /\ NewGhost \in TextLines
  /\ \A l \in DiffLines : AsBody(l) \in TextLines
  /\ \A h \in DiffHunks : RangeLine(h) \in TextLines
<1>1. Ghost \in DiffPaths
  BY PathAssumption DEF DiffPaths
<1>2. \A h \in DiffHunks : h.start \in Nat
  BY DEF DiffHunks
<1> QED
  BY <1>1, <1>2 DEF TextLines, OldLine, NewLine, OldGhost, NewGhost, AsBody, RangeLine

\* What the lines of a hunk look like to the parser.
LEMMA BodyLines ==
  ASSUME NEW l \in DiffLines
  PROVE  /\ BodyLine(l) \in TextLines
         /\ l = RemovedHeader => BodyLine(l) = OldGhost
         /\ l = AddedHeader => BodyLine(l) = NewGhost
         /\ l # RemovedHeader /\ l # AddedHeader => BodyLine(l) = AsBody(l)
<1>1. \E S : l \in [mark : S, text : Texts]
  BY DEF DiffLines
<1>2. l.mark = "-" /\ l.text = MinusMinus => l = RemovedHeader
  BY <1>1 DEF RemovedHeader
<1>3. l.mark = "+" /\ l.text = PlusPlus => l = AddedHeader
  BY <1>1 DEF AddedHeader
<1>4. /\ l = RemovedHeader => BodyLine(l) = OldGhost
      /\ l = AddedHeader => BodyLine(l) = NewGhost
  BY DEF BodyLine, RemovedHeader, AddedHeader, OldGhost, NewGhost
<1>5. l # RemovedHeader /\ l # AddedHeader => BodyLine(l) = AsBody(l)
  BY <1>2, <1>3 DEF BodyLine, AsBody
<1> QED
  BY <1>4, <1>5, LineTypes

Bodies(h) == [i \in DOMAIN h.body |-> BodyLine(h.body[i])]

\* The text of a hunk: its range and its lines.
LEMMA HunkLines ==
  ASSUME NEW h \in DiffHunks
  PROVE  /\ h.body \in Seq(DiffLines) /\ h.start \in Nat
         /\ Bodies(h) \in Seq(TextLines) /\ Len(Bodies(h)) = Len(h.body)
         /\ \A i \in 1..Len(h.body) : Bodies(h)[i] = BodyLine(h.body[i]) /\ h.body[i] \in DiffLines
         /\ HunkText(h) = <<RangeLine(h)>> \o Bodies(h)
         /\ HunkText(h) \in Seq(TextLines)
<1>1. h.body \in Seq(DiffLines) /\ h.start \in Nat
  BY DEF DiffHunks
<1>2. \A i \in 1..Len(h.body) : h.body[i] \in DiffLines /\ BodyLine(h.body[i]) \in TextLines
  BY <1>1, BodyLines
<1>3. Bodies(h) \in Seq(TextLines) /\ Len(Bodies(h)) = Len(h.body)
  <2>1. DOMAIN h.body = 1..Len(h.body) /\ Len(h.body) \in Nat
    BY <1>1
  <2> QED
    BY <1>2, <2>1 DEF Bodies
<1>4. HunkText(h) = <<RangeLine(h)>> \o Bodies(h)
  BY DEF HunkText, RangeLine, Bodies
<1>5. <<RangeLine(h)>> \in Seq(TextLines)
  BY LineTypes
<1>6. HunkText(h) \in Seq(TextLines)
  BY <1>3, <1>4, <1>5, ConcatText
<1>7. \A i \in 1..Len(h.body) : Bodies(h)[i] = BodyLine(h.body[i])
  BY <1>1 DEF Bodies
<1> QED
  BY <1>1, <1>2, <1>3, <1>4, <1>6, <1>7

LEMMA ReadHunk ==
  ASSUME NEW z \in ParserStates, NEW h \in DiffHunks
  PROVE  /\ Read(z, HunkText(h)) = Read(ParseLine(z, RangeLine(h)), Bodies(h))
         /\ ParseLine(z, RangeLine(h)) \in ParserStates
<1>1. RangeLine(h) \in TextLines
  BY LineTypes
<1>2. <<RangeLine(h)>> \in Seq(TextLines)
  BY <1>1
<1>3. Read(z, <<RangeLine(h)>>) = ParseLine(z, RangeLine(h))
  BY <1>1, ReadLine
<1>4. Read(z, <<RangeLine(h)>> \o Bodies(h)) = Read(Read(z, <<RangeLine(h)>>), Bodies(h))
  BY <1>2, HunkLines, ReadParts
<1> QED
  BY <1>1, <1>3, <1>4, HunkLines, ParseLineType

\* A section with one more hunk.
WithHunk(c, h) == [c EXCEPT !.hunks = Append(@, h)]
Hunk(start, body) == [start |-> start, body |-> body]

LEMMA WithHunkType ==
  ASSUME NEW c \in DiffSections, NEW h \in DiffHunks
  PROVE  /\ WithHunk(c, h) \in DiffSections /\ WithHunk(c, h).hunks = Append(c.hunks, h)
         /\ WithHunk(c, h).hunks # <<>> /\ c.hunks \in Seq(DiffHunks)
         /\ WithHunk(c, h).old = c.old /\ WithHunk(c, h).new = c.new
         /\ <<WithHunk(c, h)>> \in Seq(DiffSections)
<1>1. c.hunks \in Seq(DiffHunks)
  BY DEF DiffSections
<1>2. Append(c.hunks, h) \in Seq(DiffHunks) /\ Append(c.hunks, h) # <<>>
  BY <1>1, AppendProperties
<1>3. /\ WithHunk(c, h) \in DiffSections /\ WithHunk(c, h).hunks = Append(c.hunks, h)
      /\ WithHunk(c, h).old = c.old /\ WithHunk(c, h).new = c.new
  BY <1>2 DEF DiffSections, WithHunk
<1>4. <<WithHunk(c, h)>> \in Seq(DiffSections)
  BY <1>3
<1> QED
  BY <1>1, <1>2, <1>3, <1>4

\* A range begins a hunk of the section being read.
LEMMA RangeRead ==
  ASSUME NEW z \in ParserStates, NEW c \in DiffSections, z.current = <<c>>, NEW h \in DiffHunks
  PROVE  ParseLine(z, RangeLine(h)) = Opened(z.files, <<WithHunk(c, Hunk(h.start, <<>>))>>)
<1> DEFINE k == Hunk(h.start, <<>>)
           d == [z.current EXCEPT ![1].hunks = Append(@, k)]
<1>1. z \in Unopened
  BY DEF ParserStates
<1>2. z.current # <<>> /\ z.current[1] = c
  OBVIOUS
<1>3. RangeLine(h).kind = "range" /\ RangeLine(h).start = h.start
  BY DEF RangeLine
<1>4. ParseLine(z, RangeLine(h)) = Opened(z.files, d)
  BY <1>1, <1>2, <1>3 DEF ParseLine, Unopened, Opened, Hunk
<1> HIDE DEF k
<1>5. d = <<WithHunk(c, k)>>
  BY DEF WithHunk
<1> QED
  BY <1>4, <1>5 DEF k

\* A line of a hunk goes to the last hunk of the section being read.
LineAdded(x, l) == [x EXCEPT !.hunks[Len(x.hunks)].body = Append(@, l)]

LEMMA BodyLineRead ==
  ASSUME NEW files \in Seq(DiffSections), NEW x \in DiffSections, NEW l \in DiffLines
  PROVE  ParseLine(Opened(files, <<x>>), AsBody(l)) = Opened(files, <<LineAdded(x, l)>>)
<1> DEFINE s == Opened(files, <<x>>)
           k == Len(x.hunks)
           c == [s.current EXCEPT ![1].hunks[k].body = Append(@, l)]
<1>1. s \in Unopened /\ s.current[1] = x /\ s.current = <<x>> /\ s.open = TRUE /\ s.files = files
  BY DEF Unopened, Opened
<1>2. AsBody(l).kind = "body" /\ AsBody(l).line = l
  BY DEF AsBody
<1>3. ParseLine(s, AsBody(l)) = Opened(s.files, c)
  <2> HIDE DEF s
  <2> QED
    BY <1>1, <1>2 DEF ParseLine, Unopened, Opened
<1>4. c = <<LineAdded(x, l)>>
  <2> HIDE DEF s
  <2> QED
    BY <1>1 DEF LineAdded
<1> QED
  BY <1>1, <1>3, <1>4

Replaced(hunks, k, h) == [hunks EXCEPT ![k] = h]

\* A sequence whose last element is replaced.
LEMMA LastReplaced ==
  ASSUME NEW hunks \in Seq(DiffHunks), NEW h \in DiffHunks, NEW g \in DiffHunks
  PROVE  /\ Len(Append(hunks, h)) = Len(hunks) + 1 /\ Append(hunks, h)[Len(hunks) + 1] = h
         /\ Append(hunks, h) \in Seq(DiffHunks) /\ Len(hunks) + 1 \in Nat
         /\ Replaced(Append(hunks, h), Len(hunks) + 1, g) = Append(hunks, g)
<1> DEFINE n == Len(hunks) + 1
           s == Append(hunks, h)
           t == Append(hunks, g)
           r == Replaced(s, n, g)
<1>1. /\ n \in Nat /\ Len(s) = n /\ Len(t) = n /\ s \in Seq(DiffHunks) /\ t \in Seq(DiffHunks)
      /\ \A i \in 1..n - 1 : s[i] = hunks[i] /\ t[i] = hunks[i]
      /\ s[n] = h /\ t[n] = g
  BY AppendProperties
<1> HIDE DEF s, t, n
<1>2. DOMAIN s = 1..n /\ s \in [1..n -> DiffHunks] /\ n \in 1..n
  <2>1. n # 0
    BY DEF n
  <2>2. n \in 1..n
    BY <1>1, <2>1
  <2> QED
    BY <1>1, <2>2
<1>3. r \in [1..n -> DiffHunks] /\ \A i \in 1..n : r[i] = IF i = n THEN g ELSE s[i]
  BY <1>2 DEF Replaced
<1> HIDE DEF r
<1>4. r \in Seq(DiffHunks) /\ Len(r) = n
  BY <1>1, <1>3
<1>5. \A i \in 1..n : r[i] = t[i]
  <2>1. \A i \in 1..n : i = n \/ i \in 1..n-1
    BY <1>1
  <2> QED
    BY <1>1, <1>3, <2>1
<1>6. r = t
  BY <1>1, <1>4, <1>5, SeqEqual
<1> QED
  BY <1>1, <1>6 DEF r, s, t, n

\* The hunk being read grows by the line.
LEMMA BodyRead ==
  ASSUME NEW files \in Seq(DiffSections), NEW c \in DiffSections, NEW start \in Nat,
         NEW body \in Seq(DiffLines), NEW l \in DiffLines
  PROVE  ParseLine(Opened(files, <<WithHunk(c, Hunk(start, body))>>), AsBody(l))
            = Opened(files, <<WithHunk(c, Hunk(start, Append(body, l)))>>)
<1> DEFINE more == Append(body, l)
           h == Hunk(start, body)
           g == Hunk(start, more)
           x == WithHunk(c, h)
<1>1. h \in DiffHunks /\ g \in DiffHunks /\ g = [h EXCEPT !.body = more] /\ h.body = body
  <2>1. more \in Seq(DiffLines)
    OBVIOUS
  <2> HIDE DEF more
  <2> QED
    BY <2>1 DEF DiffHunks, Hunk
<1> HIDE DEF more, h, g
<1> DEFINE k == Len(c.hunks) + 1
           hunks == Append(c.hunks, h)
<1>2. c.hunks \in Seq(DiffHunks) /\ x.hunks = hunks /\ x \in DiffSections
  BY <1>1, WithHunkType
<1>3. Len(hunks) = k /\ hunks[k] = h /\ Replaced(hunks, k, g) = Append(c.hunks, g)
  BY <1>1, <1>2, LastReplaced
<1>4. ParseLine(Opened(files, <<x>>), AsBody(l)) = Opened(files, <<LineAdded(x, l)>>)
  BY <1>2, BodyLineRead
<1> HIDE DEF k, hunks
<1>5. LineAdded(x, l) = [x EXCEPT !.hunks = Replaced(hunks, k, g)]
  <2>1. [h EXCEPT !.body = Append(@, l)] = g
    BY <1>1 DEF more
  <2>2. [hunks EXCEPT ![k].body = Append(@, l)] = [hunks EXCEPT ![k] = g]
    BY <1>3, <2>1
  <2> HIDE DEF x
  <2> QED
    BY <1>2, <1>3, <2>2 DEF LineAdded, Replaced
<1>6. LineAdded(x, l) = WithHunk(c, g)
  BY <1>2, <1>3, <1>5 DEF WithHunk, DiffSections
<1> QED
  BY <1>4, <1>6 DEF h, g, more

Plain(h) == \A i \in 1..Len(h.body) : h.body[i] # RemovedHeader /\ h.body[i] # AddedHeader

\* A hunk none of whose lines looks like a header is read as it was meant.
LEMMA PlainHunkRead ==
  ASSUME NEW z \in ParserStates, NEW c \in DiffSections, z.current = <<c>>,
         NEW h \in DiffHunks, Plain(h)
  PROVE  Read(z, HunkText(h)) = Opened(z.files, <<WithHunk(c, h)>>)
<1> DEFINE n == Len(h.body)
           So(i) == Opened(z.files, <<WithHunk(c, Hunk(h.start, SubSeq(h.body, 1, i)))>>)
           I == [i \in 0..n |-> {So(i)}]
           s == ParseLine(z, RangeLine(h))
<1>1. z.files \in Seq(DiffSections)
  BY DEF ParserStates, Unopened
<1>2. h.body \in Seq(DiffLines) /\ n \in Nat /\ h.start \in Nat /\ Len(Bodies(h)) = n
      /\ Bodies(h) \in Seq(TextLines)
  <2>1. h.body \in Seq(DiffLines)
    BY HunkLines
  <2>2. n \in Nat
    BY <2>1
  <2> QED
    BY <2>1, <2>2, HunkLines
<1>3. SubSeq(h.body, 1, 0) = <<>>
  BY <1>2
<1>4. s = So(0) /\ s \in ParserStates
  BY <1>3, RangeRead, ReadHunk
<1>5. ASSUME NEW i \in 1..n
      PROVE  ParseLine(So(i-1), Bodies(h)[i]) = So(i)
  <2>1. h.body[i] \in DiffLines /\ Bodies(h)[i] = AsBody(h.body[i])
    BY HunkLines, BodyLines DEF Plain
  <2> DEFINE b == SubSeq(h.body, 1, i-1)
  <2>2. b \in Seq(DiffLines) /\ Append(b, h.body[i]) = SubSeq(h.body, 1, i)
    BY <1>2
  <2> HIDE DEF b
  <2>3. ParseLine(Opened(z.files, <<WithHunk(c, Hunk(h.start, b))>>), AsBody(h.body[i]))
            = Opened(z.files, <<WithHunk(c, Hunk(h.start, Append(b, h.body[i])))>>)
    BY <1>1, <1>2, <2>1, <2>2, BodyRead
  <2> QED
    BY <2>1, <2>2, <2>3 DEF b
<1>6. Read(s, Bodies(h)) \in I[n]
  <2>1. s \in I[0]
    BY <1>2, <1>4
  <2>2. \A i \in 1..n : \A y \in ParserStates : y \in I[i-1] => ParseLine(y, Bodies(h)[i]) \in I[i]
    <3> SUFFICES ASSUME NEW i \in 1..n, NEW y \in I[i-1]
                 PROVE  ParseLine(y, Bodies(h)[i]) \in I[i]
      OBVIOUS
    <3>1. i - 1 \in 0..n /\ i \in 0..n
      BY <1>2
    <3>2. y = So(i-1)
      BY <3>1
    <3> HIDE DEF So
    <3> QED
      BY <1>5, <3>1, <3>2
  <2> HIDE DEF I, n, s
  <2> QED
    BY <1>2, <1>4, <2>1, <2>2, ReadThrough
<1>7. Read(s, Bodies(h)) = So(n)
  BY <1>2, <1>6
<1>8. SubSeq(h.body, 1, n) = h.body /\ Hunk(h.start, h.body) = h
  BY <1>2 DEF Hunk, DiffHunks
<1> QED
  BY <1>7, <1>8, ReadHunk

HeadText(s) == <<NoiseLine, OldLine(s.old), NewLine(s.new)>>
HunkTexts(s) == [i \in DOMAIN s.hunks |-> HunkText(s.hunks[i])]
HunksText(s) == FlattenSeq(HunkTexts(s))
Headed(s) == [s EXCEPT !.hunks = <<>>]

\* The parts of the text of a section.
LEMMA SectionParts ==
  ASSUME NEW s \in DiffSections
  PROVE  /\ s.hunks \in Seq(DiffHunks) /\ Len(s.hunks) \in Nat
         /\ s.old \in DiffPaths /\ s.new \in DiffPaths
         /\ HunkTexts(s) \in Seq(Seq(TextLines)) /\ Len(HunkTexts(s)) = Len(s.hunks)
         /\ \A i \in 1..Len(s.hunks) : HunkTexts(s)[i] = HunkText(s.hunks[i])
               /\ s.hunks[i] \in DiffHunks
<1>1. s.hunks \in Seq(DiffHunks) /\ s.old \in DiffPaths /\ s.new \in DiffPaths
  BY DEF DiffSections
<1>2. Len(s.hunks) \in Nat /\ DOMAIN s.hunks = 1..Len(s.hunks)
  BY <1>1
<1>3. \A i \in 1..Len(s.hunks) : s.hunks[i] \in DiffHunks
  BY <1>1
<1>4. \A i \in 1..Len(s.hunks) : HunkText(s.hunks[i]) \in Seq(TextLines)
  BY <1>3, HunkLines
<1>5. HunkTexts(s) \in [1..Len(s.hunks) -> Seq(TextLines)]
  BY <1>2, <1>4 DEF HunkTexts
<1>6. HunkTexts(s) \in Seq(Seq(TextLines)) /\ Len(HunkTexts(s)) = Len(s.hunks)
  BY <1>2, <1>5
<1>7. \A i \in 1..Len(s.hunks) : HunkTexts(s)[i] = HunkText(s.hunks[i])
  BY <1>2 DEF HunkTexts
<1> QED
  BY <1>1, <1>2, <1>3, <1>6, <1>7

\* The lines of a header, and a line that says nothing.
LEMMA HeaderRead ==
  ASSUME NEW z \in ParserStates, NEW p \in DiffPaths
  PROVE  /\ ParseLine(z, OldLine(p)) = Closed(z.files \o z.current, <<NewSection(p, NoPath)>>)
         /\ \A c \in DiffSections :
              z.current = <<c>> =>
                  ParseLine(z, NewLine(p)) = Closed(z.files, <<[c EXCEPT !.new = p]>>)
         /\ ParseLine(z, NoiseLine) = z
<1>1. ParseLine(z, OldLine(p)) = Closed(z.files \o z.current, <<NewSection(p, NoPath)>>)
  BY DEF ParseLine, OldLine, Closed
<1>2. ParseLine(z, NoiseLine) = z
  BY DEF ParseLine, NoiseLine
<1>3. ASSUME NEW c \in DiffSections, z.current = <<c>>
      PROVE  ParseLine(z, NewLine(p)) = Closed(z.files, <<[c EXCEPT !.new = p]>>)
  <2>1. z \in Unopened /\ z.current # <<>> /\ z.current[1] = c
    BY <1>3 DEF ParserStates
  <2>2. NewLine(p).kind = "new" /\ NewLine(p).path = p
    BY DEF NewLine
  <2> DEFINE x == [c EXCEPT !.new = p]
  <2>3. ParseLine(z, NewLine(p)) = [z EXCEPT !.current = <<x>>, !.open = FALSE]
    BY <2>1, <2>2 DEF ParseLine
  <2> HIDE DEF x
  <2>4. ParseLine(z, NewLine(p)) = Closed(z.files, <<x>>)
    BY <2>1, <2>3 DEF Unopened, Closed
  <2> QED
    BY <2>4 DEF x
<1> QED
  BY <1>1, <1>2, <1>3

\* The header of a section begins it.
LEMMA HeadRead ==
  ASSUME NEW z \in ParserStates, NEW s \in DiffSections
  PROVE  /\ HeadText(s) \in Seq(TextLines)
         /\ Read(z, HeadText(s)) = Closed(z.files \o z.current, <<Headed(s)>>)
         /\ Read(z, HeadText(s)) \in ParserStates
         /\ z.files \o z.current \in Seq(DiffSections) /\ Headed(s) \in DiffSections
<1> DEFINE text == HeadText(s)
           files == z.files \o z.current
           x == NewSection(s.old, NoPath)
<1>1. s.old \in DiffPaths /\ s.new \in DiffPaths /\ OldLine(s.old) \in TextLines
      /\ NewLine(s.new) \in TextLines /\ NoiseLine \in TextLines
  BY SectionParts, LineTypes
<1>2. text \in Seq(TextLines) /\ Len(text) = 3 /\ text[1] = NoiseLine /\ text[2] = OldLine(s.old)
      /\ text[3] = NewLine(s.new)
  BY <1>1 DEF HeadText
<1> HIDE DEF text
<1>3. PICK h \in [0..Len(text) -> ParserStates] :
            /\ h[0] = z /\ \A i \in 1..Len(text) : h[i] = ParseLine(h[i-1], text[i])
            /\ Read(z, text) = h[Len(text)]
  BY <1>2, ReadRun
<1>4. h[1] = ParseLine(z, NoiseLine) /\ h[2] = ParseLine(h[1], OldLine(s.old))
      /\ h[3] = ParseLine(h[2], NewLine(s.new)) /\ h[3] \in ParserStates /\ Read(z, text) = h[3]
  <2>1. 1 \in 1..3 /\ 2 \in 1..3 /\ 3 \in 1..3 /\ 3 \in 0..3 /\ 1 - 1 = 0 /\ 2 - 1 = 1 /\ 3 - 1 = 2
    OBVIOUS
  <2> QED
    BY <1>2, <1>3, <2>1
<1>5. h[1] = z
  BY <1>1, <1>4, HeaderRead
<1>6. h[2] = Closed(files, <<x>>) /\ h[2] \in ParserStates
  BY <1>1, <1>2, <1>3, <1>4, <1>5, HeaderRead
<1>7. h[3] = Closed(files, <<Headed(s)>>)
  <2>1. [x EXCEPT !.new = s.new] = Headed(s)
    BY DEF NewSection, Headed, DiffSections
  <2>2. x \in DiffSections
    <3>1. <<>> \in Seq(DiffHunks) /\ NoPath \in DiffPaths
      BY DEF DiffPaths
    <3> QED
      BY <1>1, <3>1 DEF NewSection, DiffSections
  <2> HIDE DEF x, files
  <2>3. h[2].files = files /\ h[2].current = <<x>>
    BY <1>6 DEF Closed
  <2>4. ParseLine(h[2], NewLine(s.new)) = Closed(files, <<[x EXCEPT !.new = s.new]>>)
    BY <1>1, <1>6, <2>2, <2>3, HeaderRead
  <2> QED
    BY <1>4, <2>1, <2>4
<1>8. files \in Seq(DiffSections) /\ Headed(s) \in DiffSections
  <2>1. z.files \in Seq(DiffSections) /\ z.current \in Seq(DiffSections)
    BY DEF ParserStates, Unopened
  <2>2. Headed(s) \in DiffSections
    <3>1. <<>> \in Seq(DiffHunks)
      OBVIOUS
    <3> QED
      BY <3>1 DEF Headed, DiffSections
  <2> QED
    BY <2>1, <2>2
<1> QED
  BY <1>2, <1>4, <1>7, <1>8 DEF text

LEMMA HunksTextType ==
  ASSUME NEW s \in DiffSections
  PROVE  HunksText(s) \in Seq(TextLines)
<1>1. HunkTexts(s) \in Seq(Seq(TextLines))
  BY SectionParts
<1> QED
  BY <1>1, FlatType DEF HunksText

\* The text of a section without hunks says nothing.
LEMMA QuietSectionRead ==
  ASSUME NEW z \in ParserStates, NEW s \in DiffSections, s.hunks = <<>>
  PROVE  SectionText(s) \in Seq(TextLines) /\ Read(z, SectionText(s)) = z
<1>1. NoiseLine \in TextLines /\ <<NoiseLine>> \in Seq(TextLines)
  BY LineTypes
<1>2. Read(z, <<NoiseLine>>) = ParseLine(z, NoiseLine)
  BY <1>1, ReadLine
<1>3. ParseLine(z, NoiseLine) = z
  BY DEF ParseLine, NoiseLine
<1> QED
  BY <1>1, <1>2, <1>3 DEF SectionText

\* The parts of a section with hunks, the last line of which says nothing.
LEMMA SectionRead ==
  ASSUME NEW z \in ParserStates, NEW s \in DiffSections, s.hunks # <<>>
  PROVE  /\ SectionText(s) \in Seq(TextLines)
         /\ Read(z, SectionText(s)) = Read(Read(z, HeadText(s)), HunksText(s))
<1>1. HeadText(s) \in Seq(TextLines) /\ Read(z, HeadText(s)) \in ParserStates
  BY HeadRead
<1>2. HunksText(s) \in Seq(TextLines)
  BY HunksTextType
<1>3. SectionText(s) = (HeadText(s) \o HunksText(s)) \o <<NoiseLine>>
  BY DEF SectionText, HeadText, HunksText, HunkTexts, OldLine, NewLine
<1> DEFINE t == HeadText(s) \o HunksText(s)
<1>4. t \in Seq(TextLines)
  BY <1>1, <1>2, ConcatText
<1>5. Read(z, t) = Read(Read(z, HeadText(s)), HunksText(s)) /\ Read(z, t) \in ParserStates
  <2>1. Read(z, t) = Read(Read(z, HeadText(s)), HunksText(s))
    BY <1>1, <1>2, ReadParts
  <2> HIDE DEF t
  <2>2. Read(z, t) \in ParserStates
    BY <1>4, ReadType
  <2> QED
    BY <2>1, <2>2
<1> HIDE DEF t
<1>6. NoiseLine \in TextLines /\ <<NoiseLine>> \in Seq(TextLines)
  BY LineTypes
<1>7. Read(z, t \o <<NoiseLine>>) = Read(Read(z, t), <<NoiseLine>>)
      /\ t \o <<NoiseLine>> \in Seq(TextLines)
  BY <1>4, <1>6, ReadParts, ConcatText
<1>8. Read(Read(z, t), <<NoiseLine>>) = ParseLine(Read(z, t), NoiseLine)
  BY <1>5, <1>6, ReadLine
<1>9. ParseLine(Read(z, t), NoiseLine) = Read(z, t)
  BY DEF ParseLine, NoiseLine
<1> QED
  BY <1>3, <1>5, <1>7, <1>8, <1>9 DEF t

Clean(s) == ~LooksLikeOld(s) /\ ~LooksLikeNew(s)

\* Where the lines are that look like headers.
LEMMA Lookalikes ==
  ASSUME NEW s \in DiffSections
  PROVE  /\ LooksLikeOld(s) <=> \E i \in 1..Len(s.hunks) :
                \E j \in 1..Len(s.hunks[i].body) : s.hunks[i].body[j] = RemovedHeader
         /\ LooksLikeNew(s) <=> \E i \in 1..Len(s.hunks) :
                \E j \in 1..Len(s.hunks[i].body) : s.hunks[i].body[j] = AddedHeader
<1>1. ToSet(s.hunks) = {s.hunks[i] : i \in 1..Len(s.hunks)}
  <2>1. s.hunks \in Seq(DiffHunks)
    BY SectionParts
  <2> QED
    BY <2>1 DEF ToSet
<1>2. \A i \in 1..Len(s.hunks) :
          ToSet(s.hunks[i].body) = {s.hunks[i].body[j] : j \in 1..Len(s.hunks[i].body)}
  <2> SUFFICES ASSUME NEW i \in 1..Len(s.hunks)
               PROVE  ToSet(s.hunks[i].body) = {s.hunks[i].body[j] : j \in 1..Len(s.hunks[i].body)}
    OBVIOUS
  <2>1. s.hunks[i].body \in Seq(DiffLines)
    BY SectionParts, HunkLines
  <2> QED
    BY <2>1 DEF ToSet
<1>3. /\ LooksLikeOld(s) <=> \E h \in ToSet(s.hunks) : RemovedHeader \in ToSet(h.body)
      /\ LooksLikeNew(s) <=> \E h \in ToSet(s.hunks) : AddedHeader \in ToSet(h.body)
  BY DEF LooksLikeOld, LooksLikeNew, RemovedHeader, AddedHeader
<1>4. ASSUME NEW l
      PROVE  (\E h \in ToSet(s.hunks) : l \in ToSet(h.body)) <=>
                \E i \in 1..Len(s.hunks) : \E j \in 1..Len(s.hunks[i].body) : s.hunks[i].body[j] = l
  <2>1. (\E h \in ToSet(s.hunks) : l \in ToSet(h.body)) <=>
           \E i \in 1..Len(s.hunks) : l \in ToSet(s.hunks[i].body)
    BY <1>1
  <2>2. \A i \in 1..Len(s.hunks) : l \in ToSet(s.hunks[i].body) <=>
           \E j \in 1..Len(s.hunks[i].body) : s.hunks[i].body[j] = l
    BY <1>2
  <2> QED
    BY <2>1, <2>2
<1> QED
  BY <1>3, <1>4

FirstHunks(s, i) == [s EXCEPT !.hunks = SubSeq(s.hunks, 1, i)]

\* A section without such a line is read as it was meant.
LEMMA CleanSectionRead ==
  ASSUME NEW z \in ParserStates, NEW s \in DiffSections, Clean(s), s.hunks # <<>>
  PROVE  /\ Read(z, SectionText(s)).files = z.files \o z.current
         /\ Read(z, SectionText(s)).current = <<s>>
         /\ Read(z, SectionText(s)) \in ParserStates
<1> DEFINE n == Len(s.hunks)
           seqs == HunkTexts(s)
           files == z.files \o z.current
           ReadTo(i) == {y \in ParserStates : y.files = files /\ y.current = <<FirstHunks(s, i)>>}
           I == [i \in 0..n |-> ReadTo(i)]
           start == Read(z, HeadText(s))
<1>1. /\ n \in Nat /\ seqs \in Seq(Seq(TextLines)) /\ Len(seqs) = n /\ s.hunks \in Seq(DiffHunks)
      /\ \A i \in 1..n : seqs[i] = HunkText(s.hunks[i]) /\ s.hunks[i] \in DiffHunks
  BY SectionParts
<1>2. start \in I[0] /\ start \in ParserStates
  <2>1. start = Closed(files, <<Headed(s)>>) /\ start \in ParserStates
    BY HeadRead
  <2>2. SubSeq(s.hunks, 1, 0) = <<>>
    BY <1>1
  <2>3. Headed(s) = FirstHunks(s, 0)
    BY <2>2 DEF Headed, FirstHunks
  <2> QED
    <3> HIDE DEF files, start
    <3>1. start.files = files /\ start.current = <<FirstHunks(s, 0)>>
      BY <2>1, <2>3 DEF Closed
    <3>2. 0 \in 0..n
      BY <1>1
    <3> QED
      BY <2>1, <3>1, <3>2
<1>3. \A i \in 1..n : Plain(s.hunks[i])
  BY Lookalikes DEF Clean, Plain
<1>4. ASSUME NEW i \in 1..n, NEW y \in ParserStates, y \in I[i-1]
      PROVE  Read(y, seqs[i]) \in I[i]
  <2> DEFINE c == FirstHunks(s, i-1)
             h == s.hunks[i]
  <2>1. y.files = files /\ y.current = <<c>>
    <3>1. i - 1 \in 0..n
      BY <1>1
    <3> QED
      BY <1>4, <3>1
  <2>2. c \in DiffSections /\ c.hunks = SubSeq(s.hunks, 1, i-1)
    <3>1. SubSeq(s.hunks, 1, i-1) \in Seq(DiffHunks)
      BY <1>1
    <3> QED
      BY <3>1 DEF FirstHunks, DiffSections
  <2>3. WithHunk(c, h) = FirstHunks(s, i)
    <3>1. Append(SubSeq(s.hunks, 1, i-1), h) = SubSeq(s.hunks, 1, i)
      BY <1>1
    <3> QED
      BY <3>1 DEF WithHunk, FirstHunks, DiffSections
  <2> HIDE DEF c
  <2>4. Read(y, HunkText(h)) = Opened(files, <<WithHunk(c, h)>>)
    BY <1>1, <1>3, <2>1, <2>2, PlainHunkRead
  <2>5. Read(y, HunkText(h)) \in ParserStates
    <3>1. HunkText(h) \in Seq(TextLines)
      BY <1>1, HunkLines
    <3> QED
      BY <3>1, ReadType
  <2>6. i \in 0..n
    BY <1>1
  <2> QED
    <3> HIDE DEF files, h
    <3> DEFINE end == Read(y, HunkText(h))
    <3>1. end.files = files /\ end.current = <<FirstHunks(s, i)>>
      BY <2>3, <2>4 DEF Opened
    <3>2. seqs[i] = HunkText(h)
      BY <1>1 DEF h
    <3> QED
      BY <2>5, <2>6, <3>1, <3>2
<1> DEFINE end == Read(start, FlattenSeq(seqs))
<1>5. end \in I[n]
  <2> HIDE DEF I, n, seqs, start
  <2> QED
    BY <1>1, <1>2, <1>4, ReadFlat
<1>6. FirstHunks(s, n) = s
  <2>1. SubSeq(s.hunks, 1, n) = s.hunks
    BY <1>1
  <2> QED
    BY <2>1 DEF FirstHunks, DiffSections
<1>7. end.files = files /\ end.current = <<s>> /\ end \in ParserStates
  <2>1. n \in 0..n
    BY <1>1
  <2> HIDE DEF end
  <2> QED
    BY <1>5, <1>6, <2>1
<1>8. Read(z, SectionText(s)) = end
  BY SectionRead DEF HunksText
<1> QED
  BY <1>7, <1>8

Keepable(s) == s.hunks # <<>> \/ s.old = NoPath \/ s.new = NoPath

\* Sections that all change something are all kept.
LEMMA KeepAll ==
  ASSUME NEW seq \in Seq(DiffSections), \A i \in 1..Len(seq) : Keepable(seq[i])
  PROVE  FoldLeft(Keep, <<>>, seq) = seq
<1> DEFINE n == Len(seq)
<1>1. PICK h \in [0..n -> Seq(DiffSections)] :
            /\ h[0] = <<>> /\ \A i \in 1..n : h[i] = Keep(h[i-1], seq[i])
            /\ FoldLeft(Keep, <<>>, seq) = h[n]
  BY KeepRun
<1>2. n \in Nat /\ SubSeq(seq, 1, 0) = <<>> /\ SubSeq(seq, 1, n) = seq
  OBVIOUS
<1> DEFINE S == {i \in 0..n : h[i] = SubSeq(seq, 1, i)}
<1>3. 0 \in S
  BY <1>1, <1>2
<1>4. ASSUME NEW i \in 0..n-1, i \in S
      PROVE  i + 1 \in S
  <2>1. i + 1 \in 1..n /\ i + 1 \in 0..n /\ (i + 1) - 1 = i
    BY <1>2
  <2>2. h[i+1] = Append(h[i], seq[i+1])
    BY <1>1, <2>1 DEF Keep, Keepable
  <2>3. Append(SubSeq(seq, 1, i), seq[i+1]) = SubSeq(seq, 1, i+1)
    BY <2>1
  <2> QED
    BY <1>4, <2>1, <2>2, <2>3
<1>5. \A i \in 0..n : i \in S
  <2> HIDE DEF S, n
  <2> QED
    BY <1>2, <1>3, <1>4, Counting
<1> QED
  BY <1>1, <1>2, <1>5

\* And a section that does is kept among others.
LEMMA KeepFinds ==
  ASSUME NEW seq \in Seq(DiffSections)
  PROVE  /\ FoldLeft(Keep, <<>>, seq) \in Seq(DiffSections)
         /\ \A k \in 1..Len(seq) : Keepable(seq[k]) =>
                \E j \in 1..Len(FoldLeft(Keep, <<>>, seq)) : FoldLeft(Keep, <<>>, seq)[j] = seq[k]
<1> DEFINE n == Len(seq)
<1>1. PICK h \in [0..n -> Seq(DiffSections)] :
            /\ h[0] = <<>> /\ \A i \in 1..n : h[i] = Keep(h[i-1], seq[i])
            /\ FoldLeft(Keep, <<>>, seq) = h[n]
  BY KeepRun
<1>2. n \in Nat /\ \A i \in 1..n : seq[i] \in DiffSections
  OBVIOUS
<1>3. ASSUME NEW k \in 1..n, Keepable(seq[k])
      PROVE  \E j \in 1..Len(h[n]) : h[n][j] = seq[k]
  <2> DEFINE Has(i) == \E j \in 1..Len(h[i]) : h[i][j] = seq[k]
             S == {i \in 0..n : i >= k => Has(i)}
  <2>1. 0 \in S
    BY <1>2
  <2>2. ASSUME NEW i \in 0..n-1, i \in S
        PROVE  i + 1 \in S
    <3>1. i + 1 \in 1..n /\ i + 1 \in 0..n /\ (i + 1) - 1 = i /\ i \in 0..n
      BY <1>2
    <3>2. h[i+1] = Keep(h[i], seq[i+1]) /\ h[i] \in Seq(DiffSections) /\ seq[i+1] \in DiffSections
      BY <1>1, <1>2, <3>1
    <3> DEFINE a == Append(h[i], seq[i+1])
    <3>3. Len(a) = Len(h[i]) + 1 /\ a[Len(h[i]) + 1] = seq[i+1] /\ Len(h[i]) \in Nat
          /\ \A j \in 1..Len(h[i]) : a[j] = h[i][j]
      BY <3>2, AppendProperties, LenProperties
    <3>4. CASE i + 1 = k
      <4>1. h[i+1] = a
        BY <1>3, <3>2, <3>4 DEF Keep, Keepable
      <4> HIDE DEF a
      <4>2. Len(h[i]) + 1 \in 1..Len(h[i+1]) /\ h[i+1][Len(h[i]) + 1] = seq[k]
        BY <3>3, <3>4, <4>1
      <4> QED
        BY <3>1, <4>2
    <3>5. CASE i >= k
      <4>1. PICK j \in 1..Len(h[i]) : h[i][j] = seq[k]
        BY <2>2, <3>5
      <4>2. h[i+1] = a \/ h[i+1] = h[i]
        BY <3>2 DEF Keep
      <4> HIDE DEF a
      <4>3. j \in 1..Len(h[i+1]) /\ h[i+1][j] = seq[k]
        BY <3>3, <4>1, <4>2
      <4> QED
        BY <3>1, <4>3
    <3>6. CASE i + 1 < k
      BY <3>1, <3>6
    <3> QED
      BY <1>2, <3>1, <3>4, <3>5, <3>6
  <2>3. \A i \in 0..n : i \in S
    <3> HIDE DEF S, n
    <3> QED
      BY <1>2, <2>1, <2>2, Counting
  <2>4. n \in 0..n /\ n >= k
    BY <1>2
  <2> HIDE DEF n
  <2>5. n \in S
    BY <2>3, <2>4
  <2> QED
    BY <2>4, <2>5
<1>4. h[n] \in Seq(DiffSections)
  BY <1>1, <1>2
<1> QED
  BY <1>1, <1>3, <1>4

Unread == Closed(<<>>, <<>>)
AllRead(diff) == Read(Unread, Rendered(diff))
SectionTexts(diff) == [i \in DOMAIN diff |-> SectionText(diff[i])]

\* The parser reads the sections one after the other.
LEMMA Parsed ==
  ASSUME NEW diff \in Seq(DiffSections)
  PROVE  /\ Unread \in ParserStates
         /\ ParseUnifiedDiff(Rendered(diff)) =
                FoldLeft(Keep, <<>>, AllRead(diff).files \o AllRead(diff).current)
         /\ AllRead(diff) = Read(Unread, FlattenSeq(SectionTexts(diff)))
         /\ Len(diff) \in Nat /\ SectionTexts(diff) \in Seq(Seq(TextLines))
         /\ Len(SectionTexts(diff)) = Len(diff)
         /\ \A i \in 1..Len(diff) : diff[i] \in DiffSections
               /\ SectionTexts(diff)[i] = SectionText(diff[i])
<1>1. Unread \in ParserStates
  <2>1. <<>> \in Seq(DiffSections) /\ Len(<<>>) <= 1
    OBVIOUS
  <2> QED
    BY <2>1, ParserState DEF Unread
<1>2. ParseUnifiedDiff(Rendered(diff)) =
          FoldLeft(Keep, <<>>, AllRead(diff).files \o AllRead(diff).current)
  BY DEF ParseUnifiedDiff, AllRead, Read, Unread, Closed
<1>3. AllRead(diff) = Read(Unread, FlattenSeq(SectionTexts(diff)))
  BY DEF AllRead, Rendered, SectionTexts
<1>4. Len(diff) \in Nat /\ DOMAIN diff = 1..Len(diff)
      /\ \A i \in 1..Len(diff) : diff[i] \in DiffSections
  OBVIOUS
<1>5. \A i \in 1..Len(diff) : SectionText(diff[i]) \in Seq(TextLines)
  BY <1>1, <1>4, SectionRead, QuietSectionRead
<1>6. SectionTexts(diff) \in [1..Len(diff) -> Seq(TextLines)]
  BY <1>4, <1>5 DEF SectionTexts
<1>7. SectionTexts(diff) \in Seq(Seq(TextLines)) /\ Len(SectionTexts(diff)) = Len(diff)
  BY <1>4, <1>6
<1>8. \A i \in 1..Len(diff) : SectionTexts(diff)[i] = SectionText(diff[i])
  BY <1>4 DEF SectionTexts
<1> QED
  BY <1>1, <1>2, <1>3, <1>4, <1>7, <1>8

\* What a state of the parser consists of.
LEMMA StateParts ==
  ASSUME NEW z \in ParserStates
  PROVE  /\ z.files \in Seq(DiffSections) /\ z.current \in Seq(DiffSections) /\ z.open \in BOOLEAN
         /\ z.current # <<>> => z.current[1] \in DiffSections /\ z.current = <<z.current[1]>>
         /\ z.open => /\ z.current # <<>> /\ z.current[1].hunks # <<>>
                      /\ z = Opened(z.files, z.current)
<1>1. z.open => z.current # <<>> /\ z.current[1].hunks # <<>>
  BY DEF ParserStates
<1>2. /\ z \in Unopened /\ Len(z.current) <= 1
      /\ z.files \in Seq(DiffSections) /\ z.current \in Seq(DiffSections) /\ z.open \in BOOLEAN
  BY DEF ParserStates, Unopened
<1>3. z.current # <<>> => z.current[1] \in DiffSections /\ z.current = <<z.current[1]>>
  BY <1>2, OneElement
<1>4. z.open => z = Opened(z.files, z.current)
  BY <1>2 DEF Unopened, Opened
<1> QED
  BY <1>1, <1>2, <1>3, <1>4

\* A list of sections is the sections with hunks among the first i of a diff, in their order:
\* `at` says where each comes from.
Recalls(found, diff, i, at) ==
    /\ at \in [1..Len(found) -> 1..i]
    /\ \A k \in 1..Len(found) : found[k] = diff[at[k]] /\ diff[at[k]].hunks # <<>>
    /\ \A j, k \in 1..Len(found) : j < k => at[j] < at[k]
    /\ \A j \in 1..i : diff[j].hunks # <<>> => \E k \in 1..Len(found) : at[k] = j
ReadsBack(found, diff, i) == \E at : Recalls(found, diff, i, at)

\* A section without hunks adds nothing, one with hunks itself.
LEMMA RecallStep ==
  ASSUME NEW diff \in Seq(DiffSections), NEW i \in 1..Len(diff),
         NEW found \in Seq(DiffSections), ReadsBack(found, diff, i-1)
  PROVE  /\ diff[i].hunks = <<>> => ReadsBack(found, diff, i)
         /\ diff[i].hunks # <<>> => ReadsBack(found \o <<diff[i]>>, diff, i)
<1>1. PICK at : Recalls(found, diff, i-1, at)
  BY DEF ReadsBack
<1>2. /\ at \in [1..Len(found) -> 1..i-1] /\ Len(found) \in Nat /\ i \in Int
      /\ \A k \in 1..Len(found) : at[k] \in 1..i-1 /\ at[k] \in 1..i
  BY <1>1 DEF Recalls
<1>3. CASE diff[i].hunks = <<>>
  <2>1. at \in [1..Len(found) -> 1..i]
    BY <1>2
  <2>2. \A j \in 1..i : diff[j].hunks # <<>> => j \in 1..i-1
    BY <1>3
  <2>3. Recalls(found, diff, i, at)
    BY <1>1, <2>1, <2>2 DEF Recalls
  <2> QED
    BY <1>3, <2>3 DEF ReadsBack
<1>4. CASE diff[i].hunks # <<>>
  <2> DEFINE n == Len(found)
             more == found \o <<diff[i]>>
             to == [k \in 1..n+1 |-> IF k = n+1 THEN i ELSE at[k]]
  <2>1. diff[i] \in DiffSections
    OBVIOUS
  <2>2. Len(more) = n + 1 /\ more[n+1] = diff[i] /\ \A k \in 1..n : more[k] = found[k]
    BY <2>1
  <2> HIDE DEF more
  <2>3. n \in Nat /\ n + 1 \in 1..n+1 /\ \A k \in 1..n+1 : k = n+1 \/ k \in 1..n
    BY <1>2
  <2>4. to[n+1] = i /\ \A k \in 1..n : to[k] = at[k]
    BY <2>3
  <2>5. to \in [1..n+1 -> 1..i]
    BY <1>2, <2>3
  <2> HIDE DEF to
  <2>6. \A k \in 1..n+1 : more[k] = diff[to[k]] /\ diff[to[k]].hunks # <<>>
    BY <1>1, <1>4, <2>2, <2>3, <2>4 DEF Recalls
  <2>7. \A j, k \in 1..n+1 : j < k => to[j] < to[k]
    <3> SUFFICES ASSUME NEW j \in 1..n+1, NEW k \in 1..n+1, j < k PROVE to[j] < to[k]
      OBVIOUS
    <3>1. j \in 1..n
      BY <2>3
    <3>2. CASE k = n+1
      BY <1>2, <2>4, <3>1, <3>2
    <3>3. CASE k \in 1..n
      BY <1>1, <2>4, <3>1, <3>3 DEF Recalls
    <3> QED
      BY <2>3, <3>2, <3>3
  <2>8. ASSUME NEW j \in 1..i, diff[j].hunks # <<>>
        PROVE  \E k \in 1..n+1 : to[k] = j
    <3>1. CASE j = i
      BY <2>3, <2>4, <3>1
    <3>2. CASE j \in 1..i-1
      <4>1. PICK k \in 1..n : at[k] = j
        BY <1>1, <2>8, <3>2 DEF Recalls
      <4> QED
        BY <2>3, <2>4, <4>1
    <3> QED
      BY <3>1, <3>2
  <2>9. Recalls(more, diff, i, to)
    BY <2>2, <2>5, <2>6, <2>7, <2>8 DEF Recalls
  <2>10. ReadsBack(more, diff, i)
    BY <2>9 DEF ReadsBack
  <2> QED
    BY <1>4, <2>10 DEF more
<1> QED
  BY <1>3, <1>4

\* The parser gets back the sections with hunks, in their order and no others, from the text
\* of a diff none of whose lines look like the header of a file (ingest.ts: parseUnifiedDiff).
THEOREM CleanDiffsAreReadBack ==
  ASSUME NEW diff \in Seq(DiffSections), \A i \in 1..Len(diff) : Clean(diff[i])
  PROVE  ReadsBack(ParseUnifiedDiff(Rendered(diff)), diff, Len(diff))
<1> DEFINE n == Len(diff)
           seqs == SectionTexts(diff)
           ReadTo(i) == {z \in ParserStates : ReadsBack(z.files \o z.current, diff, i)}
           I == [i \in 0..n |-> ReadTo(i)]
<1>1. n \in Nat /\ seqs \in Seq(Seq(TextLines)) /\ Len(seqs) = n /\ Unread \in ParserStates
      /\ \A i \in 1..n : diff[i] \in DiffSections /\ seqs[i] = SectionText(diff[i])
  BY Parsed
<1>2. Unread \in I[0]
  <2>1. Unread.files \o Unread.current = <<>>
    BY DEF Unread, Closed
  <2>2. Recalls(<<>>, diff, 0, <<>>)
    BY DEF Recalls
  <2>3. ReadsBack(Unread.files \o Unread.current, diff, 0)
    BY <2>1, <2>2 DEF ReadsBack
  <2> HIDE DEF n
  <2>4. 0 \in 0..n
    BY <1>1
  <2> QED
    BY <1>1, <2>3, <2>4
<1>3. ASSUME NEW i \in 1..n, NEW z \in ParserStates, z \in I[i-1]
      PROVE  Read(z, seqs[i]) \in I[i]
  <2>1. i \in 0..n /\ i - 1 \in 0..n
    BY <1>1
  <2> DEFINE s == diff[i]
             end == Read(z, SectionText(s))
             found == z.files \o z.current
  <2>2. ReadsBack(found, diff, i-1)
    BY <1>3, <2>1
  <2>3. found \in Seq(DiffSections) /\ s \in DiffSections
    BY <1>1, StateParts
  <2>4. seqs[i] = SectionText(s)
    BY <1>1
  <2>5. CASE s.hunks = <<>>
    <3>1. end = z
      BY <2>3, <2>5, QuietSectionRead
    <3> HIDE DEF found
    <3>2. ReadsBack(found, diff, i)
      BY <2>2, <2>3, <2>5, RecallStep
    <3> HIDE DEF end, s
    <3> QED
      BY <2>1, <2>4, <3>1, <3>2 DEF end, found
  <2>6. CASE s.hunks # <<>>
    <3>1. end.files = z.files \o z.current /\ end.current = <<s>> /\ end \in ParserStates
      BY <1>1, <2>6, CleanSectionRead
    <3> HIDE DEF end
    <3>2. end.files \o end.current = found \o <<s>>
      BY <3>1
    <3> HIDE DEF found
    <3>3. ReadsBack(found \o <<s>>, diff, i)
      BY <2>2, <2>3, <2>6, RecallStep
    <3> HIDE DEF s
    <3> QED
      BY <2>1, <2>4, <3>1, <3>2, <3>3 DEF end
  <2> QED
    BY <2>5, <2>6
<1> DEFINE end == Read(Unread, FlattenSeq(seqs))
           all == end.files \o end.current
<1>4. end \in I[n]
  <2> HIDE DEF I, n, seqs
  <2> QED
    BY <1>1, <1>2, <1>3, ReadFlat
<1>5. ReadsBack(all, diff, n) /\ all \in Seq(DiffSections)
  <2>1. n \in 0..n
    BY <1>1
  <2> HIDE DEF end, n
  <2>2. end \in ParserStates /\ ReadsBack(all, diff, n)
    BY <1>4, <2>1
  <2> QED
    BY <2>2, StateParts
<1>6. ParseUnifiedDiff(Rendered(diff)) = FoldLeft(Keep, <<>>, all)
  BY Parsed
<1> HIDE DEF all
<1>7. \A k \in 1..Len(all) : Keepable(all[k])
  BY <1>5 DEF ReadsBack, Recalls, Keepable
<1>8. FoldLeft(Keep, <<>>, all) = all
  BY <1>5, <1>7, KeepAll
<1> QED
  BY <1>5, <1>6, <1>8

-----------------------------------------------------------------------------
(* A section with a line that looks like a header leaves behind a deleted  *)
(* file, or a change of a file outside the component.                      *)

\* The lines of a hunk do not change whose file they are.
Follows(z, y) ==
    /\ y \in ParserStates /\ y.current # <<>>
    /\ y.current[1].old = z.current[1].old /\ y.current[1].new = z.current[1].new
    /\ z.current[1].hunks # <<>> => y.current[1].hunks # <<>>

LEMMA RangeFollows ==
  ASSUME NEW z \in ParserStates, z.current # <<>>, NEW h \in DiffHunks
  PROVE  Follows(z, ParseLine(z, RangeLine(h)))
         /\ ParseLine(z, RangeLine(h)).current[1].hunks # <<>>
<1> DEFINE c == z.current[1]
           k == Hunk(h.start, <<>>)
           x == WithHunk(c, k)
           y == ParseLine(z, RangeLine(h))
<1>1. c \in DiffSections /\ z.current = <<c>>
  BY StateParts
<1>2. y = Opened(z.files, <<x>>) /\ y \in ParserStates
  BY <1>1, RangeRead, ReadHunk
<1>3. k \in DiffHunks
  <2>1. h.start \in Nat
    BY HunkLines
  <2>2. <<>> \in Seq(DiffLines)
    OBVIOUS
  <2> QED
    BY <2>1, <2>2 DEF Hunk, DiffHunks
<1> HIDE DEF c, k, y
<1>4. x.old = c.old /\ x.new = c.new /\ x.hunks # <<>>
  BY <1>1, <1>3, WithHunkType
<1> HIDE DEF x
<1>5. y.current = <<x>> /\ <<x>> # <<>> /\ <<x>>[1] = x
  BY <1>2 DEF Opened
<1> QED
  BY <1>2, <1>4, <1>5 DEF Follows, c, y

LEMMA BodyFollows ==
  ASSUME NEW z \in ParserStates, z.current # <<>>, NEW l \in DiffLines
  PROVE  Follows(z, ParseLine(z, AsBody(l)))
<1> DEFINE c == z.current[1]
           x == LineAdded(c, l)
           y == ParseLine(z, AsBody(l))
<1>1. y \in ParserStates
  BY LineTypes, ParseLineType
<1>2. CASE z.open
  <2>1. c \in DiffSections /\ z = Opened(z.files, <<c>>) /\ z.files \in Seq(DiffSections)
    BY <1>2, StateParts
  <2> HIDE DEF c
  <2>2. y = Opened(z.files, <<x>>)
    BY <2>1, BodyLineRead
  <2>3. x.old = c.old /\ x.new = c.new
    BY <2>1 DEF LineAdded, DiffSections
  <2> HIDE DEF x, y
  <2>4. y.current = <<x>> /\ <<x>> # <<>> /\ <<x>>[1] = x /\ y.open
    BY <2>2 DEF Opened
  <2>5. y.current[1].hunks # <<>>
    BY <1>1, <2>4, StateParts
  <2> QED
    BY <1>1, <2>3, <2>4, <2>5 DEF Follows, c, y
<1>3. CASE ~z.open
  <2>1. y = z
    BY <1>3 DEF ParseLine, AsBody
  <2> QED
    BY <1>1, <2>1 DEF Follows
<1> QED
  BY <1>2, <1>3

\* Reading the lines of a hunk: what each keeps, and where one of them leads.
LEMMA BodiesKeep ==
  ASSUME NEW h \in DiffHunks, NEW J, J \subseteq ParserStates, NEW z \in J,
         \A i \in 1..Len(h.body) : \A y \in J : ParseLine(y, Bodies(h)[i]) \in J
  PROVE  Read(z, Bodies(h)) \in J
<1> DEFINE n == Len(h.body)
           I == [i \in 0..n |-> J]
<1>1. Bodies(h) \in Seq(TextLines) /\ Len(Bodies(h)) = n /\ h.body \in Seq(DiffLines)
  BY HunkLines
<1>2. n \in Nat /\ z \in ParserStates
  BY <1>1
<1>3. z \in I[0] /\ I[n] = J
  BY <1>2
<1>4. \A i \in 1..n : \A y \in ParserStates : y \in I[i-1] => ParseLine(y, Bodies(h)[i]) \in I[i]
  <2>1. \A i \in 1..n : i \in 0..n /\ i - 1 \in 0..n
    BY <1>2
  <2> QED
    BY <2>1
<1> HIDE DEF I, n
<1>5. Read(z, Bodies(h)) \in I[n]
  BY <1>1, <1>2, <1>3, <1>4, ReadThrough
<1> QED
  BY <1>3, <1>5

LEMMA BodiesReach ==
  ASSUME NEW h \in DiffHunks, NEW J, NEW K,
         J \subseteq ParserStates, K \subseteq ParserStates, NEW z \in J,
         NEW k \in 1..Len(h.body),
         \A i \in 1..Len(h.body) : \A y \in J : ParseLine(y, Bodies(h)[i]) \in J,
         \A y \in J : ParseLine(y, Bodies(h)[k]) \in K,
         \A i \in 1..Len(h.body) : \A y \in K : ParseLine(y, Bodies(h)[i]) \in K
  PROVE  Read(z, Bodies(h)) \in K
<1> DEFINE n == Len(h.body)
           I == [i \in 0..n |-> IF i < k THEN J ELSE K]
<1>1. Bodies(h) \in Seq(TextLines) /\ Len(Bodies(h)) = n /\ h.body \in Seq(DiffLines)
  BY HunkLines
<1>2. n \in Nat /\ z \in ParserStates
  BY <1>1
<1>3. z \in I[0] /\ I[n] = K
  BY <1>2
<1>4. \A i \in 1..n : \A y \in ParserStates : y \in I[i-1] => ParseLine(y, Bodies(h)[i]) \in I[i]
  <2> SUFFICES ASSUME NEW i \in 1..n, NEW y \in I[i-1]
               PROVE  ParseLine(y, Bodies(h)[i]) \in I[i]
    OBVIOUS
  <2>1. i \in 0..n /\ i - 1 \in 0..n /\ i \in Int /\ k \in Int
    BY <1>2
  <2>2. I[i] = (IF i < k THEN J ELSE K) /\ I[i-1] = IF i - 1 < k THEN J ELSE K
    BY <2>1
  <2>3. CASE i < k
    <3>1. y \in J
      BY <2>1, <2>2, <2>3
    <3> QED
      BY <2>2, <2>3, <3>1
  <2>4. CASE i = k
    <3>1. y \in J /\ I[i] = K
      BY <2>1, <2>2, <2>4
    <3> QED
      BY <2>4, <3>1
  <2>5. CASE i > k
    <3>1. y \in K /\ I[i] = K
      BY <2>1, <2>2, <2>5
    <3> QED
      BY <3>1
  <2> QED
    BY <2>1, <2>3, <2>4, <2>5
<1> HIDE DEF I, n
<1>5. Read(z, Bodies(h)) \in I[n]
  BY <1>1, <1>2, <1>3, <1>4, ReadThrough
<1> QED
  BY <1>3, <1>5

\* The same for the hunks of a section.
LEMMA HunksReach ==
  ASSUME NEW s \in DiffSections, NEW J, NEW K,
         J \subseteq ParserStates, K \subseteq ParserStates, NEW z \in J,
         NEW k \in 1..Len(s.hunks),
         \A i \in 1..Len(s.hunks) : \A y \in J : Read(y, HunkText(s.hunks[i])) \in J,
         \A y \in J : Read(y, HunkText(s.hunks[k])) \in K,
         \A i \in 1..Len(s.hunks) : \A y \in K : Read(y, HunkText(s.hunks[i])) \in K
  PROVE  Read(z, HunksText(s)) \in K
<1> DEFINE n == Len(s.hunks)
           seqs == HunkTexts(s)
           I == [i \in 0..n |-> IF i < k THEN J ELSE K]
<1>1. seqs \in Seq(Seq(TextLines)) /\ Len(seqs) = n /\ n \in Nat
      /\ \A i \in 1..n : seqs[i] = HunkText(s.hunks[i])
  BY SectionParts
<1>2. z \in ParserStates
  OBVIOUS
<1>3. z \in I[0] /\ I[n] = K
  BY <1>1
<1>4. \A i \in 1..n : \A y \in ParserStates : y \in I[i-1] => Read(y, seqs[i]) \in I[i]
  <2> SUFFICES ASSUME NEW i \in 1..n, NEW y \in I[i-1]
               PROVE  Read(y, HunkText(s.hunks[i])) \in I[i]
    BY <1>1
  <2>1. i \in 0..n /\ i - 1 \in 0..n /\ i \in Int /\ k \in Int
    BY <1>1
  <2>2. I[i] = (IF i < k THEN J ELSE K) /\ I[i-1] = IF i - 1 < k THEN J ELSE K
    BY <2>1
  <2>3. CASE i < k
    <3>1. y \in J
      BY <2>1, <2>2, <2>3
    <3> QED
      BY <2>2, <2>3, <3>1
  <2>4. CASE i = k
    <3>1. y \in J /\ I[i] = K
      BY <2>1, <2>2, <2>4
    <3> QED
      BY <2>4, <3>1
  <2>5. CASE i > k
    <3>1. y \in K /\ I[i] = K
      BY <2>1, <2>2, <2>5
    <3> QED
      BY <3>1
  <2> QED
    BY <2>1, <2>3, <2>4, <2>5
<1> HIDE DEF I, n, seqs
<1>5. Read(z, FlattenSeq(seqs)) \in I[n]
  BY <1>1, <1>2, <1>3, <1>4, ReadFlat
<1> QED
  BY <1>3, <1>5 DEF seqs, HunksText

\* Sections the commands refuse: a deleted file, or a change of a file outside the component
\* that was read out of a line.
Condemned ==
    {x \in DiffSections :
        \/ x.new = NoPath
        \/ x.old # NoPath /\ x.new = Ghost /\ Ghost \notin Tracked /\ x.hunks # <<>>}

Held == {z \in ParserStates : z.current # <<>> /\ z.current[1] \in Condemned}
Doomed == {z \in ParserStates : \E i \in 1..Len(z.files) : z.files[i] \in Condemned}

Deleting == {z \in ParserStates : z.current # <<>> /\ z.current[1].new = NoPath}
Changing == {z \in ParserStates : z.current # <<>> /\ z.current[1].old # NoPath}
Filling == {z \in Changing : z.current[1].hunks # <<>>}
Misnamed == {z \in Filling : z.current[1].new = Ghost}

\* A line that follows does not leave these sets of states.
LEMMA FollowsKeep ==
  ASSUME NEW z, NEW y, Follows(z, y)
  PROVE  /\ z \in Deleting => y \in Deleting
         /\ z \in Changing => y \in Changing
         /\ z \in Filling => y \in Filling
         /\ z \in Misnamed => y \in Misnamed
BY DEF Follows, Deleting, Changing, Filling, Misnamed

\* A line that looks like a header, in each of them.
LEMMA GhostRead ==
  ASSUME NEW z \in ParserStates
  PROVE  /\ ParseLine(z, OldGhost) \in Deleting
         /\ z \in Changing => ParseLine(z, NewGhost) \in Changing
         /\ z \in Filling => ParseLine(z, NewGhost) \in Misnamed
<1>1. Ghost \in DiffPaths /\ OldGhost = OldLine(Ghost) /\ NewGhost = NewLine(Ghost)
      /\ OldGhost \in TextLines /\ NewGhost \in TextLines
  BY PathAssumption, LineTypes DEF DiffPaths, OldGhost, NewGhost, OldLine, NewLine
<1>2. ParseLine(z, OldGhost) \in ParserStates /\ ParseLine(z, NewGhost) \in ParserStates
  BY <1>1, ParseLineType
<1>3. ParseLine(z, OldGhost) \in Deleting
  <2> DEFINE x == NewSection(Ghost, NoPath)
             y == ParseLine(z, OldGhost)
  <2>1. y = Closed(z.files \o z.current, <<x>>)
    BY <1>1, HeaderRead
  <2>2. x.new = NoPath
    BY DEF NewSection
  <2> HIDE DEF x, y
  <2>3. y.current = <<x>> /\ <<x>> # <<>> /\ <<x>>[1] = x
    BY <2>1 DEF Closed
  <2>4. y \in ParserStates
    BY <1>2 DEF y
  <2> QED
    BY <2>2, <2>3, <2>4 DEF Deleting, y
<1>4. ASSUME z.current # <<>>
      PROVE  LET y == ParseLine(z, NewGhost) IN
             /\ y.current # <<>> /\ y.current[1].old = z.current[1].old
             /\ y.current[1].new = Ghost /\ y.current[1].hunks = z.current[1].hunks
  <2> DEFINE c == z.current[1]
             x == [c EXCEPT !.new = Ghost]
             y == ParseLine(z, NewGhost)
  <2>1. c \in DiffSections /\ z.current = <<c>>
    BY <1>4, StateParts
  <2> HIDE DEF c
  <2>2. y = Closed(z.files, <<x>>)
    BY <1>1, <2>1, HeaderRead
  <2>3. x.old = c.old /\ x.new = Ghost /\ x.hunks = c.hunks
    BY <2>1 DEF DiffSections
  <2> HIDE DEF x, y
  <2>4. y.current = <<x>> /\ <<x>> # <<>> /\ <<x>>[1] = x
    BY <2>2 DEF Closed
  <2> QED
    BY <2>3, <2>4 DEF c, y
<1> QED
  BY <1>2, <1>3, <1>4 DEF Changing, Filling, Misnamed

\* A hunk with a removed line that looks like a header leaves a deleted file.
LEMMA HunkRemoves ==
  ASSUME NEW h \in DiffHunks, \A i \in 1..Len(h.body) : h.body[i] # AddedHeader
  PROVE  /\ \A z \in Deleting : Read(z, HunkText(h)) \in Deleting
         /\ (\E i \in 1..Len(h.body) : h.body[i] = RemovedHeader) =>
                \A z \in ParserStates : Read(z, HunkText(h)) \in Deleting
<1>1. Deleting \subseteq ParserStates
  BY DEF Deleting
<1>2. \A i \in 1..Len(h.body) : \A z \in Deleting : ParseLine(z, Bodies(h)[i]) \in Deleting
  <2> SUFFICES ASSUME NEW i \in 1..Len(h.body), NEW z \in Deleting
               PROVE  ParseLine(z, Bodies(h)[i]) \in Deleting
    OBVIOUS
  <2>1. h.body[i] \in DiffLines /\ z \in ParserStates /\ z.current # <<>>
    BY HunkLines DEF Deleting
  <2>2. Bodies(h)[i] = OldGhost \/ Bodies(h)[i] = AsBody(h.body[i])
    BY <2>1, HunkLines, BodyLines
  <2>3. ParseLine(z, OldGhost) \in Deleting
    BY <2>1, GhostRead
  <2>4. ParseLine(z, AsBody(h.body[i])) \in Deleting
    BY <2>1, BodyFollows, FollowsKeep
  <2> QED
    BY <2>2, <2>3, <2>4
<1>3. ASSUME NEW z \in Deleting
      PROVE  Read(z, HunkText(h)) \in Deleting
  <2>1. z \in ParserStates /\ z.current # <<>>
    BY DEF Deleting
  <2>2. ParseLine(z, RangeLine(h)) \in Deleting
    BY <2>1, RangeFollows, FollowsKeep
  <2> DEFINE y == ParseLine(z, RangeLine(h))
  <2>3. Read(z, HunkText(h)) = Read(y, Bodies(h))
    BY <2>1, ReadHunk
  <2> HIDE DEF y
  <2>4. y \in Deleting
    BY <2>2 DEF y
  <2>5. Read(y, Bodies(h)) \in Deleting
    BY <1>1, <1>2, <2>4, BodiesKeep
  <2> QED
    BY <2>3, <2>5
<1>4. ASSUME NEW k \in 1..Len(h.body), h.body[k] = RemovedHeader, NEW z \in ParserStates
      PROVE  Read(z, HunkText(h)) \in Deleting
  <2> DEFINE y == ParseLine(z, RangeLine(h))
  <2>1. Read(z, HunkText(h)) = Read(y, Bodies(h)) /\ y \in ParserStates
    BY ReadHunk
  <2> HIDE DEF y
  <2>2. \A i \in 1..Len(h.body) :
            \A x \in ParserStates : ParseLine(x, Bodies(h)[i]) \in ParserStates
    <3> SUFFICES ASSUME NEW i \in 1..Len(h.body), NEW x \in ParserStates
                 PROVE  ParseLine(x, Bodies(h)[i]) \in ParserStates
      OBVIOUS
    <3>1. Bodies(h)[i] \in TextLines
      BY HunkLines, BodyLines
    <3> QED
      BY <3>1, ParseLineType
  <2>3. Bodies(h)[k] = OldGhost
    BY <1>4, HunkLines, BodyLines
  <2>4. \A x \in ParserStates : ParseLine(x, Bodies(h)[k]) \in Deleting
    BY <2>3, GhostRead
  <2>5. Read(y, Bodies(h)) \in Deleting
    BY <1>1, <1>2, <2>1, <2>2, <2>4, BodiesReach
  <2> QED
    BY <2>1, <2>5
<1> QED
  BY <1>3, <1>4

\* A hunk with an added one leaves a change of the file it seems to name.
LEMMA HunkMisnames ==
  ASSUME NEW h \in DiffHunks, \A i \in 1..Len(h.body) : h.body[i] # RemovedHeader
  PROVE  /\ \A z \in Changing : Read(z, HunkText(h)) \in Changing
         /\ \A z \in Misnamed : Read(z, HunkText(h)) \in Misnamed
         /\ (\E i \in 1..Len(h.body) : h.body[i] = AddedHeader) =>
                \A z \in Changing : Read(z, HunkText(h)) \in Misnamed
<1>1. Changing \subseteq ParserStates /\ Filling \subseteq Changing /\ Misnamed \subseteq Filling
  BY DEF Changing, Filling, Misnamed
<1>2. ASSUME NEW i \in 1..Len(h.body), NEW z \in Changing
      PROVE  /\ ParseLine(z, Bodies(h)[i]) \in Changing
             /\ z \in Filling => ParseLine(z, Bodies(h)[i]) \in Filling
             /\ z \in Misnamed => ParseLine(z, Bodies(h)[i]) \in Misnamed
             /\ z \in Filling /\ h.body[i] = AddedHeader => ParseLine(z, Bodies(h)[i]) \in Misnamed
  <2>1. h.body[i] \in DiffLines /\ z \in ParserStates /\ z.current # <<>>
    BY HunkLines DEF Changing
  <2>2. /\ Bodies(h)[i] = NewGhost \/ Bodies(h)[i] = AsBody(h.body[i])
        /\ h.body[i] = AddedHeader => Bodies(h)[i] = NewGhost
    BY <2>1, HunkLines, BodyLines
  <2>3. /\ ParseLine(z, NewGhost) \in Changing
        /\ z \in Filling => ParseLine(z, NewGhost) \in Misnamed
    BY <2>1, GhostRead
  <2>4. /\ ParseLine(z, AsBody(h.body[i])) \in Changing
        /\ z \in Filling => ParseLine(z, AsBody(h.body[i])) \in Filling
        /\ z \in Misnamed => ParseLine(z, AsBody(h.body[i])) \in Misnamed
    BY <2>1, BodyFollows, FollowsKeep
  <2> QED
    BY <1>1, <2>2, <2>3, <2>4
<1>3. ASSUME NEW z \in Changing
      PROVE  /\ ParseLine(z, RangeLine(h)) \in Filling
             /\ z \in Misnamed => ParseLine(z, RangeLine(h)) \in Misnamed
             /\ Read(z, HunkText(h)) = Read(ParseLine(z, RangeLine(h)), Bodies(h))
  <2>1. z \in ParserStates /\ z.current # <<>>
    BY DEF Changing
  <2> DEFINE y == ParseLine(z, RangeLine(h))
  <2>2. Follows(z, y) /\ y.current[1].hunks # <<>>
    BY <2>1, RangeFollows
  <2>3. y \in Changing /\ (z \in Misnamed => y \in Misnamed)
    BY <2>2, FollowsKeep
  <2>4. y \in Filling
    BY <2>2, <2>3 DEF Filling
  <2> QED
    BY <2>1, <2>3, <2>4, ReadHunk
<1>4. ASSUME NEW z \in Changing
      PROVE  Read(z, HunkText(h)) \in Changing
  <2> DEFINE y == ParseLine(z, RangeLine(h))
  <2>1. y \in Changing /\ Read(z, HunkText(h)) = Read(y, Bodies(h))
    BY <1>1, <1>3
  <2> HIDE DEF y
  <2>2. Read(y, Bodies(h)) \in Changing
    BY <1>1, <1>2, <2>1, BodiesKeep
  <2> QED
    BY <2>1, <2>2
<1>5. ASSUME NEW z \in Misnamed
      PROVE  Read(z, HunkText(h)) \in Misnamed
  <2> DEFINE y == ParseLine(z, RangeLine(h))
  <2>1. y \in Misnamed /\ Read(z, HunkText(h)) = Read(y, Bodies(h))
    BY <1>1, <1>3
  <2> HIDE DEF y
  <2>2. \A i \in 1..Len(h.body) : \A x \in Misnamed : ParseLine(x, Bodies(h)[i]) \in Misnamed
    BY <1>1, <1>2
  <2>3. Misnamed \subseteq ParserStates
    BY <1>1
  <2>4. Read(y, Bodies(h)) \in Misnamed
    BY <2>1, <2>2, <2>3, BodiesKeep
  <2> QED
    BY <2>1, <2>4
<1>6. ASSUME NEW k \in 1..Len(h.body), h.body[k] = AddedHeader, NEW z \in Changing
      PROVE  Read(z, HunkText(h)) \in Misnamed
  <2> DEFINE y == ParseLine(z, RangeLine(h))
  <2>1. y \in Filling /\ Read(z, HunkText(h)) = Read(y, Bodies(h))
    BY <1>1, <1>3
  <2> HIDE DEF y
  <2>2. /\ \A i \in 1..Len(h.body) : \A x \in Filling : ParseLine(x, Bodies(h)[i]) \in Filling
        /\ \A i \in 1..Len(h.body) : \A x \in Misnamed : ParseLine(x, Bodies(h)[i]) \in Misnamed
        /\ \A x \in Filling : ParseLine(x, Bodies(h)[k]) \in Misnamed
    BY <1>1, <1>2, <1>6
  <2>3. Misnamed \subseteq ParserStates /\ Filling \subseteq ParserStates
    BY <1>1
  <2>4. Read(y, Bodies(h)) \in Misnamed
    BY <2>1, <2>2, <2>3, BodiesReach
  <2> QED
    BY <2>1, <2>4
<1> QED
  BY <1>4, <1>5, <1>6

\* What `Regular` asks of the lines of a section that look like headers.
Tame(s) == LooksLikeNew(s) => ~LooksLikeOld(s) /\ s.old # NoPath /\ Ghost \notin Tracked

\* Either is a section that will be refused.
LEMMA UncleanSectionRead ==
  ASSUME NEW z \in ParserStates, NEW s \in DiffSections, ~Clean(s), Tame(s)
  PROVE  Read(z, SectionText(s)) \in Held
<1> DEFINE y == Read(z, HeadText(s))
           n == Len(s.hunks)
<1>0. s.hunks # <<>>
  BY SectionParts, Lookalikes DEF Clean
<1>1. Read(z, SectionText(s)) = Read(y, HunksText(s))
  BY <1>0, SectionRead
<1>2. y = Closed(z.files \o z.current, <<Headed(s)>>) /\ y \in ParserStates
      /\ Headed(s) \in DiffSections
  BY HeadRead
<1>3. \A i \in 1..n : s.hunks[i] \in DiffHunks
  BY SectionParts
<1> HIDE DEF y
<1>4. CASE LooksLikeOld(s)
  <2>1. \A i \in 1..n : \A j \in 1..Len(s.hunks[i].body) : s.hunks[i].body[j] # AddedHeader
    BY <1>4, Lookalikes DEF Tame
  <2>2. PICK k \in 1..n : \E j \in 1..Len(s.hunks[k].body) : s.hunks[k].body[j] = RemovedHeader
    BY <1>4, Lookalikes
  <2>3. \A i \in 1..n : \A x \in Deleting : Read(x, HunkText(s.hunks[i])) \in Deleting
    BY <1>3, <2>1, HunkRemoves
  <2>4. \A x \in ParserStates : Read(x, HunkText(s.hunks[k])) \in Deleting
    BY <1>3, <2>1, <2>2, HunkRemoves
  <2>5. \A i \in 1..n : \A x \in ParserStates : Read(x, HunkText(s.hunks[i])) \in ParserStates
    <3> SUFFICES ASSUME NEW i \in 1..n, NEW x \in ParserStates
                 PROVE  Read(x, HunkText(s.hunks[i])) \in ParserStates
      OBVIOUS
    <3>1. HunkText(s.hunks[i]) \in Seq(TextLines)
      BY <1>3, HunkLines
    <3> QED
      BY <3>1, ReadType
  <2>6. Deleting \subseteq ParserStates
    BY DEF Deleting
  <2>7. Read(y, HunksText(s)) \in Deleting
    BY <1>2, <2>3, <2>4, <2>5, <2>6, HunksReach
  <2>8. \A x \in Deleting : x \in Held
    BY StateParts DEF Deleting, Held, Condemned
  <2> QED
    BY <1>1, <2>7, <2>8
<1>5. CASE LooksLikeNew(s)
  <2>1. \A i \in 1..n : \A j \in 1..Len(s.hunks[i].body) : s.hunks[i].body[j] # RemovedHeader
    BY <1>5, Lookalikes DEF Tame
  <2>2. PICK k \in 1..n : \E j \in 1..Len(s.hunks[k].body) : s.hunks[k].body[j] = AddedHeader
    BY <1>5, Lookalikes
  <2>3. /\ \A i \in 1..n : \A x \in Changing : Read(x, HunkText(s.hunks[i])) \in Changing
        /\ \A i \in 1..n : \A x \in Misnamed : Read(x, HunkText(s.hunks[i])) \in Misnamed
    BY <1>3, <2>1, HunkMisnames
  <2>4. \A x \in Changing : Read(x, HunkText(s.hunks[k])) \in Misnamed
    BY <1>3, <2>1, <2>2, HunkMisnames
  <2>5. y \in Changing
    <3>1. y.current = <<Headed(s)>>
      BY <1>2 DEF Closed
    <3>2. Headed(s).old = s.old /\ s.old # NoPath
      BY <1>5 DEF Headed, DiffSections, Tame
    <3> DEFINE x == Headed(s)
    <3> HIDE DEF x
    <3>3. y.current # <<>> /\ y.current[1] = x
      BY <3>1 DEF x
    <3>4. y.current[1].old # NoPath
      BY <3>2, <3>3 DEF x
    <3> QED
      BY <1>2, <3>3, <3>4 DEF Changing
  <2>6. Changing \subseteq ParserStates /\ Misnamed \subseteq ParserStates
    BY DEF Changing, Filling, Misnamed
  <2>7. Read(y, HunksText(s)) \in Misnamed
    BY <2>3, <2>4, <2>5, <2>6, HunksReach
  <2>8. Ghost \notin Tracked
    BY <1>5 DEF Tame
  <2>9. \A x \in Misnamed : x \in Held
    BY <2>8, StateParts DEF Changing, Filling, Misnamed, Held, Condemned
  <2> QED
    BY <1>1, <2>7, <2>9
<1> QED
  BY <1>4, <1>5 DEF Clean

\* What was read before is not taken back.
LEMMA FilesGrow ==
  ASSUME NEW z \in ParserStates, NEW l \in TextLines
  PROVE  ParseLine(z, l).files = z.files \/ ParseLine(z, l).files = z.files \o z.current
<1>1. z \in Unopened
  BY DEF ParserStates
<1>2. CASE l.kind = "old"
  BY <1>2 DEF ParseLine
<1>3. CASE l.kind # "old"
  BY <1>1, <1>3 DEF ParseLine, Unopened
<1> QED
  BY <1>2, <1>3

LEMMA ConcatSections ==
  ASSUME NEW s \in Seq(DiffSections), NEW t \in Seq(DiffSections)
  PROVE  /\ s \o t \in Seq(DiffSections) /\ Len(s \o t) = Len(s) + Len(t)
         /\ Len(s) \in Nat /\ Len(t) \in Nat
         /\ \A i \in 1..Len(s) : (s \o t)[i] = s[i]
         /\ \A i \in 1..Len(t) : (s \o t)[Len(s) + i] = t[i]
OBVIOUS

HasCondemned(files) == \E i \in 1..Len(files) : files[i] \in Condemned

LEMMA CondemnedKept ==
  ASSUME NEW files \in Seq(DiffSections), NEW current \in Seq(DiffSections),
         HasCondemned(files) \/ (current # <<>> /\ current[1] \in Condemned)
  PROVE  HasCondemned(files \o current) /\ files \o current \in Seq(DiffSections)
<1>1. CASE HasCondemned(files)
  <2>1. PICK i \in 1..Len(files) : files[i] \in Condemned
    BY <1>1 DEF HasCondemned
  <2>2. i \in 1..Len(files \o current) /\ (files \o current)[i] = files[i]
    BY <2>1, ConcatSections
  <2> QED
    BY <2>1, <2>2, ConcatSections DEF HasCondemned
<1>2. CASE current # <<>> /\ current[1] \in Condemned
  <2> DEFINE k == Len(files) + 1
  <2>1. Len(current) # 0
    BY <1>2
  <2>2. 1 \in 1..Len(current) /\ k \in 1..Len(files \o current)
    BY <2>1, ConcatSections
  <2>3. (files \o current)[k] = current[1]
    BY <2>2, ConcatSections
  <2> QED
    BY <1>2, <2>2, <2>3, ConcatSections DEF HasCondemned
<1> QED
  BY <1>1, <1>2

\* A section that will be refused stays in the list,
LEMMA FiledStays ==
  ASSUME NEW z \in Doomed, NEW text \in Seq(TextLines)
  PROVE  Read(z, text) \in Doomed
<1> DEFINE n == Len(text)
           I == [i \in 0..n |-> Doomed]
<1>1. n \in Nat /\ z \in ParserStates /\ Doomed \subseteq ParserStates
  BY DEF Doomed
<1>2. z \in I[0] /\ I[n] = Doomed
  BY <1>1
<1>3. ASSUME NEW y \in Doomed, NEW l \in TextLines
      PROVE  ParseLine(y, l) \in Doomed
  <2> DEFINE x == ParseLine(y, l)
             more == y.files \o y.current
  <2>1. y \in ParserStates
    BY <1>1
  <2>2. x \in ParserStates /\ (x.files = y.files \/ x.files = more)
    BY <2>1, FilesGrow, ParseLineType
  <2>3. HasCondemned(y.files)
    BY DEF Doomed, HasCondemned
  <2>4. y.files \in Seq(DiffSections) /\ y.current \in Seq(DiffSections)
    BY <2>1, StateParts
  <2>5. HasCondemned(more)
    BY <2>3, <2>4, CondemnedKept
  <2> HIDE DEF x, more
  <2> QED
    BY <2>2, <2>3, <2>5 DEF Doomed, HasCondemned, x
<1>4. \A i \in 1..n : \A y \in ParserStates : y \in I[i-1] => ParseLine(y, text[i]) \in I[i]
  <2>1. \A i \in 1..n : i \in 0..n /\ i - 1 \in 0..n /\ text[i] \in TextLines
    BY <1>1
  <2> QED
    BY <1>3, <2>1
<1> HIDE DEF n, I
<1>5. Read(z, text) \in I[Len(text)]
  BY <1>1, <1>2, <1>4, ReadThrough DEF n
<1> QED
  BY <1>2, <1>5 DEF n

\* and gets there when the next section with hunks begins.
LEMMA NextSectionRead ==
  ASSUME NEW z \in Held \cup Doomed, NEW s \in DiffSections
  PROVE  Read(z, SectionText(s)) \in Held \cup Doomed
<1> DEFINE y == Read(z, HeadText(s))
<1>0. z \in ParserStates
  BY DEF Held, Doomed
<1> SUFFICES ASSUME s.hunks # <<>> PROVE Read(z, SectionText(s)) \in Doomed
  BY <1>0, QuietSectionRead
<1>1. Read(z, SectionText(s)) = Read(y, HunksText(s)) /\ SectionText(s) \in Seq(TextLines)
  BY <1>0, SectionRead
<1>2. CASE z \in Doomed
  BY <1>1, <1>2, FiledStays
<1>3. CASE z \in Held
  <2> DEFINE files == z.files \o z.current
  <2>1. y = Closed(files, <<Headed(s)>>) /\ y \in ParserStates
    BY <1>0, HeadRead
  <2>2. z.files \in Seq(DiffSections) /\ z.current \in Seq(DiffSections) /\ z.current # <<>>
        /\ z.current[1] \in Condemned
    BY <1>0, <1>3, StateParts DEF Held
  <2>3. HasCondemned(files)
    BY <2>2, CondemnedKept
  <2> HIDE DEF files, y
  <2>4. y.files = files
    BY <2>1 DEF Closed
  <2>5. y \in Doomed
    BY <2>1, <2>3, <2>4 DEF Doomed, HasCondemned
  <2>6. HunksText(s) \in Seq(TextLines)
    BY HunksTextType
  <2> QED
    BY <1>1, <2>5, <2>6, FiledStays DEF y
<1> QED
  BY <1>2, <1>3

\* A diff of which a line looks like a header is read with a section that is refused.
THEOREM LookalikesAreNoticed ==
  ASSUME NEW diff \in Seq(DiffSections),
         NEW k \in 1..Len(diff), ~Clean(diff[k]), Tame(diff[k])
  PROVE  \E j \in 1..Len(ParseUnifiedDiff(Rendered(diff))) :
            ParseUnifiedDiff(Rendered(diff))[j] \in Condemned
<1> DEFINE n == Len(diff)
           seqs == SectionTexts(diff)
           I == [i \in 0..n |-> IF i < k THEN ParserStates ELSE Held \cup Doomed]
<1>1. n \in Nat /\ seqs \in Seq(Seq(TextLines)) /\ Len(seqs) = n /\ Unread \in ParserStates
      /\ \A i \in 1..n : diff[i] \in DiffSections /\ seqs[i] = SectionText(diff[i])
  BY Parsed
<1>2. Unread \in I[0] /\ I[n] = Held \cup Doomed
  BY <1>1
<1>3. \A i \in 1..n : \A y \in ParserStates : y \in I[i-1] => Read(y, seqs[i]) \in I[i]
  <2> SUFFICES ASSUME NEW i \in 1..n, NEW y \in ParserStates, y \in I[i-1]
               PROVE  Read(y, SectionText(diff[i])) \in I[i]
    BY <1>1
  <2>1. i \in 0..n /\ i - 1 \in 0..n /\ i \in Int /\ k \in Int /\ diff[i] \in DiffSections
    BY <1>1
  <2>2. /\ I[i] = (IF i < k THEN ParserStates ELSE Held \cup Doomed)
        /\ I[i-1] = IF i - 1 < k THEN ParserStates ELSE Held \cup Doomed
    BY <2>1
  <2>3. CASE i < k
    <3>1. SectionText(diff[i]) \in Seq(TextLines)
      BY <2>1, SectionRead, QuietSectionRead
    <3>2. Read(y, SectionText(diff[i])) \in ParserStates
      BY <3>1, ReadType
    <3> QED
      BY <2>2, <2>3, <3>2
  <2>4. CASE i = k
    <3>1. Read(y, SectionText(diff[i])) \in Held
      BY <2>1, <2>4, UncleanSectionRead
    <3>2. I[i] = Held \cup Doomed
      BY <2>1, <2>2, <2>4
    <3> QED
      BY <3>1, <3>2
  <2>5. CASE i > k
    <3>1. y \in Held \cup Doomed /\ I[i] = Held \cup Doomed
      BY <2>1, <2>2, <2>5
    <3>2. Read(y, SectionText(diff[i])) \in Held \cup Doomed
      BY <2>1, <3>1, NextSectionRead
    <3> QED
      BY <3>1, <3>2
  <2> QED
    BY <2>1, <2>3, <2>4, <2>5
<1> DEFINE end == Read(Unread, FlattenSeq(seqs))
<1>4. end \in Held \cup Doomed
  <2> HIDE DEF I, n, seqs
  <2>1. end \in I[n]
    BY <1>1, <1>2, <1>3, ReadFlat
  <2> QED
    BY <1>2, <2>1
<1>5. AllRead(diff) = end
  BY Parsed
<1> HIDE DEF end
<1> DEFINE all == end.files \o end.current
           parsed == ParseUnifiedDiff(Rendered(diff))
<1>6. end \in ParserStates /\ end.files \in Seq(DiffSections) /\ end.current \in Seq(DiffSections)
  BY <1>4, StateParts DEF Held, Doomed
<1>7. HasCondemned(all)
  BY <1>4, <1>6, CondemnedKept DEF Held, Doomed, HasCondemned
<1>8. PICK i \in 1..Len(all) : all[i] \in Condemned
  BY <1>7 DEF HasCondemned
<1>9. all \in Seq(DiffSections)
  BY <1>6
<1>10. parsed = FoldLeft(Keep, <<>>, all)
  BY <1>5, Parsed
<1> HIDE DEF all, parsed
<1>11. Keepable(all[i])
  BY <1>8 DEF Keepable, Condemned
<1>12. \E j \in 1..Len(parsed) : parsed[j] = all[i]
  BY <1>8, <1>9, <1>10, <1>11, KeepFinds
<1> QED
  BY <1>8, <1>12 DEF parsed

Turned(s) == Unreadable(s) \/ ~ApplyHunks(Base(s), s.hunks).ok
Result(s) ==
    [path |-> RelPath(s), status |-> Status(s), lines |-> ApplyHunks(Base(s), s.hunks).lines]
Foreign(s) == Status(s) = "deleted" \/ (Status(s) = "modified" /\ RelPath(s) \notin Tracked)
Results == {Result(s) : s \in DiffSections}

\* The inductive invariant.
IngestInv ==
    /\ \E r \in Requests : meant = r.diff /\ onDisk = r.disk
    /\ pc \in {"parse", "read", "check", "accepted", "refused"}
    /\ sections \in Seq(DiffSections)
    /\ pc = "parse" => results = <<>>
    /\ pc # "parse" => sections = ParseUnifiedDiff(Rendered(meant))
    /\ results \in Seq(Results) /\ Len(results) <= Len(sections)
    /\ \A i \in 1..Len(results) : results[i] = Result(sections[i]) /\ ~Turned(sections[i])
    /\ pc \in {"check", "accepted"} => Len(results) = Len(sections) /\ sections # <<>>
    /\ pc = "refused" =>
          sections = <<>> \/ \E i \in 1..Len(sections) : Turned(sections[i]) \/ Foreign(sections[i])
    /\ pc = "accepted" => final = Merged /\ \A i \in 1..Len(sections) : ~Foreign(sections[i])

\* The parser finds sections.
LEMMA ParsedType ==
  ASSUME NEW r \in Requests
  PROVE  r.diff \in Seq(DiffSections) /\ ParseUnifiedDiff(Rendered(r.diff)) \in Seq(DiffSections)
<1>1. r.diff \in Seq(DiffSections)
  BY RequestAssumption
<1> DEFINE end == AllRead(r.diff)
<1>2. end \in ParserStates
  <2>1. FlattenSeq(SectionTexts(r.diff)) \in Seq(TextLines)
    <3>1. SectionTexts(r.diff) \in Seq(Seq(TextLines))
      BY <1>1, Parsed
    <3> QED
      BY <3>1, FlatType
  <2>2. end = Read(Unread, FlattenSeq(SectionTexts(r.diff))) /\ Unread \in ParserStates
    BY <1>1, Parsed
  <2> QED
    BY <2>1, <2>2, ReadType
<1> HIDE DEF end
<1>3. end.files \o end.current \in Seq(DiffSections)
  BY <1>2, StateParts, ConcatSections
<1> QED
  BY <1>1, <1>3, Parsed, KeepFinds DEF end

\* What a section comes to depends on the disk alone.
LEMMA SameDisk ==
  ASSUME onDisk' = onDisk
  PROVE  /\ \A s \in DiffSections : Turned(s)' <=> Turned(s)
         /\ \A s \in DiffSections : Result(s)' = Result(s)
         /\ Results' = Results
<1>1. \A s \in DiffSections : Base(s)' = Base(s) /\ (Unreadable(s)' <=> Unreadable(s))
  BY DEF Base, Unreadable
<1>2. \A s \in DiffSections : Result(s)' = Result(s)
  BY <1>1 DEF Result
<1>3. \A s \in DiffSections : Turned(s)' <=> Turned(s)
  BY <1>1 DEF Turned
<1> QED
  BY <1>2, <1>3 DEF Results

\* The invariant holds at first,
LEMMA IngestInvStarts == DiffInit => IngestInv
<1> SUFFICES ASSUME DiffInit PROVE IngestInv
  OBVIOUS
<1>1. <<>> \in Seq(DiffSections) /\ <<>> \in Seq(Results) /\ Len(<<>>) = 0
  OBVIOUS
<1> QED
  BY <1>1 DEF DiffInit, IngestInv

\* and every step keeps it.
LEMMA IngestInvStays == IngestInv /\ [DiffNext]_diffVars => IngestInv'
<1> SUFFICES ASSUME IngestInv, [DiffNext]_diffVars
             PROVE  IngestInv'
  OBVIOUS
<1>0. PICK r \in Requests : meant = r.diff /\ onDisk = r.disk
  BY DEF IngestInv
<1>1. CASE Parse
  <2> DEFINE found == ParseUnifiedDiff(Rendered(meant))
  <2>1. /\ sections' = found /\ found \in Seq(DiffSections) /\ pc = "parse" /\ results = <<>>
        /\ onDisk' = onDisk /\ meant' = meant /\ results' = <<>>
        /\ pc' = IF sections' = <<>> THEN "refused" ELSE "read"
    BY <1>0, <1>1, ParsedType DEF Parse, IngestInv
  <2> HIDE DEF found
  <2>2. ParseUnifiedDiff(Rendered(meant))' = found
    BY <2>1 DEF found
  <2>3. <<>> \in Seq(Results') /\ Len(<<>>) = 0
    OBVIOUS
  <2>4. Len(found) \in Nat
    BY <2>1
  <2> QED
    BY <1>0, <2>1, <2>2, <2>3, <2>4 DEF IngestInv
<1>2. CASE ReadSection
  <2> DEFINE k == Len(results) + 1
             s == sections[k]
  <2>1. /\ pc = "read" /\ Len(results) < Len(sections) /\ sections' = sections
        /\ sections \in Seq(DiffSections)
        /\ onDisk' = onDisk /\ meant' = meant /\ results \in Seq(Results)
        /\ sections = ParseUnifiedDiff(Rendered(meant))
        /\ \A i \in 1..Len(results) : results[i] = Result(sections[i]) /\ ~Turned(sections[i])
    BY <1>2 DEF ReadSection, IngestInv
  <2>2. Len(results) \in Nat /\ k \in 1..Len(sections) /\ Len(sections) \in Nat
    BY <2>1
  <2>3. s \in DiffSections /\ Result(s) \in Results
    BY <2>1, <2>2 DEF Results
  <2>4. ParseUnifiedDiff(Rendered(meant))' = sections'
    BY <2>1
  <2>5. \A i \in 1..Len(sections) :
           /\ sections[i] \in DiffSections
           /\ Turned(sections[i])' <=> Turned(sections[i])
           /\ Result(sections[i])' = Result(sections[i])
    <3>1. \A i \in 1..Len(sections) : sections[i] \in DiffSections
      BY <2>1
    <3>2. \A i \in 1..Len(sections) : Base(sections[i])' = Base(sections[i])
                                      /\ (Unreadable(sections[i])' <=> Unreadable(sections[i]))
      BY <2>1 DEF Base, Unreadable
    <3> QED
      BY <2>1, <3>1, <3>2 DEF Turned, Result
  <2>6. Results' = Results
    BY <2>1, SameDisk
  <2>7. CASE Turned(s)
    <3>1. pc' = "refused" /\ results' = results
      BY <1>2, <2>7 DEF ReadSection, Turned
    <3> HIDE DEF s, k
    <3>2. \A i \in 1..Len(results') : results'[i] = Result(sections[i])' /\ ~Turned(sections[i])'
      BY <2>1, <2>2, <2>5, <3>1
    <3>3. (\E i \in 1..Len(sections) : Turned(sections[i]))'
      BY <2>1, <2>2, <2>5, <2>7 DEF s
    <3> QED
      BY <1>0, <2>1, <2>4, <2>6, <3>1, <3>2, <3>3 DEF IngestInv
  <2>8. CASE ~Turned(s)
    <3>1. /\ results' = Append(results, Result(s))
          /\ pc' = IF Len(results') = Len(sections) THEN "check" ELSE "read"
      BY <1>2, <2>8 DEF ReadSection, Turned, Result
    <3>2. /\ results' \in Seq(Results) /\ Len(results') = k
          /\ \A i \in 1..Len(results) : results'[i] = results[i]
          /\ results'[k] = Result(s)
      BY <2>1, <2>3, <3>1, AppendProperties
    <3>3. \A i \in 1..k : i = k \/ i \in 1..Len(results)
      BY <2>2
    <3> HIDE DEF k
    <3>4. \A i \in 1..k : results'[i] = Result(sections[i]) /\ ~Turned(sections[i])
             /\ i \in 1..Len(sections)
      BY <2>1, <2>2, <2>8, <3>2, <3>3
    <3>5. \A i \in 1..k : results'[i] = Result(sections[i])' /\ ~Turned(sections[i])'
      BY <2>5, <3>4
    <3>6. sections # <<>> /\ k <= Len(sections)
      BY <2>2
    <3>7. pc' # "parse" /\ pc' # "refused" /\ pc' # "accepted" /\ pc' \in {"read", "check"}
          /\ (pc' = "check" => Len(results') = Len(sections))
      BY <3>1
    <3> HIDE DEF s
    <3> QED
      BY <1>0, <2>1, <2>4, <2>6, <3>2, <3>5, <3>6, <3>7 DEF IngestInv
  <2> QED
    BY <2>7, <2>8
<1>3. CASE CheckChanges
  <2>1. /\ pc = "check" /\ sections' = sections /\ results' = results
        /\ sections \in Seq(DiffSections)
        /\ onDisk' = onDisk /\ meant' = meant /\ results \in Seq(Results)
        /\ sections = ParseUnifiedDiff(Rendered(meant))
        /\ Len(results) = Len(sections) /\ sections # <<>>
        /\ \A i \in 1..Len(results) : results[i] = Result(sections[i]) /\ ~Turned(sections[i])
    BY <1>3 DEF CheckChanges, IngestInv
  <2>2. \A i \in 1..Len(sections) :
           (Turned(sections[i])' <=> Turned(sections[i]))
              /\ Result(sections[i])' = Result(sections[i])
    <3>1. \A i \in 1..Len(sections) : Base(sections[i])' = Base(sections[i])
                                      /\ (Unreadable(sections[i])' <=> Unreadable(sections[i]))
      BY <2>1 DEF Base, Unreadable
    <3> QED
      BY <2>1, <3>1 DEF Turned, Result
  <2>3. Results' = Results /\ ParseUnifiedDiff(Rendered(meant))' = sections
    BY <2>1, SameDisk
  <2>4. \A i \in 1..Len(results') : results'[i] = Result(sections[i])' /\ ~Turned(sections[i])'
    BY <2>1, <2>2
  <2>5. ToSet(results) = {Result(sections[i]) : i \in 1..Len(sections)}
    BY <2>1 DEF ToSet
  <2>6. \A i \in 1..Len(sections) : Foreign(sections[i]) <=>
           Result(sections[i]).status = "deleted"
              \/ (Result(sections[i]).status = "modified"
                    /\ Result(sections[i]).path \notin Tracked)
    BY DEF Foreign, Result
  <2>7. (\E c \in ToSet(results) :
            c.status = "deleted" \/ (c.status = "modified" /\ c.path \notin Tracked))
            <=> \E i \in 1..Len(sections) : Foreign(sections[i])
    BY <2>5, <2>6
  <2>8. \A i \in 1..Len(sections) : Foreign(sections[i])' <=> Foreign(sections[i])
    BY <2>1 DEF Foreign
  <2>9. CASE \E i \in 1..Len(sections) : Foreign(sections[i])
    <3>1. pc' = "refused"
      BY <1>3, <2>7, <2>9 DEF CheckChanges
    <3>2. (\E i \in 1..Len(sections) : Foreign(sections[i]))'
      BY <2>1, <2>8, <2>9
    <3> QED
      BY <1>0, <2>1, <2>3, <2>4, <3>1, <3>2 DEF IngestInv
  <2>10. CASE ~ \E i \in 1..Len(sections) : Foreign(sections[i])
    <3>1. pc' = "accepted" /\ final' = Merged
      BY <1>3, <2>7, <2>10 DEF CheckChanges
    <3>2. Merged' = Merged
      BY <2>1 DEF Merged
    <3>3. \A i \in 1..Len(sections') : ~Foreign(sections[i])'
      BY <2>1, <2>8, <2>10
    <3> QED
      BY <1>0, <2>1, <2>3, <2>4, <3>1, <3>2, <3>3 DEF IngestInv
  <2> QED
    BY <2>9, <2>10
<1>4. CASE UNCHANGED diffVars
  <2>1. /\ sections' = sections /\ results' = results /\ onDisk' = onDisk /\ meant' = meant
        /\ pc' = pc /\ final' = final /\ sections \in Seq(DiffSections)
    BY <1>4 DEF diffVars, IngestInv
  <2>2. \A i \in 1..Len(sections) :
           /\ Turned(sections[i])' <=> Turned(sections[i])
           /\ Result(sections[i])' = Result(sections[i])
           /\ Foreign(sections[i])' <=> Foreign(sections[i])
    <3>1. \A i \in 1..Len(sections) : Base(sections[i])' = Base(sections[i])
                                      /\ (Unreadable(sections[i])' <=> Unreadable(sections[i]))
      BY <2>1 DEF Base, Unreadable
    <3> QED
      BY <2>1, <3>1 DEF Turned, Result, Foreign
  <2>3. Results' = Results /\ ParseUnifiedDiff(Rendered(meant))' = ParseUnifiedDiff(Rendered(meant))
    BY <2>1, SameDisk
  <2>4. Merged' = Merged
    BY <2>1 DEF Merged
  <2>5. \A i \in 1..Len(results') : i \in 1..Len(sections)
    BY <2>1 DEF IngestInv
  <2>6. \A i \in 1..Len(results') : results'[i] = Result(sections[i])' /\ ~Turned(sections[i])'
    BY <2>1, <2>2, <2>5 DEF IngestInv
  <2>7. pc' = "refused" =>
          \/ sections' = <<>>
          \/ (\E i \in 1..Len(sections) : Turned(sections[i]) \/ Foreign(sections[i]))'
    BY <2>1, <2>2 DEF IngestInv
  <2>8. pc' = "accepted" => final' = Merged' /\ (\A i \in 1..Len(sections) : ~Foreign(sections[i]))'
    BY <2>1, <2>2, <2>4 DEF IngestInv
  <2> QED
    BY <1>0, <2>1, <2>3, <2>6, <2>7, <2>8 DEF IngestInv
<1> QED
  BY <1>1, <1>2, <1>3, <1>4 DEF DiffNext

\* What is assumed of the diff that was meant.
LEMMA SectionsMeant ==
  ASSUME IngestInv
  PROVE  /\ meant \in Seq(DiffSections) /\ Len(meant) \in Nat /\ DOMAIN meant = 1..Len(meant)
         /\ \A i \in 1..Len(meant) : meant[i] \in DiffSections
         /\ Shown = {s \in {meant[i] : i \in 1..Len(meant)} : s.hunks # <<>>}
         /\ \A p \in ProjectPaths : onDisk[p] = Missing \/ onDisk[p] \in Seq(Texts)
<1>1. PICK r \in Requests : meant = r.diff /\ onDisk = r.disk
  BY DEF IngestInv
<1>2. meant \in Seq(DiffSections)
  BY <1>1, RequestAssumption
<1>3. ToSet(meant) = {meant[i] : i \in 1..Len(meant)}
  BY <1>2 DEF ToSet
<1>4. \A p \in ProjectPaths : onDisk[p] = Missing \/ onDisk[p] \in Seq(Texts)
  BY <1>1, RequestAssumption
<1>5. \A i \in 1..Len(meant) : meant[i] \in DiffSections
  BY <1>2
<1> QED
  BY <1>2, <1>3, <1>4, <1>5 DEF Shown

\* The lines of a section that can be read, and what its hunks make of them.
LEMMA SectionApplied ==
  ASSUME NEW s \in DiffSections, ~Unreadable(s),
         \A h \in ToSet(s.hunks) : Side(h, "-") # <<>> \/ HunkStart(h) = 0,
         \A p \in ProjectPaths : onDisk[p] = Missing \/ onDisk[p] \in Seq(Texts)
  PROVE  /\ ApplyHunks(Base(s), s.hunks).ok <=> Fits(Base(s), s.hunks)
         /\ Fits(Base(s), s.hunks) => Result(s).lines = Patched(Base(s), s.hunks)
<1>1. s.hunks \in Seq(DiffHunks) /\ RelPath(s) \in DiffPaths
  BY SectionParts DEF RelPath
<1>2. Base(s) \in Seq(Texts)
  <2>1. CASE s.old = NoPath
    <3>1. <<>> \in Seq(Texts)
      OBVIOUS
    <3> QED
      BY <2>1, <3>1 DEF Base
  <2>2. CASE s.old # NoPath
    <3>1. RelPath(s) \in ProjectPaths /\ onDisk[RelPath(s)] # Missing
      BY <1>1, <2>2 DEF Unreadable, DiffPaths
    <3> QED
      BY <2>2, <3>1 DEF Base
  <2> QED
    BY <2>1, <2>2
<1>3. Anchored(s.hunks)
  <2>1. \A i \in DOMAIN s.hunks : s.hunks[i] \in ToSet(s.hunks)
    BY DEF ToSet
  <2> QED
    BY <2>1 DEF Anchored
<1>4. /\ ApplyHunks(Base(s), s.hunks).ok <=> Fits(Base(s), s.hunks)
      /\ Fits(Base(s), s.hunks) => ApplyHunks(Base(s), s.hunks).lines = Patched(Base(s), s.hunks)
  BY <1>1, <1>2, <1>3, HunksApplyAsMeant
<1> QED
  BY <1>4 DEF Result

\* A section of a diff is accepted if it can be read, lands, and is no one else's.
LEMMA AcceptableSections ==
  ASSUME NEW s \in DiffSections,
         \A h \in ToSet(s.hunks) : Side(h, "-") # <<>> \/ HunkStart(h) = 0,
         \A p \in ProjectPaths : onDisk[p] = Missing \/ onDisk[p] \in Seq(Texts)
  PROVE  Acceptable(s) <=> ~Turned(s) /\ ~Foreign(s)
<1>1. ~Foreign(s) <=> s.new # NoPath /\ (s.old # NoPath => RelPath(s) \in Tracked)
  BY DEF Foreign, Status
<1>2. ~Unreadable(s) => (ApplyHunks(Base(s), s.hunks).ok <=> Fits(Base(s), s.hunks))
  BY SectionApplied
<1> QED
  BY <1>1, <1>2 DEF Acceptable, Turned

\* The lines that go to the sandbox for a path with one section.
LEMMA FinalLines ==
  ASSUME NEW k \in 1..Len(results), Len(results) \in Nat, DOMAIN results = 1..Len(results),
         \A i \in 1..Len(results) : results[i].path = results[k].path => i = k,
         results[k].status = "added" \/ results[k].path \in Tracked
  PROVE  Merged[results[k].path] = results[k].lines
<1> DEFINE p == results[k].path
           changes == {i \in DOMAIN results : results[i].path = p}
           added == {i \in changes : results[i].status = "added"}
           D == Tracked \cup {c.path : c \in {d \in ToSet(results) : d.status = "added"}}
<1>1. p \in D
  BY DEF ToSet
<1>2. changes = {k} /\ added \subseteq {k}
  OBVIOUS
<1>3. {k} \in SUBSET (1..Len(results)) /\ {k} # {}
  OBVIOUS
<1>4. Max({k}) = k /\ Min({k}) = k
  BY <1>3, FirstPosition, LastPosition
<1>5. Merged[p] = IF added # {} THEN results[Max(added)].lines
                  ELSE IF changes # {} THEN results[Min(changes)].lines
                  ELSE onDisk[p]
  BY <1>1 DEF Merged
<1>6. added = {} \/ added = {k}
  BY <1>2
<1> HIDE DEF added, changes
<1> QED
  BY <1>2, <1>4, <1>5, <1>6

\* And for one without.
LEMMA FinalOthers ==
  ASSUME NEW p \in Tracked, \A i \in DOMAIN results : results[i].path # p
  PROVE  Merged[p] = onDisk[p]
BY DEF Merged

\* For every diff the property speaks of: what is accepted is what was meant, and what fits
\* is not refused (ingest.ts, lifecycle.ts, server.ts).
THEOREM AppliedAsMeantHolds == ASSUME IngestInv PROVE AppliedAsMeant
<1> SUFFICES ASSUME Regular
             PROVE  (pc = "accepted" => Exact) /\ (pc = "refused" => Refusable)
  BY DEF AppliedAsMeant
<1> DEFINE n == Len(meant)
           m == Len(sections)
<1>1. /\ meant \in Seq(DiffSections) /\ n \in Nat /\ DOMAIN meant = 1..n
      /\ \A i \in 1..n : meant[i] \in DiffSections
      /\ Shown = {s \in {meant[i] : i \in 1..n} : s.hunks # <<>>}
      /\ \A p \in ProjectPaths : onDisk[p] = Missing \/ onDisk[p] \in Seq(Texts)
  BY SectionsMeant
<1>2. /\ \A i, j \in 1..n : meant[i].hunks # <<>> /\ meant[j].hunks # <<>>
                            /\ RelPath(meant[i]) = RelPath(meant[j]) => i = j
      /\ \A s \in Shown : /\ s \in DiffSections /\ Tame(s)
                          /\ \A h \in ToSet(s.hunks) : Side(h, "-") # <<>> \/ HunkStart(h) = 0
  <2>1. \A i, j \in 1..n : meant[i].hunks # <<>> /\ meant[j].hunks # <<>>
                           /\ RelPath(meant[i]) = RelPath(meant[j]) => i = j
    <3> SUFFICES ASSUME NEW i \in 1..n, NEW j \in 1..n,
                        meant[i].hunks # <<>>, meant[j].hunks # <<>>,
                        RelPath(meant[i]) = RelPath(meant[j])
                 PROVE  i = j
      OBVIOUS
    <3>1. meant[i] \in Shown /\ meant[j] \in Shown /\ i \in DOMAIN meant /\ j \in DOMAIN meant
      BY <1>1
    <3>2. {meant[i], meant[j]} \subseteq Shown
      BY <3>1
    <3> QED
      BY <3>1, <3>2 DEF Regular
  <2>2. \A s \in Shown : s \in DiffSections
    BY <1>1
  <2>3. \A s \in Shown : Tame(s)
    BY DEF Regular, Tame
  <2>4. \A s \in Shown : \A h \in ToSet(s.hunks) : Side(h, "-") # <<>> \/ h.start = 0
    BY DEF Regular
  <2>5. \A s \in Shown : \A h \in ToSet(s.hunks) : Side(h, "-") # <<>> \/ HunkStart(h) = 0
    BY <2>4 DEF HunkStart
  <2> QED
    BY <2>1, <2>2, <2>3, <2>5
<1>3. \A s \in Shown : Acceptable(s) <=> ~Turned(s) /\ ~Foreign(s)
  BY <1>1, <1>2, AcceptableSections
<1>4. \A i \in 1..n : meant[i].hunks = <<>> => Clean(meant[i])
  BY <1>1, SectionParts, Lookalikes DEF Clean
<1>5. ASSUME sections = ParseUnifiedDiff(Rendered(meant)), \A s \in Shown : Clean(s)
      PROVE  /\ \A k \in 1..m : sections[k] \in Shown
             /\ \A s \in Shown : \E k \in 1..m : sections[k] = s
             /\ \A k, l \in 1..m : RelPath(sections[k]) = RelPath(sections[l]) => k = l
             /\ m \in Nat
  <2>1. \A i \in 1..n : Clean(meant[i])
    BY <1>1, <1>4, <1>5
  <2>2. ReadsBack(sections, meant, n)
    BY <1>1, <1>5, <2>1, CleanDiffsAreReadBack
  <2>3. PICK at : Recalls(sections, meant, n, at)
    BY <2>2 DEF ReadsBack
  <2>4. m \in Nat
    BY DEF IngestInv
  <2>5. \A k \in 1..m : /\ at[k] \in 1..n /\ sections[k] = meant[at[k]]
                        /\ meant[at[k]].hunks # <<>>
    BY <2>3 DEF Recalls
  <2>6. \A j, k \in 1..m : at[j] = at[k] => j = k
    <3>1. \A j, k \in 1..m : j < k => at[j] < at[k]
      BY <2>3 DEF Recalls
    <3>2. \A j \in 1..m : j \in Int /\ at[j] \in Int
      BY <1>1, <2>4, <2>5
    <3> QED
      BY <3>1, <3>2
  <2>7. \A k, l \in 1..m : RelPath(sections[k]) = RelPath(sections[l]) => k = l
    <3> SUFFICES ASSUME NEW k \in 1..m, NEW l \in 1..m,
                        RelPath(sections[k]) = RelPath(sections[l])
                 PROVE  k = l
      OBVIOUS
    <3>1. at[k] = at[l]
      BY <1>2, <2>5
    <3> QED
      BY <2>6, <3>1
  <2>8. \A k \in 1..m : sections[k] \in Shown
    BY <1>1, <2>5
  <2>9. ASSUME NEW s \in Shown
        PROVE  \E k \in 1..m : sections[k] = s
    <3>1. PICK j \in 1..n : s = meant[j] /\ meant[j].hunks # <<>>
      BY <1>1, <2>9
    <3>2. PICK k \in 1..m : at[k] = j
      BY <2>3, <3>1 DEF Recalls
    <3> QED
      BY <2>5, <3>1, <3>2
  <2> QED
    BY <2>4, <2>7, <2>8, <2>9
<1>6. ASSUME pc = "accepted"
      PROVE  Exact
  <2>1. /\ sections = ParseUnifiedDiff(Rendered(meant)) /\ final = Merged
        /\ Len(results) = m /\ results \in Seq(Results)
        /\ \A i \in 1..m : ~Foreign(sections[i]) /\ ~Turned(sections[i])
        /\ \A i \in 1..m : results[i] = Result(sections[i])
    BY <1>6 DEF IngestInv
  <2>2. \A s \in Shown : Clean(s)
    <3> SUFFICES ASSUME NEW s \in Shown, ~Clean(s)
                 PROVE  FALSE
      OBVIOUS
    <3>1. PICK k \in 1..n : s = meant[k] /\ ~Clean(meant[k]) /\ Tame(meant[k])
      BY <1>1, <1>2
    <3>2. PICK j \in 1..m : sections[j] \in Condemned
      BY <1>1, <2>1, <3>1, LookalikesAreNoticed
    <3>3. Ghost # NoPath
      BY PathAssumption
    <3>4. Foreign(sections[j])
      BY <3>2, <3>3 DEF Condemned, Foreign, Status, RelPath
    <3> QED
      BY <2>1, <3>2, <3>4
  <2>3. /\ \A k \in 1..m : sections[k] \in Shown
        /\ \A s \in Shown : \E k \in 1..m : sections[k] = s
        /\ \A k, l \in 1..m : RelPath(sections[k]) = RelPath(sections[l]) => k = l
        /\ m \in Nat
    BY <1>5, <2>1, <2>2
  <2>4. \A s \in Shown : Acceptable(s)
    BY <1>3, <2>1, <2>3
  <2>5. /\ DOMAIN results = 1..m
        /\ \A i \in 1..m : /\ results[i].path = RelPath(sections[i])
                           /\ results[i].status = Status(sections[i])
    <3>1. DOMAIN results = 1..Len(results)
      BY <2>1
    <3>2. \A i \in 1..m : /\ Result(sections[i]).path = RelPath(sections[i])
                          /\ Result(sections[i]).status = Status(sections[i])
      BY DEF Result
    <3> QED
      BY <2>1, <3>1, <3>2
  <2>6. ASSUME NEW s \in Shown
        PROVE  final[RelPath(s)] = Patched(Base(s), s.hunks)
    <3>1. s \in DiffSections /\ ~Unreadable(s) /\ Fits(Base(s), s.hunks)
      BY <1>2, <2>4 DEF Acceptable
    <3>2. PICK k \in 1..m : sections[k] = s
      BY <2>3
    <3>3. results[k] = Result(s) /\ results[k].path = RelPath(s) /\ results[k].status = Status(s)
      BY <2>1, <2>5, <3>2
    <3>4. \A i \in 1..m : results[i].path = results[k].path => i = k
      BY <2>3, <2>5
    <3>5. results[k].status = "added" \/ results[k].path \in Tracked
      <4>1. Acceptable(s)
        BY <2>4
      <4> QED
        BY <3>3, <4>1 DEF Acceptable, Status
    <3>6. Merged[results[k].path] = results[k].lines
      BY <2>1, <2>3, <2>5, <3>4, <3>5, FinalLines
    <3>7. Result(s).lines = Patched(Base(s), s.hunks)
      BY <1>1, <1>2, <3>1, SectionApplied
    <3> QED
      BY <2>1, <3>3, <3>6, <3>7
  <2>7. ASSUME NEW p \in Tracked, \A s \in Shown : RelPath(s) # p
        PROVE  final[p] = onDisk[p]
    <3>1. \A i \in DOMAIN results : results[i].path # p
      BY <2>3, <2>5, <2>7
    <3> QED
      BY <2>1, <3>1, FinalOthers
  <2>8. DOMAIN final = Tracked \cup {RelPath(s) : s \in Shown}
    <3> DEFINE Added == {c.path : c \in {d \in ToSet(results) : d.status = "added"}}
    <3>1. DOMAIN final = Tracked \cup Added
      BY <2>1 DEF Merged
    <3>2. ToSet(results) = {results[i] : i \in 1..m}
      BY <2>5 DEF ToSet
    <3>3. Added \subseteq {RelPath(s) : s \in Shown}
      BY <2>3, <2>5, <3>2
    <3>4. ASSUME NEW s \in Shown, RelPath(s) \notin Tracked
          PROVE  RelPath(s) \in Added
      <4>1. Status(s) = "added"
        BY <2>4, <3>4 DEF Acceptable, Status
      <4>2. PICK k \in 1..m : sections[k] = s
        BY <2>3
      <4>3. results[k] \in ToSet(results) /\ results[k].status = "added"
            /\ results[k].path = RelPath(s)
        BY <2>5, <3>2, <4>1, <4>2
      <4> QED
        BY <4>3
    <3> HIDE DEF Added
    <3> QED
      BY <3>1, <3>3, <3>4
  <2> QED
    BY <2>4, <2>6, <2>7, <2>8 DEF Exact
<1>7. ASSUME pc = "refused", ~Refusable
      PROVE  FALSE
  <2>1. /\ sections = ParseUnifiedDiff(Rendered(meant))
        /\ \/ sections = <<>>
           \/ \E i \in 1..m : Turned(sections[i]) \/ Foreign(sections[i])
    BY <1>7 DEF IngestInv
  <2>2. Shown # {} /\ \A s \in Shown : Acceptable(s) /\ Clean(s)
    BY <1>7 DEF Refusable, Clean
  <2>3. /\ \A k \in 1..m : sections[k] \in Shown
        /\ \E k \in 1..m : TRUE
    BY <1>5, <2>1, <2>2
  <2>4. sections # <<>>
    BY <2>3
  <2> QED
    BY <1>3, <2>1, <2>2, <2>3, <2>4
<1> QED
  BY <1>6, <1>7

\* AppliedAsMeant holds of every diff of any length, on any files: ingest takes a diff only
\* where it fits, and then makes of the files exactly what its hunks say (ingest.ts).
THEOREM DiffsAreAppliedAsMeant == DiffSpec => []AppliedAsMeant
<1>1. DiffInit => IngestInv
  BY IngestInvStarts
<1>2. IngestInv /\ [DiffNext]_diffVars => IngestInv'
  BY IngestInvStays
<1>3. IngestInv => AppliedAsMeant
  BY AppliedAsMeantHolds
<1> QED
  BY <1>1, <1>2, <1>3, PTL DEF DiffSpec

=============================================================================
