------------------------------ MODULE LlmCalls ------------------------------
(***************************************************************************)
(* Calls of language models: callLlm, the cost ceiling of budget.ts and    *)
(* the circuit breaker of circuit.ts, in one row each of the shared        *)
(* database.  A process is a command, or one of the tool calls a server    *)
(* runs side by side; a step is one statement of the database, a read of   *)
(* provider-config.json or the call.  The answer of a provider and what it *)
(* uses are arbitrary; an error costs nothing.  Costs are counted in some  *)
(* unit.  withSqliteRetry is one try that may fail in the end.  The        *)
(* variable PURIX_LLM_PROVIDER is not set, and an adapter is known by its  *)
(* id: what the endpoint of "custom" is, and the cache of adapters, are    *)
(* left out.                                                               *)
(***************************************************************************)
EXTENDS Integers, FiniteSetsExt

CONSTANTS
    Procs,
    Providers, Unset,  \* ids that getProvider knows; a configuration without one
    Price,         \* of a unit of tokens, by provider and tier
    MaxTokens,     \* units that an answer takes at most
    Ceiling,       \* PURIX_COST_CEILING_USD
    LowBudget,     \* LOW_BUDGET_DOWNGRADE_THRESHOLD, in percent
    Estimate,      \* what a call is estimated to cost
    MaxCost,       \* what it costs at most
    Attempts,      \* of one call: the first and its retries
    Threshold,     \* FAILURE_THRESHOLD
    Cooldown,      \* COOLDOWN_MS, in ticks
    MaxCommands, MaxCalls,
    MaxUpsets      \* bound: kills, failing statements and choices of a provider

Tiers == {"low", "high"}

ASSUME CostAssumption ==
    /\ Ceiling \in Nat /\ Estimate \in Nat \ {0} /\ MaxCost \in Nat /\ MaxCost >= Estimate
    /\ LowBudget \in 0..100 /\ MaxTokens \in Nat /\ Unset \notin Providers
    /\ Price \in [Providers -> [Tiers -> Nat]]
    /\ \A q \in Providers, t \in Tiers : MaxTokens * Price[q][t] <= MaxCost
ASSUME CallAssumption ==
    /\ Attempts \in Nat \ {0} /\ Threshold \in Nat \ {0} /\ Cooldown \in Nat \ {0}
    /\ IsFiniteSet(Procs)
    /\ MaxCommands \in Nat /\ MaxCalls \in Nat /\ MaxUpsets \in Nat

VARIABLES
    spent,        \* budget_state.total_spent_usd
    failures,     \* circuit_state.consecutive_failures, counted up to Threshold
    openFor,      \* ticks until circuit_state.open_until, 0 when it has passed or is NULL
    chosen,       \* provider-config.json: the provider, or none that can be read
    local,        \* process -> where it is in callLlm, and its variables
    bills,        \* what happened: paid to providers, settled in the database,
                  \* stuck in reservations nobody will ever settle
    counts        \* commands, overrides, calls, kills, faults, choices

llmVars == <<spent, failures, openFor, chosen, local, bills, counts>>

Out == [pc |-> "out", attempt |-> 1, override |-> FALSE, tier |-> "low", reserved |-> 0,
        provider |-> Unset, tokens |-> 0, transient |-> FALSE]

LlmInit ==
    /\ spent = 0 /\ failures = 0 /\ openFor = 0
    /\ chosen \in Providers
    /\ local = [p \in Procs |-> Out]
    /\ bills = [paid |-> 0, settled |-> 0, stuck |-> 0]
    /\ counts = [commands |-> 0, overrides |-> 0, calls |-> 0, kills |-> 0, faults |-> 0,
                 choices |-> 0]

CallAt(p, label) == local[p].pc = label
CallGoto(p, label) == local' = [local EXCEPT ![p].pc = label]

\* The call returns or throws, and whoever made it goes on.
Return(p) ==
    local' = [local EXCEPT ![p] = [Out EXCEPT !.pc = "ready", !.override = local[p].override]]

Calm == counts.kills + counts.faults + counts.choices < MaxUpsets

\* A statement fails for good.
Fault ==
    /\ Calm
    /\ counts' = [counts EXCEPT !.faults = @ + 1]
Strand(p) == bills' = [bills EXCEPT !.stuck = @ + local[p].reserved]

-----------------------------------------------------------------------------

\* A command starts, perhaps with --override; a tool call has none.
Command(p) ==
    /\ CallAt(p, "out") /\ counts.commands < MaxCommands
    /\ \E o \in BOOLEAN :
         /\ local' = [local EXCEPT ![p] = [Out EXCEPT !.pc = "ready", !.override = o]]
         /\ counts' = [counts EXCEPT !.commands = @ + 1,
                                     !.overrides = IF o THEN @ + 1 ELSE @]
    /\ UNCHANGED <<spent, failures, openFor, bills, chosen>>

EndCommand(p) ==
    /\ CallAt(p, "ready")
    /\ local' = [local EXCEPT ![p] = Out]
    /\ UNCHANGED <<spent, failures, openFor, bills, counts, chosen>>

\* purix provider set: the file is written in place, and holds nothing for a moment.
BeginChoice ==
    /\ chosen # Unset /\ Calm
    /\ chosen' = Unset
    /\ counts' = [counts EXCEPT !.choices = @ + 1]
    /\ UNCHANGED <<spent, failures, openFor, local, bills>>

EndChoice ==
    /\ chosen = Unset
    /\ chosen' \in Providers
    /\ UNCHANGED <<spent, failures, openFor, local, bills, counts>>

\* routeTier: two kinds of calls are made to the better model, while money is left.
LowOnBudget == Ceiling > 0 /\ 100 * (Ceiling - spent) < LowBudget * Ceiling
RouteTier(frontier) == IF frontier /\ ~ LowOnBudget THEN "high" ELSE "low"

CallLlm(p) ==
    /\ CallAt(p, "ready") /\ counts.calls < MaxCalls
    /\ \E frontier \in BOOLEAN :
         local' = [local EXCEPT ![p].pc = "reserve", ![p].tier = RouteTier(frontier)]
    /\ counts' = [counts EXCEPT !.calls = @ + 1]
    /\ UNCHANGED <<spent, failures, openFor, bills, chosen>>

KeepOverride(p) ==     \* mutant: the override is not used up
    local' = [local EXCEPT ![p].pc = "check", ![p].reserved = 0]
UseOverride(p) ==
    local' = [local EXCEPT ![p].pc = "check", ![p].reserved = 0, ![p].override = FALSE]

\* assertBudgetAvailable: one statement compares and reserves.
Reserve(p) ==
    /\ CallAt(p, "reserve")
    /\ \/ local[p].override /\ UseOverride(p) /\ UNCHANGED <<spent, counts>>
       \/ /\ ~ local[p].override /\ spent + Estimate <= Ceiling
          /\ spent' = spent + Estimate
          /\ local' = [local EXCEPT ![p].pc = "check", ![p].reserved = Estimate]
          /\ UNCHANGED counts
       \/ /\ ~ local[p].override /\ spent + Estimate > Ceiling
          /\ Return(p) /\ UNCHANGED <<spent, counts>>
       \/ ~ local[p].override /\ Fault /\ Return(p) /\ UNCHANGED spent
    /\ UNCHANGED <<failures, openFor, bills, chosen>>

\* assertCircuitClosed, after the reservation and before the try.
CheckCircuit(p) ==
    /\ CallAt(p, "check")
    /\ \/ openFor = 0 /\ CallGoto(p, "provider") /\ UNCHANGED <<bills, counts>>
       \/ openFor > 0 /\ Return(p) /\ Strand(p) /\ UNCHANGED counts
       \/ Fault /\ Return(p) /\ Strand(p)
    /\ UNCHANGED <<spent, failures, openFor, chosen>>

\* activeProviderId finds one.
Configured == chosen # Unset

\* So is getProvider, which throws when it does not.
GetProvider(p) ==
    /\ CallAt(p, "provider")
    /\ \/ /\ Configured
          /\ local' = [local EXCEPT ![p].pc = "send", ![p].provider = chosen]
          /\ UNCHANGED bills
       \/ ~ Configured /\ Return(p) /\ Strand(p)
    /\ UNCHANGED <<spent, failures, openFor, counts, chosen>>

\* priceFor
PriceOfChosen(p) ==    \* mutant: at the price of the provider that is chosen by now
    IF chosen = Unset THEN 0 ELSE local[p].tokens * Price[chosen][local[p].tier]
CostOf(p) == local[p].tokens * Price[local[p].provider][local[p].tier]

\* The provider answers, or reports an error that is transient or not; without a
\* key there is an error that is not.
Generate(p) ==
    /\ CallAt(p, "send")
    /\ \/ \E n \in 0..MaxTokens :
            /\ local' = [local EXCEPT ![p].pc = "settle", ![p].tokens = n]
            /\ bills' = [bills EXCEPT !.paid = @ + n * Price[local[p].provider][local[p].tier]]
       \/ \E t \in BOOLEAN :
            /\ local' = [local EXCEPT ![p].pc = "refund", ![p].transient = t]
            /\ UNCHANGED bills
    /\ UNCHANGED <<spent, failures, openFor, counts, chosen>>

\* recordProviderUsage after an answer; what is thrown is caught below.
Settle(p) ==
    /\ CallAt(p, "settle")
    /\ \/ /\ spent' = spent - local[p].reserved + CostOf(p)
          /\ bills' = [bills EXCEPT !.settled = @ + CostOf(p)]
          /\ CallGoto(p, "success") /\ UNCHANGED counts
       \/ /\ Fault
          /\ local' = [local EXCEPT ![p].pc = "refund", ![p].transient = FALSE]
          /\ UNCHANGED <<spent, bills>>
    /\ UNCHANGED <<failures, openFor, chosen>>

\* recordSavings and recordCircuitSuccess; what is thrown is caught below.
RecordSuccess(p) ==
    /\ CallAt(p, "success")
    /\ \/ /\ failures' = 0 /\ openFor' = 0
          /\ Return(p) /\ UNCHANGED counts
       \/ /\ Fault
          /\ local' = [local EXCEPT ![p].pc = "refund", ![p].transient = FALSE]
          /\ UNCHANGED <<failures, openFor>>
    /\ UNCHANGED <<spent, bills, chosen>>

ReleaseReservation(p) == spent' = spent - local[p].reserved

\* The catch block of callLlm.
Refund(p) ==
    /\ CallAt(p, "refund")
    /\ \/ /\ ReleaseReservation(p)
          /\ IF local[p].transient THEN CallGoto(p, "trip") ELSE Return(p)
          /\ UNCHANGED <<bills, counts>>
       \/ Fault /\ Return(p) /\ Strand(p) /\ UNCHANGED spent
    /\ UNCHANGED <<failures, openFor, chosen>>

MayRetry(p) == local[p].attempt < Attempts

SameAttempt(p) == local[p].attempt  \* mutant: retries are not counted
NextAttempt(p) == local[p].attempt + 1

RecordFailure(p) ==
    /\ CallAt(p, "trip")
    /\ \/ /\ failures' = IF failures < Threshold THEN failures + 1 ELSE failures
          /\ openFor' = IF failures + 1 >= Threshold THEN Cooldown ELSE openFor
          /\ IF MayRetry(p)
             THEN local' = [local EXCEPT ![p] =
                              [Out EXCEPT !.pc = "backoff", !.attempt = NextAttempt(p),
                                          !.override = local[p].override, !.tier = local[p].tier]]
             ELSE Return(p)
          /\ UNCHANGED counts
       \/ Fault /\ Return(p) /\ UNCHANGED <<failures, openFor>>
    /\ UNCHANGED <<spent, bills, chosen>>

\* After a while the call is made again, from the start.
Retry(p) ==
    /\ CallAt(p, "backoff") /\ CallGoto(p, "reserve")
    /\ UNCHANGED <<spent, failures, openFor, bills, counts, chosen>>

Reserved(p) == local[p].pc \in {"check", "provider", "send", "settle", "refund"}

KillCaller(p) ==
    /\ ~ CallAt(p, "out") /\ Calm
    /\ counts' = [counts EXCEPT !.kills = @ + 1]
    /\ local' = [local EXCEPT ![p] = Out]
    /\ IF Reserved(p) THEN Strand(p) ELSE UNCHANGED bills
    /\ UNCHANGED <<spent, failures, openFor, chosen>>

Tick ==
    /\ openFor > 0 /\ openFor' = openFor - 1
    /\ UNCHANGED <<spent, failures, local, bills, counts, chosen>>

CallStep(p) ==
    \/ Reserve(p) \/ CheckCircuit(p) \/ GetProvider(p) \/ Generate(p) \/ Settle(p)
    \/ RecordSuccess(p) \/ Refund(p) \/ RecordFailure(p) \/ Retry(p)

LlmNext ==
    \/ Tick \/ BeginChoice \/ EndChoice
    \/ \E p \in Procs : Command(p) \/ EndCommand(p) \/ CallLlm(p) \/ CallStep(p) \/ KillCaller(p)

LlmSpec == LlmInit /\ [][LlmNext]_llmVars

\* Providers answer or time out, and timers fire.
LlmFairSpec == LlmSpec /\ \A p \in Procs : WF_llmVars(CallStep(p))

-----------------------------------------------------------------------------

CallLabels == {"out", "ready", "reserve", "check", "provider", "send", "settle", "success",
               "refund", "trip", "backoff"}

\* The rows and the local variables keep their shapes, and a call makes at most
\* Attempts attempts.
LlmTypeOK ==
    /\ spent \in Int /\ failures \in 0..Threshold /\ openFor \in 0..Cooldown
    /\ chosen \in Providers \union {Unset}
    /\ local \in [Procs -> [pc : CallLabels, attempt : 1..Attempts, override : BOOLEAN,
                            tier : Tiers, reserved : {0, Estimate},
                            provider : Providers \union {Unset}, tokens : 0..MaxTokens,
                            transient : BOOLEAN]]
    /\ bills \in [paid : Nat, settled : Nat, stuck : Nat]
    /\ counts \in [commands : 0..MaxCommands, overrides : 0..MaxCommands, calls : 0..MaxCalls,
                   kills : 0..MaxUpsets, faults : 0..MaxUpsets, choices : 0..MaxUpsets]

\* What calls in flight have reserved.
InFlight == {p \in Procs : Reserved(p) /\ local[p].reserved > 0}

\* What answers have cost that are not settled yet.
Owed == MapThenSumSet(CostOf, {p \in Procs : CallAt(p, "settle")})

\* Every reservation is accounted for exactly once: the row is what was settled,
\* what is in flight, and what was left behind by calls that died or were refused.
\* And every answer is settled at the price of the provider and the model that gave
\* it, whatever was configured meanwhile.
Balanced ==
    counts.faults = 0 =>
        /\ spent = bills.settled + bills.stuck + Estimate * Cardinality(InFlight)
        /\ counts.kills = 0 => bills.paid = bills.settled + Owed

\* The ceiling is hard but for what calls in flight, or lost with their process,
\* cost over their estimate, and for what overrides let through; a statement that
\* fails hides one call at most.
HardCeiling ==
    bills.paid <= Ceiling
                  + (MaxCost - Estimate) * (Cardinality(Procs) + counts.kills)
                  + MaxCost * (counts.overrides + counts.faults)

\* classify.ts says "every attempt's reservation is accounted for exactly once,
\* whichever way this attempt ends": when nothing was killed or failed and no call
\* is running, the row is what was spent.
ReservationsAreSettled ==
    /\ counts.kills = 0 /\ counts.faults = 0
    /\ \A p \in Procs : CallAt(p, "out") \/ CallAt(p, "ready")
    => spent = bills.paid

\* Every call returns or throws, even when every attempt fails.  Processes are all
\* alike, so that it is said of one.
Caller == CHOOSE p \in Procs : TRUE
CallsEnd == CallAt(Caller, "reserve") ~> CallAt(Caller, "ready") \/ CallAt(Caller, "out")
=============================================================================
