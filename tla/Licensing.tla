------------------------------ MODULE Licensing ------------------------------
(***************************************************************************)
(* What a project of this machine may do: one session per machine, one     *)
(* cache of entitlements per project, filled from the server by `login`    *)
(* and `tier-status` and read, never refreshed, by whoever has to decide.  *)
(* Commands of several projects overlap; of one project, those that take   *)
(* the repository lock do not.  Any of them may be killed at any step.     *)
(*                                                                         *)
(* Of the entitlements only the plan is kept: it decides the number of     *)
(* components, the languages and the gated features alike.                 *)
(***************************************************************************)
EXTENDS Naturals, FiniteSets

CONSTANTS
    Procs,         \* commands that may run at the same time
    Projects,
    Accounts,
    None,
    FreeLimit,     \* components a project may track on the free plan
    Ttl,           \* hours the server lets an answer be fresh
    Grace,         \* OFFLINE_GRACE_MS, in hours
    MaxHours,      \* bound: hours that pass
    MaxCommands,   \* bound: commands started
    MaxKills,      \* bound: commands killed
    MaxTurns       \* bound: subscriptions that begin or end

ASSUME LicensingAssumption ==
    /\ None \notin Accounts
    /\ FreeLimit \in Nat /\ Ttl \in Nat /\ Grace \in Nat
    /\ MaxHours \in Nat /\ MaxCommands \in Nat /\ MaxKills \in Nat /\ MaxTurns \in Nat

VARIABLES
    clock,        \* hours
    subscribed,   \* server: accounts with the paid plan
    tokens,       \* server: the account of each token that is valid
    issued,       \* tokens issued so far, and the number of the last one
    session,      \* ~/.purix/session.enc: the token kept there, or None
    cache,        \* per project: .purix/tier-config.json, or NoCache
    created,      \* per project: components `create` registered and nobody deleted
    indexed,      \* per project: the row of the codebase index exists
    backups,      \* the files `purix backup create` wrote
    command,      \* per process: what it runs and where it is
    started, kills, turns,
    lastPaid,     \* history: hour in which some account last had the paid plan
    forgotten,    \* history: a logout ended in the project, no answer that the server had
                  \* given before was still to be written, and it granted nothing since
    beyond        \* history: the project was granted the paid plan, has the rows of one that
                  \* was, or got back a row that had been deleted

server == <<subscribed, tokens, issued>>
manifest == <<created, indexed, backups>>
history == <<lastPaid, forgotten, beyond>>
vars == <<clock, server, session, cache, manifest, command, started, kills, turns, history>>

NoCache == [plan |-> "none", at |-> 0]
Idle == [cmd |-> "none", at |-> "idle", in |-> None, token |-> 0, answer |-> "none", count |-> 0]

Mutating == {"login", "logout", "create", "index", "restore"}
\* A read-only command and a tool of the MCP server take no lock.  What has a locked command
\* and a tool, "delete" and "rewrite", is without: an entry that was read is written back by
\* accept-drift, the cascade, the linking of components and the migration of old entries.
Unlocked == {"tier-status", "purix_create", "delete", "rewrite", "backup"}

Labels == {"idle", "start", "token", "save", "refresh", "ask", "write", "clear", "cache",
           "register", "rewrite"}
Commands == [cmd : {"none"} \union Mutating \union Unlocked, at : Labels,
             in : Projects \union {None}, token : Nat,
             answer : {"none", "free", "paid"}, count : Nat]
Backups == [created : Nat, indexed : BOOLEAN, beyond : BOOLEAN]

TypeOK ==
    /\ clock \in Nat /\ lastPaid \in Nat /\ issued \in Nat
    /\ subscribed \subseteq Accounts
    /\ tokens \in [1..issued -> Accounts \union {None}]
    /\ session \in 0..issued
    /\ cache \in [Projects -> [plan : {"none", "free", "paid"}, at : Nat]]
    /\ created \in [Projects -> Nat] /\ indexed \in [Projects -> BOOLEAN]
    /\ backups \subseteq Backups
    /\ command \in [Procs -> Commands]
    /\ forgotten \in [Projects -> BOOLEAN] /\ beyond \in [Projects -> BOOLEAN]

Init ==
    /\ clock = 0 /\ lastPaid = 0
    /\ subscribed \in SUBSET Accounts
    /\ issued = 0 /\ tokens = [t \in 1..0 |-> None]
    /\ session = 0
    /\ cache = [p \in Projects |-> NoCache]
    /\ created = [p \in Projects |-> 0] /\ indexed = [p \in Projects |-> FALSE]
    /\ command = [c \in Procs |-> Idle]
    /\ started = 0 /\ kills = 0 /\ turns = 0
    /\ backups = {}
    /\ forgotten = [p \in Projects |-> FALSE] /\ beyond = [p \in Projects |-> FALSE]

-----------------------------------------------------------------------------
(* getEntitlements: what the local state alone decides.                    *)

LoggedIn == session # 0

Age(p) == clock - cache[p].at

Forever(p) == TRUE   \* mutant: a stale answer is served for ever
InGrace(p) == Age(p) <= Ttl \/ Age(p) <= Grace

Paid(p) == LoggedIn /\ cache[p].plan = "paid" /\ InGrace(p)

Count(p) == created[p] + IF indexed[p] THEN 1 ELSE 0

\* checkComponentLimit
Allowed(p, count) == Paid(p) \/ count < FreeLimit

\* The plan an answer to this token carries; an invalid token gets none.
PlanOf(token) == IF tokens[token] \in subscribed THEN "paid" ELSE "free"

-----------------------------------------------------------------------------
(* Commands.                                                               *)

At(c, label) == command[c].at = label
Goto(c, label) == command' = [command EXCEPT ![c].at = label]
End(c) == command' = [command EXCEPT ![c] = Idle]

\* preAction: a mutating command has the lock of its project to itself.
Start(c) ==
    /\ At(c, "idle") /\ started < MaxCommands
    /\ \E cmd \in Mutating \union Unlocked, p \in Projects :
        /\ cmd \in Mutating =>
            \A d \in Procs : ~ (command[d].in = p /\ command[d].cmd \in Mutating)
        /\ command' = [command EXCEPT ![c] =
                [Idle EXCEPT !.cmd = cmd, !.in = p,
                             !.at = IF cmd = "tier-status" THEN "refresh" ELSE "start"]]
    /\ started' = started + 1
    /\ UNCHANGED <<clock, server, session, cache, manifest, kills, turns, history>>

Kill(c) ==
    /\ ~ At(c, "idle") /\ kills < MaxKills
    /\ End(c)
    /\ kills' = kills + 1
    /\ UNCHANGED <<clock, server, session, cache, manifest, started, turns, history>>

LoginStart(c) ==
    /\ At(c, "start") /\ command[c].cmd = "login"
    /\ \/ LoggedIn /\ End(c)
       \/ ~ LoggedIn /\ Goto(c, "token")
    /\ UNCHANGED <<clock, server, session, cache, manifest, started, kills, turns, history>>

\* requestCode and verifyCode, with the human's answers to the prompts.
LoginVerify(c) ==
    /\ At(c, "token")
    /\ \/ End(c) /\ UNCHANGED server
       \/ \E a \in Accounts :
            /\ issued' = issued + 1
            /\ tokens' = [t \in 1..issued + 1 |-> IF t = issued + 1 THEN a ELSE tokens[t]]
            /\ command' = [command EXCEPT ![c].at = "save", ![c].token = issued + 1]
            /\ UNCHANGED subscribed
    /\ UNCHANGED <<clock, session, cache, manifest, started, kills, turns, history>>

\* The session of another login that was quicker is replaced.
SaveSession(c) ==
    /\ At(c, "save")
    /\ session' = command[c].token
    /\ Goto(c, "refresh")
    /\ UNCHANGED <<clock, server, cache, manifest, started, kills, turns, history>>

\* refreshEntitlements: the request carries the session as it is now.
Refresh(c) ==
    /\ At(c, "refresh")
    /\ \/ ~ LoggedIn /\ End(c)
       \/ LoggedIn /\ command' = [command EXCEPT ![c].at = "ask", ![c].token = session]
    /\ UNCHANGED <<clock, server, session, cache, manifest, started, kills, turns, history>>

KeepCache(c) == UNCHANGED cache

\* Nobody answers, or the server rejects the request: the cache stays.
NoAnswer(c) ==
    /\ At(c, "ask")
    /\ End(c) /\ KeepCache(c)
    /\ UNCHANGED <<clock, server, session, manifest, started, kills, turns, history>>

\* The server grants what the account of the token has.
Answer(c) ==
    LET plan == PlanOf(command[c].token)  where == command[c].in IN
    /\ At(c, "ask") /\ tokens[command[c].token] # None
    /\ command' = [command EXCEPT ![c].at = "write", ![c].answer = plan]
    /\ forgotten' = [forgotten EXCEPT ![where] = @ /\ plan # "paid"]
    /\ beyond' = [beyond EXCEPT ![where] = @ \/ plan = "paid"]
    /\ UNCHANGED <<clock, server, session, cache, manifest, started, kills, turns, lastPaid>>

\* The answer is written whatever became of the session since.
WriteCache(c) ==
    LET r == command[c] IN
    /\ At(c, "write")
    /\ cache' = [cache EXCEPT ![r.in] = [plan |-> r.answer, at |-> clock]]
    /\ End(c)
    /\ UNCHANGED <<clock, server, session, manifest, started, kills, turns, history>>

\* The server forgets the token if it is reached.
LogoutStart(c) ==
    /\ At(c, "start") /\ command[c].cmd = "logout"
    /\ \/ ~ LoggedIn /\ End(c) /\ UNCHANGED tokens
       \/ LoggedIn /\ Goto(c, "clear") /\ tokens' \in {tokens, [tokens EXCEPT ![session] = None]}
    /\ UNCHANGED <<clock, subscribed, issued, session, cache, manifest, started, kills, turns,
                   history>>

ClearSession(c) ==
    /\ At(c, "clear")
    /\ session' = 0
    /\ Goto(c, "cache")
    /\ UNCHANGED <<clock, server, cache, manifest, started, kills, turns, history>>

LeavesCache(p) == UNCHANGED cache   \* mutant: the grace does the rest
ClearEntitlements(p) == cache' = [cache EXCEPT ![p] = [plan |-> "free", at |-> 0]]

\* A refresh of the project has been granted the paid plan and has not written it.
Answered(p) ==
    \E d \in Procs : At(d, "write") /\ command[d].in = p /\ command[d].answer = "paid"

\* clearEntitlementsCache: that of the project the command runs in.
ClearCache(c) ==
    LET where == command[c].in IN
    /\ At(c, "cache")
    /\ ClearEntitlements(where)
    /\ forgotten' = [forgotten EXCEPT ![where] = ~ Answered(where)]
    /\ End(c)
    /\ UNCHANGED <<clock, server, session, manifest, started, kills, turns, lastPaid, beyond>>

\* The plan, the approval and the files come before the row.
CreateStart(c) ==
    /\ At(c, "start") /\ command[c].cmd \in {"create", "purix_create"}
    /\ command' = [command EXCEPT ![c].at = "register", ![c].count = Count(command[c].in)]
    /\ UNCHANGED <<clock, server, session, cache, manifest, started, kills, turns, history>>

CountBefore(c) == command[c].count   \* mutant: counted when the command began
CountNow(c) == Count(command[c].in)

\* writeManifestWithLimitCheck: count and insert are one transaction.
Register(c) ==
    LET where == command[c].in IN
    /\ At(c, "register")
    /\ IF Allowed(where, CountNow(c)) THEN created' = [created EXCEPT ![where] = @ + 1]
                                  ELSE UNCHANGED created
    /\ End(c)
    /\ UNCHANGED <<clock, server, session, cache, indexed, backups, started, kills, turns, history>>

\* runIndex writes its row without asking for the limit, unless it meets a file
\* whose language the plan does not include.
Index(c) ==
    LET where == command[c].in IN
    /\ At(c, "start") /\ command[c].cmd = "index"
    /\ \/ indexed' = [indexed EXCEPT ![where] = TRUE]
       \/ ~ Paid(where) /\ UNCHANGED indexed
    /\ End(c)
    /\ UNCHANGED <<clock, server, session, cache, created, backups, started, kills, turns, history>>

\* Who has read an entry of the project to write it back; count 1 says it was deleted since.
Rewriting(p) == {d \in Procs : At(d, "rewrite") /\ command[d].in = p}

\* Of the two deletes only the row matters here.
Delete(c) ==
    LET where == command[c].in IN
    /\ At(c, "start") /\ command[c].cmd = "delete"
    /\ \/ /\ created[where] > 0
          /\ created' = [created EXCEPT ![where] = @ - 1]
          /\ \E lost \in SUBSET Rewriting(where) :
                /\ created[where] = 1 => lost = Rewriting(where)
                /\ command' = [d \in Procs |->
                      IF d = c THEN Idle
                      ELSE IF d \in lost THEN [command[d] EXCEPT !.count = 1]
                      ELSE command[d]]
          /\ UNCHANGED indexed
       \/ indexed' = [indexed EXCEPT ![where] = FALSE] /\ End(c) /\ UNCHANGED created
    /\ UNCHANGED <<clock, server, session, cache, backups, started, kills, turns, history>>

ReadEntry(c) ==
    /\ At(c, "start") /\ command[c].cmd = "rewrite" /\ created[command[c].in] > 0
    /\ Goto(c, "rewrite")
    /\ UNCHANGED <<clock, server, session, cache, manifest, started, kills, turns, history>>

\* writeManifest is an upsert that asks for no limit: a row deleted since is inserted
\* again, unless one of its name is there.
RewriteEntry(c) ==
    LET where == command[c].in IN
    /\ At(c, "rewrite")
    /\ \/ UNCHANGED <<created, beyond>>
       \/ /\ command[c].count = 1
          /\ created' = [created EXCEPT ![where] = @ + 1]
          /\ beyond' = [beyond EXCEPT ![where] = TRUE]
    /\ End(c)
    /\ UNCHANGED <<clock, server, session, cache, indexed, backups, started, kills, turns,
                   lastPaid, forgotten>>

\* exportManifestData, by the command or the tool.
Backup(c) ==
    LET where == command[c].in IN
    /\ At(c, "start") /\ command[c].cmd = "backup"
    /\ backups' = backups \union {[created |-> created[where], indexed |-> indexed[where],
                                   beyond |-> beyond[where]]}
    /\ End(c)
    /\ UNCHANGED <<clock, server, session, cache, created, indexed, started, kills, turns, history>>

\* importManifestData: the rows of any backup, another project's too, replace the
\* project's in one transaction that asks for no limit; entries read before are not among them.
Restore(c) ==
    LET where == command[c].in IN
    /\ At(c, "start") /\ command[c].cmd = "restore"
    /\ \E b \in backups :
        /\ created' = [created EXCEPT ![where] = b.created]
        /\ indexed' = [indexed EXCEPT ![where] = b.indexed]
        /\ beyond' = [beyond EXCEPT ![where] = @ \/ b.beyond]
    /\ command' = [d \in Procs |->
          IF d = c THEN Idle
          ELSE IF d \in Rewriting(where) THEN [command[d] EXCEPT !.count = 1]
          ELSE command[d]]
    /\ UNCHANGED <<clock, server, session, cache, backups, started, kills, turns,
                   lastPaid, forgotten>>

-----------------------------------------------------------------------------
(* The server and the time.                                                *)

\* A subscription begins or ends.
Turn ==
    /\ turns < MaxTurns /\ turns' = turns + 1
    /\ \E a \in Accounts :
        subscribed' = IF a \in subscribed THEN subscribed \ {a} ELSE subscribed \union {a}
    /\ lastPaid' = clock
    /\ UNCHANGED <<clock, tokens, issued, session, cache, manifest, command, started, kills,
                   forgotten, beyond>>

\* A request takes less than an hour.
Tick ==
    /\ clock < MaxHours
    /\ \A c \in Procs : ~ At(c, "ask") /\ ~ At(c, "write")
    /\ clock' = clock + 1
    /\ lastPaid' = IF subscribed # {} THEN clock + 1 ELSE lastPaid
    /\ UNCHANGED <<server, session, cache, manifest, command, started, kills, turns,
                   forgotten, beyond>>

Step(c) ==
    \/ LoginStart(c) \/ LoginVerify(c) \/ SaveSession(c)
    \/ Refresh(c) \/ NoAnswer(c) \/ Answer(c) \/ WriteCache(c)
    \/ LogoutStart(c) \/ ClearSession(c) \/ ClearCache(c)
    \/ CreateStart(c) \/ Register(c) \/ Index(c) \/ Delete(c)
    \/ ReadEntry(c) \/ RewriteEntry(c) \/ Backup(c) \/ Restore(c)

Next == Turn \/ Tick \/ \E c \in Procs : Start(c) \/ Kill(c) \/ Step(c)

Spec == Init /\ [][Next]_vars

-----------------------------------------------------------------------------
(* Properties.                                                             *)

\* Whoever is logged in, and whatever the server answered or failed to answer, no
\* project is served the paid plan for more than the grace after the last account
\* lost it (getEntitlements, "fail closed to Free"; refreshEntitlements).
LapsesWithinGrace ==
    \A p \in Projects : Paid(p) => clock <= lastPaid + (IF Ttl > Grace THEN Ttl ELSE Grace)

\* What the project's cache held is gone with a logout that ran to its end in the
\* project: from then on the project is served the paid plan only after the server has
\* granted it anew, or by an answer that was given before and overtaken by the logout
\* (auth.ts: "This must happen immediately, not on the next TTL expiry").
LogoutForgets == \A p \in Projects : forgotten[p] => ~ Paid(p)

\* A project has no more components than the free plan allows, whatever creates overlap,
\* unless it was granted the paid plan, restored the rows of a project that was, or wrote
\* back a row that somebody deleted (writeManifestWithLimitCheck).
ComponentsWithinPlan ==
    \A p \in Projects : beyond[p] \/ created[p] <= FreeLimit
=============================================================================
