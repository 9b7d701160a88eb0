--------------------------- MODULE LicensingProofs ---------------------------
(***************************************************************************)
(* What the cache of entitlements promises, for any number of commands,    *)
(* projects and accounts, any limits and any time: the paid plan ends      *)
(* within the grace, a log-out forgets it, and the component limit holds   *)
(* although creates overlap.                                               *)
(***************************************************************************)
EXTENDS Licensing, TLAPS

USE LicensingAssumption

\* A subscription that runs has been paid up to now.
PaidUpToNow == lastPaid <= clock /\ (subscribed # {} => lastPaid = clock)

\* What the cache calls paid was paid when it was written, and was neither written
\* without a grant nor granted before a log-out that could forget it.
CacheIsHonest ==
    \A p \in Projects : cache[p].plan = "paid" =>
        cache[p].at <= lastPaid /\ beyond[p] /\ ~ forgotten[p]

\* No backup holds more than the plan of the project it was made of.
BackupsWithinPlan == \A b \in backups : b.beyond \/ b.created <= FreeLimit

\* An answer on its way says what was so in this hour, since no hour passes until it is
\* written; it was granted, and after every log-out of the project that does not excuse it.
Granted(r) == lastPaid = clock /\ beyond[r.in] /\ ~ forgotten[r.in]

\* A command that runs does so in a project, with a token that was issued.
RunsWell(r) ==
    /\ r.at # "idle" => r.in \in Projects
    /\ r.token \in 0..issued
    /\ r.at = "write" /\ r.answer = "paid" => Granted(r)

AllRunWell == \A c \in Procs : RunsWell(command[c])

StoresAgree == PaidUpToNow /\ CacheIsHonest /\ ComponentsWithinPlan /\ BackupsWithinPlan

EntitlementsInv == TypeOK /\ AllRunWell /\ StoresAgree

-----------------------------------------------------------------------------
(* How a command goes on: the others stay as they are.                     *)

\* No grant is lost in a step, and no log-out completed.
NothingTaken ==
    \A p \in Projects : (beyond[p] => beyond'[p]) /\ (forgotten'[p] => forgotten[p])

LEMMA Moves ==
  ASSUME EntitlementsInv, NEW c \in Procs, NEW r \in Commands,
         command' = [command EXCEPT ![c] = r], RunsWell(r)',
         issued' \in {issued, issued + 1}, UNCHANGED <<clock, lastPaid>>, NothingTaken
  PROVE  command' \in [Procs -> Commands] /\ AllRunWell'
<1>1. command \in [Procs -> Commands] /\ issued \in Nat /\ AllRunWell
  BY DEF EntitlementsInv, TypeOK
<1>2. command' \in [Procs -> Commands] /\ command'[c] = r
  BY <1>1
<1>3. ASSUME NEW d \in Procs, d # c
      PROVE  RunsWell(command[d])'
  <2>1. command'[d] = command[d] /\ command[d].token \in 0..issued' /\ RunsWell(command[d])
    BY <1>1, <1>3 DEF AllRunWell, RunsWell
  <2>2. ASSUME command[d].at = "write", command[d].answer = "paid"
        PROVE  Granted(command[d])'
    <3>1. command[d].in \in Projects /\ Granted(command[d])
      BY <2>1, <2>2 DEF RunsWell
    <3> QED
      BY <2>1, <3>1 DEF Granted, NothingTaken
  <2> QED
    BY <2>1, <2>2 DEF RunsWell
<1> QED
  BY <1>2, <1>3 DEF AllRunWell

LEMMA IdleRunsWell ==
  ASSUME EntitlementsInv, issued' \in {issued, issued + 1}
  PROVE  Idle \in Commands /\ RunsWell(Idle)'
<1>1. Idle \in Commands
  BY DEF Idle, Commands, Labels
<1>2. RunsWell(Idle)'
  BY DEF RunsWell, Idle, EntitlementsInv, TypeOK
<1> QED
  BY <1>1, <1>2

LEMMA EndMoves ==
  ASSUME EntitlementsInv, NEW c \in Procs, End(c),
         issued' \in {issued, issued + 1}, UNCHANGED <<clock, lastPaid, forgotten, beyond>>
  PROVE  command' \in [Procs -> Commands] /\ AllRunWell'
BY IdleRunsWell, Moves DEF End, NothingTaken

LEMMA GotoMoves ==
  ASSUME EntitlementsInv, NEW c \in Procs, ~ At(c, "idle"),
         NEW label \in Labels \ {"write"}, Goto(c, label),
         issued' \in {issued, issued + 1}, UNCHANGED <<clock, lastPaid, forgotten, beyond>>
  PROVE  command' \in [Procs -> Commands] /\ AllRunWell'
<1>1. command[c] \in Commands /\ RunsWell(command[c]) /\ issued \in Nat
  BY DEF EntitlementsInv, TypeOK, AllRunWell
<1>2. PICK r \in Commands :
        /\ r = [command[c] EXCEPT !.at = label]
        /\ r.at = label /\ r.in = command[c].in /\ r.token = command[c].token
  <2>1. [command[c] EXCEPT !.at = label] \in Commands
    BY <1>1 DEF Commands
  <2> QED
    BY <1>1, <2>1 DEF Commands
<1>3. RunsWell(r)'
  BY <1>1, <1>2 DEF RunsWell, At
<1>4. command' = [command EXCEPT ![c] = r]
  BY <1>2 DEF Goto
<1> QED
  BY <1>2, <1>3, <1>4, Moves DEF NothingTaken

LEMMA StoresStay ==
  ASSUME StoresAgree, UNCHANGED <<clock, subscribed, cache, created, backups, history>>
  PROVE  StoresAgree'
BY DEF StoresAgree, PaidUpToNow, CacheIsHonest, ComponentsWithinPlan, BackupsWithinPlan, history

-----------------------------------------------------------------------------
(* Every step keeps the invariant.                                         *)

USE DEF server, manifest, history

LEMMA EntitlementsInit == Init => EntitlementsInv
<1>1. Idle \in Commands
  BY DEF Idle, Commands, Labels
<1> SUFFICES ASSUME Init PROVE EntitlementsInv
  OBVIOUS
<1>2. TypeOK
  BY <1>1 DEF Init, TypeOK, NoCache
<1>3. AllRunWell
  BY DEF Init, AllRunWell, RunsWell, Idle
<1>4. StoresAgree
  BY DEF Init, StoresAgree, PaidUpToNow, CacheIsHonest, ComponentsWithinPlan,
         BackupsWithinPlan, NoCache
<1> QED
  BY <1>2, <1>3, <1>4 DEF EntitlementsInv

LEMMA KillKeeps ==
  ASSUME EntitlementsInv, NEW c \in Procs, Kill(c)
  PROVE  EntitlementsInv'
<1>1. command' \in [Procs -> Commands] /\ AllRunWell'
  BY EndMoves DEF Kill, At, Labels, EntitlementsInv, TypeOK
<1>2. StoresAgree'
  BY StoresStay DEF Kill, EntitlementsInv
<1>3. TypeOK'
  BY <1>1 DEF Kill, EntitlementsInv, TypeOK, At
<1> QED
  BY <1>1, <1>2, <1>3 DEF EntitlementsInv

LEMMA LoginStartKeeps ==
  ASSUME EntitlementsInv, NEW c \in Procs, LoginStart(c)
  PROVE  EntitlementsInv'
<1>1. command' \in [Procs -> Commands] /\ AllRunWell'
  BY EndMoves, GotoMoves DEF LoginStart, At, Labels, EntitlementsInv, TypeOK
<1>2. StoresAgree'
  BY StoresStay DEF LoginStart, EntitlementsInv
<1>3. TypeOK'
  BY <1>1 DEF LoginStart, EntitlementsInv, TypeOK, At
<1> QED
  BY <1>1, <1>2, <1>3 DEF EntitlementsInv

LEMMA SaveSessionKeeps ==
  ASSUME EntitlementsInv, NEW c \in Procs, SaveSession(c)
  PROVE  EntitlementsInv'
<1>1. command' \in [Procs -> Commands] /\ AllRunWell'
  BY GotoMoves DEF SaveSession, At, Labels, EntitlementsInv, TypeOK
<1>2. StoresAgree'
  BY StoresStay DEF SaveSession, EntitlementsInv
<1>3. TypeOK'
  BY <1>1 DEF SaveSession, EntitlementsInv, TypeOK, At, AllRunWell, RunsWell
<1> QED
  BY <1>1, <1>2, <1>3 DEF EntitlementsInv

LEMMA NoAnswerKeeps ==
  ASSUME EntitlementsInv, NEW c \in Procs, NoAnswer(c)
  PROVE  EntitlementsInv'
<1>1. command' \in [Procs -> Commands] /\ AllRunWell'
  BY EndMoves DEF NoAnswer, KeepCache, At, Labels, EntitlementsInv, TypeOK
<1>2. StoresAgree'
  BY StoresStay DEF NoAnswer, KeepCache, EntitlementsInv
<1>3. TypeOK'
  BY <1>1 DEF NoAnswer, KeepCache, EntitlementsInv, TypeOK, At
<1> QED
  BY <1>1, <1>2, <1>3 DEF EntitlementsInv

LEMMA LogoutStartKeeps ==
  ASSUME EntitlementsInv, NEW c \in Procs, LogoutStart(c)
  PROVE  EntitlementsInv'
<1>1. command' \in [Procs -> Commands] /\ AllRunWell'
  BY EndMoves, GotoMoves DEF LogoutStart, At, Labels, EntitlementsInv, TypeOK
<1>2. StoresAgree'
  BY StoresStay DEF LogoutStart, EntitlementsInv
<1>3. TypeOK'
  BY <1>1 DEF LogoutStart, EntitlementsInv, TypeOK, At
<1> QED
  BY <1>1, <1>2, <1>3 DEF EntitlementsInv

LEMMA ClearSessionKeeps ==
  ASSUME EntitlementsInv, NEW c \in Procs, ClearSession(c)
  PROVE  EntitlementsInv'
<1>1. command' \in [Procs -> Commands] /\ AllRunWell'
  BY GotoMoves DEF ClearSession, At, Labels, EntitlementsInv, TypeOK
<1>2. StoresAgree'
  BY StoresStay DEF ClearSession, EntitlementsInv
<1>3. TypeOK'
  BY <1>1 DEF ClearSession, EntitlementsInv, TypeOK, At
<1> QED
  BY <1>1, <1>2, <1>3 DEF EntitlementsInv

LEMMA IndexKeeps ==
  ASSUME EntitlementsInv, NEW c \in Procs, Index(c)
  PROVE  EntitlementsInv'
<1>1. command' \in [Procs -> Commands] /\ AllRunWell'
  BY EndMoves DEF Index, At, Labels, EntitlementsInv, TypeOK
<1>2. StoresAgree'
  BY StoresStay DEF Index, EntitlementsInv
<1>3. TypeOK'
  BY <1>1 DEF Index, EntitlementsInv, TypeOK, At
<1> QED
  BY <1>1, <1>2, <1>3 DEF EntitlementsInv

LEMMA RegisterKeeps ==
  ASSUME EntitlementsInv, NEW c \in Procs, Register(c)
  PROVE  EntitlementsInv'
<1>1. command' \in [Procs -> Commands] /\ AllRunWell'
  BY EndMoves DEF Register, At, Labels, EntitlementsInv, TypeOK
<1>2. StoresAgree'
  <2> DEFINE where == command[c].in
  <2>1. /\ where \in Projects /\ created \in [Projects -> Nat] /\ FreeLimit \in Nat
        /\ cache[where].plan = "paid" => beyond[where]
        /\ UNCHANGED <<beyond, cache, clock, lastPaid, subscribed, forgotten>>
    BY DEF Register, EntitlementsInv, TypeOK, AllRunWell, RunsWell, At, StoresAgree, CacheIsHonest
  <2>2. Allowed(where, Count(where)) => beyond[where] \/ created[where] + 1 <= FreeLimit
    <3>1. CASE indexed[where]
      BY <2>1, <3>1 DEF Allowed, Count, Paid
    <3>2. CASE ~ indexed[where]
      BY <2>1, <3>2 DEF Allowed, Count, Paid
    <3> QED
      BY <3>1, <3>2
  <2>3. \/ created' = created
        \/ created' = [created EXCEPT ![where] = @ + 1] /\ Allowed(where, Count(where))
    BY DEF Register, CountNow
  <2> HIDE DEF where
  <2>4. ComponentsWithinPlan'
    BY <2>1, <2>2, <2>3 DEF EntitlementsInv, StoresAgree, ComponentsWithinPlan
  <2> QED
    BY <2>1, <2>4 DEF EntitlementsInv, StoresAgree, PaidUpToNow, CacheIsHonest, Register,
                      BackupsWithinPlan
<1>3. TypeOK'
  <2>1. created' \in [Projects -> Nat]
    <3>1. created \in [Projects -> Nat]
      BY DEF EntitlementsInv, TypeOK
    <3>2. \/ created' = created
          \/ created' = [created EXCEPT ![command[c].in] = @ + 1]
      BY DEF Register
    <3> QED
      BY <3>1, <3>2
  <2>2. /\ clock' \in Nat /\ lastPaid' \in Nat /\ issued' \in Nat
        /\ subscribed' \subseteq Accounts
        /\ tokens' \in [1..issued' -> Accounts \union {None}]
        /\ session' \in 0..issued'
    BY DEF Register, EntitlementsInv, TypeOK
  <2>3. /\ cache' \in [Projects -> [plan : {"none", "free", "paid"}, at : Nat]]
        /\ indexed' \in [Projects -> BOOLEAN] /\ backups' \subseteq Backups
        /\ forgotten' \in [Projects -> BOOLEAN] /\ beyond' \in [Projects -> BOOLEAN]
    BY DEF Register, EntitlementsInv, TypeOK
  <2> QED
    BY <1>1, <2>1, <2>2, <2>3 DEF TypeOK
<1> QED
  BY <1>1, <1>2, <1>3 DEF EntitlementsInv

\* Whether somebody deletes the row of an entry that another command has read is noted with
\* that command, and changes nothing else of it.
LEMMA NotesMove ==
  ASSUME EntitlementsInv, NEW c \in Procs, NEW lost \in SUBSET Procs,
         command' = [d \in Procs |-> IF d = c THEN Idle
                                     ELSE IF d \in lost THEN [command[d] EXCEPT !.count = 1]
                                     ELSE command[d]],
         issued' = issued, UNCHANGED <<clock, lastPaid>>, NothingTaken
  PROVE  command' \in [Procs -> Commands] /\ AllRunWell'
<1>1. Idle \in Commands /\ RunsWell(Idle)'
  BY IdleRunsWell
<1>2. command \in [Procs -> Commands] /\ AllRunWell
  BY DEF EntitlementsInv, TypeOK
<1>3. ASSUME NEW d \in Procs, d # c
      PROVE  command'[d] \in Commands /\ RunsWell(command[d])'
  <2>1. command[d] \in Commands /\ RunsWell(command[d])
    BY <1>2 DEF AllRunWell
  <2>2. /\ command'[d] \in Commands /\ command'[d].at = command[d].at
        /\ command'[d].in = command[d].in /\ command'[d].token = command[d].token
        /\ command'[d].answer = command[d].answer
    <3>1. command'[d] = command[d] \/ command'[d] = [command[d] EXCEPT !.count = 1]
      BY <1>3
    <3> QED
      BY <2>1, <3>1 DEF Commands
  <2>3. ASSUME command[d].at = "write", command[d].answer = "paid"
        PROVE  Granted(command[d])'
    <3>1. command[d].in \in Projects /\ Granted(command[d])
      BY <2>1, <2>3 DEF RunsWell
    <3> QED
      BY <2>2, <3>1 DEF Granted, NothingTaken
  <2> QED
    BY <2>1, <2>2, <2>3 DEF RunsWell
<1>4. command'[c] = Idle
  OBVIOUS
<1>5. \A d \in Procs : command'[d] \in Commands /\ RunsWell(command[d])'
  BY <1>1, <1>3, <1>4
<1> QED
  BY <1>5 DEF AllRunWell

LEMMA DeleteKeeps ==
  ASSUME EntitlementsInv, NEW c \in Procs, Delete(c)
  PROVE  EntitlementsInv'
<1>1. command' \in [Procs -> Commands] /\ AllRunWell'
  <2>1. CASE End(c)
    BY <2>1, EndMoves DEF Delete, EntitlementsInv, TypeOK
  <2>2. ASSUME NEW lost \in SUBSET Rewriting(command[c].in),
               command' = [d \in Procs |-> IF d = c THEN Idle
                                           ELSE IF d \in lost THEN [command[d] EXCEPT !.count = 1]
                                           ELSE command[d]]
        PROVE  command' \in [Procs -> Commands] /\ AllRunWell'
    <3>1. lost \in SUBSET Procs
      BY DEF Rewriting
    <3> QED
      BY <2>2, <3>1, NotesMove DEF Delete, NothingTaken
  <2> QED
    BY <2>1, <2>2 DEF Delete
<1>2. PICK where \in Projects :
        /\ \/ indexed' = [indexed EXCEPT ![where] = FALSE] /\ UNCHANGED created
           \/ /\ created[where] > 0 /\ created' = [created EXCEPT ![where] = @ - 1]
              /\ UNCHANGED indexed
        /\ created \in [Projects -> Nat] /\ FreeLimit \in Nat
    BY DEF Delete, EntitlementsInv, TypeOK, AllRunWell, RunsWell, At
<1>3. created' \in [Projects -> Nat] /\ \A p \in Projects : created'[p] <= created[p]
  BY <1>2
<1>4. StoresAgree'
  BY <1>2, <1>3 DEF Delete, EntitlementsInv, StoresAgree, PaidUpToNow, CacheIsHonest,
                    ComponentsWithinPlan, BackupsWithinPlan
<1>5. TypeOK'
  BY <1>1, <1>2, <1>3 DEF Delete, EntitlementsInv, TypeOK
<1> QED
  BY <1>1, <1>4, <1>5 DEF EntitlementsInv

LEMMA ReadEntryKeeps ==
  ASSUME EntitlementsInv, NEW c \in Procs, ReadEntry(c)
  PROVE  EntitlementsInv'
<1>1. command' \in [Procs -> Commands] /\ AllRunWell'
  BY GotoMoves DEF ReadEntry, At, Labels, EntitlementsInv, TypeOK
<1>2. StoresAgree'
  BY StoresStay DEF ReadEntry, EntitlementsInv
<1>3. TypeOK'
  BY <1>1 DEF ReadEntry, EntitlementsInv, TypeOK, At
<1> QED
  BY <1>1, <1>2, <1>3 DEF EntitlementsInv

\* A row that comes back puts its project beyond the plan.
LEMMA RewriteEntryKeeps ==
  ASSUME EntitlementsInv, NEW c \in Procs, RewriteEntry(c)
  PROVE  EntitlementsInv'
<1> DEFINE where == command[c].in
<1>1. /\ where \in Projects /\ created \in [Projects -> Nat] /\ beyond \in [Projects -> BOOLEAN]
      /\ \/ UNCHANGED <<created, beyond>>
         \/ /\ created' = [created EXCEPT ![where] = @ + 1]
            /\ beyond' = [beyond EXCEPT ![where] = TRUE]
  BY DEF RewriteEntry, EntitlementsInv, TypeOK, AllRunWell, RunsWell, At
<1> HIDE DEF where
<1>2. /\ created' \in [Projects -> Nat] /\ beyond' \in [Projects -> BOOLEAN]
      /\ \A p \in Projects : /\ beyond[p] => beyond'[p]
                             /\ beyond'[p] \/ created'[p] = created[p]
  <2>1. CASE UNCHANGED <<created, beyond>>
    BY <1>1, <2>1
  <2>2. CASE /\ created' = [created EXCEPT ![where] = @ + 1]
             /\ beyond' = [beyond EXCEPT ![where] = TRUE]
    <3>1. created' \in [Projects -> Nat] /\ beyond' \in [Projects -> BOOLEAN]
      BY <1>1, <2>2
    <3>2. \A p \in Projects : IF p = where THEN beyond'[p]
                             ELSE beyond'[p] = beyond[p] /\ created'[p] = created[p]
      BY <1>1, <2>2
    <3> QED
      BY <3>1, <3>2
  <2> QED
    BY <1>1, <2>1, <2>2
<1>3. NothingTaken
  BY <1>2 DEF NothingTaken, RewriteEntry
<1>4. command' \in [Procs -> Commands] /\ AllRunWell'
  BY <1>3, IdleRunsWell, Moves DEF RewriteEntry, End, EntitlementsInv, TypeOK
<1>5. StoresAgree'
  BY <1>2 DEF RewriteEntry, EntitlementsInv, StoresAgree, PaidUpToNow, CacheIsHonest,
              ComponentsWithinPlan, BackupsWithinPlan
<1>6. TypeOK'
  BY <1>2, <1>4 DEF RewriteEntry, EntitlementsInv, TypeOK
<1> QED
  BY <1>4, <1>5, <1>6 DEF EntitlementsInv

LEMMA BackupKeeps ==
  ASSUME EntitlementsInv, NEW c \in Procs, Backup(c)
  PROVE  EntitlementsInv'
<1>1. command' \in [Procs -> Commands] /\ AllRunWell'
  BY EndMoves DEF Backup, EntitlementsInv, TypeOK
<1>2. PICK where \in Projects :
        backups' = backups \union {[created |-> created[where], indexed |-> indexed[where],
                                    beyond |-> beyond[where]]}
  BY DEF Backup, EntitlementsInv, AllRunWell, RunsWell, At
<1>3. BackupsWithinPlan'
  BY <1>2 DEF Backup, EntitlementsInv, StoresAgree, ComponentsWithinPlan, BackupsWithinPlan
<1>4. StoresAgree'
  BY <1>3 DEF Backup, EntitlementsInv, StoresAgree, PaidUpToNow, CacheIsHonest,
              ComponentsWithinPlan
<1>5. TypeOK'
  <2>1. backups' \subseteq Backups
    BY <1>2 DEF EntitlementsInv, TypeOK, Backups
  <2> QED
    BY <1>1, <2>1 DEF Backup, EntitlementsInv, TypeOK
<1> QED
  BY <1>1, <1>4, <1>5 DEF EntitlementsInv

\* The rows of a backup are within the plan, or put their project beyond it.
LEMMA RestoreKeeps ==
  ASSUME EntitlementsInv, NEW c \in Procs, Restore(c)
  PROVE  EntitlementsInv'
<1> DEFINE where == command[c].in
<1>1. PICK b \in backups : /\ created' = [created EXCEPT ![where] = b.created]
                           /\ indexed' = [indexed EXCEPT ![where] = b.indexed]
                           /\ beyond' = [beyond EXCEPT ![where] = @ \/ b.beyond]
  BY DEF Restore
<1>2. /\ where \in Projects /\ created \in [Projects -> Nat] /\ beyond \in [Projects -> BOOLEAN]
      /\ indexed \in [Projects -> BOOLEAN]
      /\ b.created \in Nat /\ b.indexed \in BOOLEAN /\ b.beyond \in BOOLEAN
      /\ b.beyond \/ b.created <= FreeLimit
      /\ \A p \in Projects : beyond[p] \/ created[p] <= FreeLimit
  BY DEF Restore, EntitlementsInv, TypeOK, AllRunWell, RunsWell, At, Backups,
         StoresAgree, BackupsWithinPlan, ComponentsWithinPlan
<1>3. command' = [d \in Procs |->
          IF d = c THEN Idle
          ELSE IF d \in Rewriting(where) THEN [command[d] EXCEPT !.count = 1]
          ELSE command[d]]
  BY DEF Restore
<1>4. Rewriting(where) \in SUBSET Procs
  BY DEF Rewriting
<1> HIDE DEF where
<1>5. /\ created' \in [Projects -> Nat] /\ beyond' \in [Projects -> BOOLEAN]
      /\ indexed' \in [Projects -> BOOLEAN]
      /\ \A p \in Projects : beyond[p] => beyond'[p]
      /\ \A p \in Projects : beyond'[p] \/ created'[p] <= FreeLimit
  BY <1>1, <1>2
<1>6. NothingTaken
  BY <1>5 DEF NothingTaken, Restore
<1>7. command' \in [Procs -> Commands] /\ AllRunWell'
  BY <1>3, <1>4, <1>6, NotesMove DEF Restore
<1>8. StoresAgree'
  BY <1>5 DEF Restore, EntitlementsInv, StoresAgree, PaidUpToNow, CacheIsHonest,
              ComponentsWithinPlan, BackupsWithinPlan
<1>9. TypeOK'
  BY <1>5, <1>7 DEF Restore, EntitlementsInv, TypeOK
<1> QED
  BY <1>7, <1>8, <1>9 DEF EntitlementsInv

\* A log-out completes with no grant of its project on the way, or is not counted on.
LEMMA ClearCacheKeeps ==
  ASSUME EntitlementsInv, NEW c \in Procs, ClearCache(c)
  PROVE  EntitlementsInv'
<1> DEFINE where == command[c].in
<1>1. /\ where \in Projects /\ command \in [Procs -> Commands] /\ AllRunWell
      /\ forgotten \in [Projects -> BOOLEAN]
      /\ cache \in [Projects -> [plan : {"none", "free", "paid"}, at : Nat]]
  BY DEF ClearCache, EntitlementsInv, TypeOK, AllRunWell, RunsWell, At
<1>2. /\ forgotten' = [forgotten EXCEPT ![where] = ~ Answered(where)]
      /\ cache' = [cache EXCEPT ![where] = [plan |-> "free", at |-> 0]]
      /\ command' = [command EXCEPT ![c] = Idle]
      /\ UNCHANGED <<clock, server, session, manifest, started, kills, turns, lastPaid, beyond>>
  BY DEF ClearCache, ClearEntitlements, End
<1>3. Idle \in Commands /\ RunsWell(Idle)'
  BY <1>2, IdleRunsWell
<1>4. ASSUME NEW d \in Procs, d # c
      PROVE  RunsWell(command[d])'
  <2>1. command'[d] = command[d] /\ RunsWell(command[d])
    BY <1>1, <1>2, <1>4 DEF AllRunWell
  <2>2. ASSUME command[d].at = "write", command[d].answer = "paid"
        PROVE  Granted(command[d])'
    <3>1. command[d].in \in Projects /\ Granted(command[d])
      BY <2>1, <2>2 DEF RunsWell
    <3>2. command[d].in = where => Answered(where)
      BY <2>2 DEF Answered, At
    <3>3. ~ forgotten'[command[d].in]
      <4>1. CASE command[d].in = where
        BY <1>1, <1>2, <3>2, <4>1
      <4>2. CASE command[d].in # where
        <5>1. forgotten'[command[d].in] = forgotten[command[d].in]
          BY <1>1, <1>2, <3>1, <4>2
        <5> QED
          BY <3>1, <5>1 DEF Granted
      <4> QED
        BY <4>1, <4>2
    <3> QED
      BY <1>2, <2>1, <3>1, <3>3 DEF Granted
  <2> QED
    BY <1>2, <2>1, <2>2 DEF RunsWell
<1>5. command' \in [Procs -> Commands] /\ AllRunWell'
  <2>1. command' \in [Procs -> Commands] /\ command'[c] = Idle
    BY <1>1, <1>2, <1>3
  <2> QED
    BY <1>3, <1>4, <2>1 DEF AllRunWell
<1>6. forgotten' \in [Projects -> BOOLEAN]
  BY <1>1, <1>2 DEF Answered
<1>7. cache' \in [Projects -> [plan : {"none", "free", "paid"}, at : Nat]]
  BY <1>1, <1>2
<1>8. CacheIsHonest'
  <2> SUFFICES ASSUME NEW p \in Projects, cache'[p].plan = "paid"
               PROVE  cache'[p].at <= lastPaid' /\ beyond'[p] /\ ~ forgotten'[p]
    BY DEF CacheIsHonest
  <2>1. p # where
    BY <1>1, <1>2
  <2>2. cache'[p] = cache[p] /\ forgotten'[p] = forgotten[p]
    BY <1>1, <1>2, <2>1
  <2> QED
    BY <1>2, <2>2 DEF EntitlementsInv, StoresAgree, CacheIsHonest
<1>9. StoresAgree'
  BY <1>2, <1>8 DEF EntitlementsInv, StoresAgree, PaidUpToNow, ComponentsWithinPlan,
                    BackupsWithinPlan
<1>10. TypeOK'
  BY <1>2, <1>5, <1>6, <1>7 DEF EntitlementsInv, TypeOK
<1> QED
  BY <1>5, <1>9, <1>10 DEF EntitlementsInv

LEMMA StartKeeps ==
  ASSUME EntitlementsInv, NEW c \in Procs, Start(c)
  PROVE  EntitlementsInv'
<1>1. command[c] \in Commands /\ RunsWell(command[c]) /\ issued \in Nat
  BY DEF EntitlementsInv, TypeOK, AllRunWell
<1>2. PICK r \in Commands : command' = [command EXCEPT ![c] = r] /\ RunsWell(r)'
  <2>1. PICK cmd \in Mutating \union Unlocked, q \in Projects :
          command' = [command EXCEPT ![c] =
            [Idle EXCEPT !.cmd = cmd, !.in = q,
                         !.at = IF cmd = "tier-status" THEN "refresh" ELSE "start"]]
    BY DEF Start
  <2> DEFINE r == [Idle EXCEPT !.cmd = cmd, !.in = q,
                               !.at = IF cmd = "tier-status" THEN "refresh" ELSE "start"]
  <2>2. r \in Commands /\ r.in = q /\ r.at # "write" /\ r.token = 0
    BY DEF Idle, Commands, Labels
  <2>3. RunsWell(r)'
    BY <1>1, <2>2 DEF RunsWell, Start
  <2> QED
    BY <2>1, <2>2, <2>3
<1>3. command' \in [Procs -> Commands] /\ AllRunWell'
  BY <1>2, Moves DEF Start, NothingTaken
<1>4. StoresAgree'
  BY StoresStay DEF Start, EntitlementsInv
<1>5. TypeOK'
  BY <1>3 DEF Start, EntitlementsInv, TypeOK
<1> QED
  BY <1>3, <1>4, <1>5 DEF EntitlementsInv

LEMMA LoginVerifyKeeps ==
  ASSUME EntitlementsInv, NEW c \in Procs, LoginVerify(c)
  PROVE  EntitlementsInv'
<1>1. command[c] \in Commands /\ RunsWell(command[c]) /\ issued \in Nat
  BY DEF EntitlementsInv, TypeOK, AllRunWell
<1>2. PICK r \in Commands : command' = [command EXCEPT ![c] = r] /\ RunsWell(r)'
  <2>1. CASE End(c) /\ UNCHANGED server
    BY <2>1, IdleRunsWell DEF End
  <2>2. CASE command' = [command EXCEPT ![c].at = "save", ![c].token = issued + 1]
             /\ issued' = issued + 1
    <3>1. PICK r \in Commands : /\ r = [command[c] EXCEPT !.at = "save", !.token = issued + 1]
                                /\ r.at = "save" /\ r.token = issued + 1 /\ r.in = command[c].in
      <4>1. issued + 1 \in Nat
        BY <1>1
      <4>2. [command[c] EXCEPT !.at = "save", !.token = issued + 1] \in Commands
        BY <1>1, <4>1 DEF Commands, Labels
      <4> QED
        BY <1>1, <4>2 DEF Commands
    <3>2. RunsWell(r)'
      BY <1>1, <2>2, <3>1 DEF RunsWell, LoginVerify, At
    <3> QED
      BY <2>2, <3>1, <3>2
  <2> QED
    BY <2>1, <2>2 DEF LoginVerify
<1>3. command' \in [Procs -> Commands] /\ AllRunWell'
  BY <1>2, Moves DEF LoginVerify, NothingTaken
<1>4. StoresAgree'
  BY StoresStay DEF LoginVerify, EntitlementsInv
<1>5. TypeOK'
  <2>1. CASE UNCHANGED server
    BY <1>3, <2>1 DEF LoginVerify, EntitlementsInv, TypeOK
  <2>2. ASSUME NEW a \in Accounts, issued' = issued + 1, UNCHANGED subscribed,
               tokens' = [t \in 1..issued + 1 |-> IF t = issued + 1 THEN a ELSE tokens[t]]
        PROVE  TypeOK'
    <3>1. tokens' \in [1..issued' -> Accounts \union {None}]
      BY <1>1, <2>2 DEF EntitlementsInv, TypeOK
    <3>2. session' \in 0..issued' /\ issued' \in Nat
      BY <1>1, <2>2 DEF LoginVerify, EntitlementsInv, TypeOK
    <3> QED
      BY <1>3, <2>2, <3>1, <3>2 DEF LoginVerify, EntitlementsInv, TypeOK
  <2> QED
    BY <2>1, <2>2 DEF LoginVerify
<1> QED
  BY <1>3, <1>4, <1>5 DEF EntitlementsInv

LEMMA RefreshKeeps ==
  ASSUME EntitlementsInv, NEW c \in Procs, Refresh(c)
  PROVE  EntitlementsInv'
<1>1. command[c] \in Commands /\ RunsWell(command[c]) /\ issued \in Nat
  BY DEF EntitlementsInv, TypeOK, AllRunWell
<1>2. PICK r \in Commands : command' = [command EXCEPT ![c] = r] /\ RunsWell(r)'
  <2>1. CASE End(c)
    BY <2>1, IdleRunsWell DEF End, Refresh
  <2>2. CASE command' = [command EXCEPT ![c].at = "ask", ![c].token = session]
    <3>1. session \in 0..issued
      BY DEF EntitlementsInv, TypeOK
    <3>2. PICK r \in Commands : /\ r = [command[c] EXCEPT !.at = "ask", !.token = session]
                                /\ r.at = "ask" /\ r.token = session /\ r.in = command[c].in
      <4>1. session \in Nat
        BY <1>1, <3>1
      <4>2. [command[c] EXCEPT !.at = "ask", !.token = session] \in Commands
        BY <1>1, <4>1 DEF Commands, Labels
      <4> QED
        BY <1>1, <4>2 DEF Commands
    <3>3. RunsWell(r)'
      BY <1>1, <3>1, <3>2 DEF RunsWell, Refresh, At
    <3> QED
      BY <2>2, <3>2, <3>3
  <2> QED
    BY <2>1, <2>2 DEF Refresh
<1>3. command' \in [Procs -> Commands] /\ AllRunWell'
  BY <1>2, Moves DEF Refresh, NothingTaken
<1>4. StoresAgree'
  BY StoresStay DEF Refresh, EntitlementsInv
<1>5. TypeOK'
  BY <1>3 DEF Refresh, EntitlementsInv, TypeOK
<1> QED
  BY <1>3, <1>4, <1>5 DEF EntitlementsInv

\* What is granted is on its way, and was granted after every log-out.
LEMMA AnswerKeeps ==
  ASSUME EntitlementsInv, NEW c \in Procs, Answer(c)
  PROVE  EntitlementsInv'
<1> DEFINE plan == PlanOf(command[c].token)
           where == command[c].in
<1>1. command[c] \in Commands /\ RunsWell(command[c]) /\ issued \in Nat
      /\ forgotten \in [Projects -> BOOLEAN] /\ beyond \in [Projects -> BOOLEAN]
  BY DEF EntitlementsInv, TypeOK, AllRunWell
<1>2. where \in Projects
  BY <1>1 DEF RunsWell, Answer, At
<1>3. plan \in {"paid", "free"} /\ (plan = "paid" => lastPaid = clock)
  BY DEF PlanOf, EntitlementsInv, StoresAgree, PaidUpToNow
<1>4. /\ forgotten' = [forgotten EXCEPT ![where] = @ /\ plan # "paid"]
      /\ beyond' = [beyond EXCEPT ![where] = @ \/ plan = "paid"]
      /\ command' = [command EXCEPT ![c].at = "write", ![c].answer = plan]
      /\ UNCHANGED <<clock, server, session, cache, manifest, started, kills, turns, lastPaid>>
  BY DEF Answer
<1>5. PICK r \in Commands :
        /\ r = [command[c] EXCEPT !.at = "write", !.answer = plan]
        /\ r.answer = plan /\ r.token = command[c].token /\ r.in = where
  <2>1. [command[c] EXCEPT !.at = "write", !.answer = plan] \in Commands
    BY <1>1, <1>3 DEF Commands, Labels
  <2> QED
    BY <1>1, <2>1 DEF Commands
<1> HIDE DEF plan, where
<1>6. /\ forgotten' \in [Projects -> BOOLEAN] /\ beyond' \in [Projects -> BOOLEAN]
      /\ plan = "paid" => ~ forgotten'[where] /\ beyond'[where]
      /\ \A p \in Projects : (beyond[p] => beyond'[p]) /\ (forgotten'[p] => forgotten[p])
  BY <1>1, <1>2, <1>4
<1>7. NothingTaken
  BY <1>6 DEF NothingTaken
<1>8. RunsWell(r)'
  <2>1. r.in \in Projects /\ r.token \in 0..issued'
    BY <1>1, <1>2, <1>4, <1>5 DEF RunsWell
  <2>2. r.answer = "paid" => Granted(r)'
    BY <1>3, <1>4, <1>5, <1>6 DEF Granted
  <2> QED
    BY <2>1, <2>2 DEF RunsWell
<1>9. command' \in [Procs -> Commands] /\ AllRunWell'
  BY <1>4, <1>5, <1>7, <1>8, Moves
<1>10. StoresAgree'
  BY <1>4, <1>6 DEF EntitlementsInv, StoresAgree, PaidUpToNow, CacheIsHonest,
                    ComponentsWithinPlan, BackupsWithinPlan
<1>11. TypeOK'
  BY <1>4, <1>6, <1>9 DEF EntitlementsInv, TypeOK
<1> QED
  BY <1>9, <1>10, <1>11 DEF EntitlementsInv

LEMMA CreateStartKeeps ==
  ASSUME EntitlementsInv, NEW c \in Procs, CreateStart(c)
  PROVE  EntitlementsInv'
<1>1. command[c] \in Commands /\ RunsWell(command[c]) /\ issued \in Nat
  BY DEF EntitlementsInv, TypeOK, AllRunWell
<1>2. PICK r \in Commands : command' = [command EXCEPT ![c] = r] /\ RunsWell(r)'
  <2>1. Count(command[c].in) \in Nat
    <3>1. command[c].in \in Projects /\ created \in [Projects -> Nat]
      BY <1>1 DEF RunsWell, CreateStart, At, EntitlementsInv, TypeOK
    <3> QED
      BY <3>1 DEF Count
  <2>2. PICK r \in Commands :
          /\ r = [command[c] EXCEPT !.at = "register", !.count = Count(command[c].in)]
          /\ r.at = "register" /\ r.token = command[c].token /\ r.in = command[c].in
    <3>1. [command[c] EXCEPT !.at = "register", !.count = Count(command[c].in)] \in Commands
      BY <1>1, <2>1 DEF Commands, Labels
    <3> QED
      BY <1>1, <3>1 DEF Commands
  <2>3. RunsWell(r)'
    BY <1>1, <2>2 DEF RunsWell, CreateStart, At
  <2> QED
    BY <2>2, <2>3 DEF CreateStart
<1>3. command' \in [Procs -> Commands] /\ AllRunWell'
  BY <1>2, Moves DEF CreateStart, NothingTaken
<1>4. StoresAgree'
  BY StoresStay DEF CreateStart, EntitlementsInv
<1>5. TypeOK'
  BY <1>3 DEF CreateStart, EntitlementsInv, TypeOK
<1> QED
  BY <1>3, <1>4, <1>5 DEF EntitlementsInv

LEMMA WriteCacheKeeps ==
  ASSUME EntitlementsInv, NEW c \in Procs, WriteCache(c)
  PROVE  EntitlementsInv'
<1>1. command' \in [Procs -> Commands] /\ AllRunWell'
  BY EndMoves DEF WriteCache, EntitlementsInv, TypeOK
<1>2. PICK where \in Projects, answer \in {"none", "free", "paid"} :
        /\ cache' = [cache EXCEPT ![where] = [plan |-> answer, at |-> clock]]
        /\ answer = "paid" => lastPaid = clock /\ beyond[where] /\ ~ forgotten[where]
  BY DEF WriteCache, At, EntitlementsInv, TypeOK, Commands, AllRunWell, RunsWell, Granted
<1>3. cache' \in [Projects -> [plan : {"none", "free", "paid"}, at : Nat]]
  <2>1. [plan |-> answer, at |-> clock] \in [plan : {"none", "free", "paid"}, at : Nat]
    BY DEF EntitlementsInv, TypeOK
  <2> QED
    BY <1>2, <2>1 DEF EntitlementsInv, TypeOK
<1>4. CacheIsHonest'
  <2>1. /\ cache \in [Projects -> [plan : {"none", "free", "paid"}, at : Nat]]
        /\ clock \in Nat /\ lastPaid' = lastPaid /\ beyond' = beyond /\ forgotten' = forgotten
    BY DEF EntitlementsInv, TypeOK, WriteCache
  <2>2. ASSUME NEW p \in Projects, cache'[p].plan = "paid"
        PROVE  cache'[p].at <= lastPaid' /\ beyond'[p] /\ ~ forgotten'[p]
    <3>1. CASE p = where
      <4>1. cache'[p] = [plan |-> answer, at |-> clock]
        BY <1>2, <2>1, <3>1
      <4>2. answer = "paid" /\ cache'[p].at = clock
        BY <2>2, <4>1
      <4> QED
        BY <1>2, <2>1, <3>1, <4>2
    <3>2. CASE p # where
      BY <1>2, <2>1, <2>2, <3>2 DEF EntitlementsInv, StoresAgree, CacheIsHonest
    <3> QED
      BY <3>1, <3>2
  <2> QED
    BY <2>2 DEF CacheIsHonest
<1>5. StoresAgree'
  BY <1>4 DEF WriteCache, EntitlementsInv, StoresAgree, PaidUpToNow, ComponentsWithinPlan,
              BackupsWithinPlan
<1>6. TypeOK'
  BY <1>1, <1>3 DEF WriteCache, EntitlementsInv, TypeOK
<1> QED
  BY <1>1, <1>5, <1>6 DEF EntitlementsInv

\* Whoever's subscription begins or ends, it has been paid up to this hour.
LEMMA TurnKeeps ==
  ASSUME EntitlementsInv, Turn
  PROVE  EntitlementsInv'
<1>1. TypeOK'
  BY DEF Turn, EntitlementsInv, TypeOK
<1>2. AllRunWell'
  BY DEF Turn, EntitlementsInv, AllRunWell, RunsWell, Granted
<1>3. StoresAgree'
  BY DEF Turn, EntitlementsInv, TypeOK, StoresAgree, PaidUpToNow, CacheIsHonest,
         ComponentsWithinPlan, BackupsWithinPlan
<1> QED
  BY <1>1, <1>2, <1>3 DEF EntitlementsInv

\* No answer is on its way when an hour passes.
LEMMA TickKeeps ==
  ASSUME EntitlementsInv, Tick
  PROVE  EntitlementsInv'
<1>1. TypeOK'
  BY DEF Tick, EntitlementsInv, TypeOK
<1>2. AllRunWell'
  BY DEF Tick, EntitlementsInv, AllRunWell, RunsWell, At
<1>3. StoresAgree'
  BY DEF Tick, EntitlementsInv, TypeOK, StoresAgree, PaidUpToNow, CacheIsHonest,
         ComponentsWithinPlan, BackupsWithinPlan
<1> QED
  BY <1>1, <1>2, <1>3 DEF EntitlementsInv

LEMMA EntitlementsStep ==
  ASSUME EntitlementsInv, [Next]_vars
  PROVE  EntitlementsInv'
<1>1. CASE UNCHANGED vars
  BY <1>1 DEF vars, EntitlementsInv, TypeOK, AllRunWell, RunsWell, Granted, StoresAgree,
              PaidUpToNow, CacheIsHonest, ComponentsWithinPlan, BackupsWithinPlan
<1>2. CASE Turn \/ Tick
  BY <1>2, TurnKeeps, TickKeeps
<1>3. ASSUME NEW c \in Procs, Start(c) \/ Kill(c) \/ Step(c)
      PROVE  EntitlementsInv'
  BY <1>3, StartKeeps, KillKeeps, LoginStartKeeps, LoginVerifyKeeps, SaveSessionKeeps,
     RefreshKeeps, NoAnswerKeeps, AnswerKeeps, WriteCacheKeeps, LogoutStartKeeps,
     ClearSessionKeeps, ClearCacheKeeps, CreateStartKeeps, RegisterKeeps, IndexKeeps,
     DeleteKeeps, ReadEntryKeeps, RewriteEntryKeeps, BackupKeeps, RestoreKeeps DEF Step
<1> QED
  BY <1>1, <1>2, <1>3 DEF Next

-----------------------------------------------------------------------------
(* The theorems.                                                           *)

\* The strengthened invariant of the entitlements holds in every reachable state
\* (refreshEntitlements, getEntitlements, clearEntitlementsCache).
THEOREM EntitlementsInductive == Spec => []EntitlementsInv
<1>1. EntitlementsInv /\ [Next]_vars => EntitlementsInv'
  BY EntitlementsStep
<1> QED
  BY <1>1, EntitlementsInit, PTL DEF Spec

\* No project is served the paid plan for longer than the freshness or the grace after
\* the last account lost it, whatever the server answers (getEntitlements).
THEOREM PlansLapse == Spec => []LapsesWithinGrace
<1>1. EntitlementsInv => LapsesWithinGrace
  <2> SUFFICES ASSUME EntitlementsInv, NEW p \in Projects, Paid(p)
               PROVE  clock <= lastPaid + (IF Ttl > Grace THEN Ttl ELSE Grace)
    BY DEF LapsesWithinGrace
  <2>1. cache[p].at \in Nat /\ cache[p].at <= lastPaid /\ clock \in Nat /\ lastPaid \in Nat
    BY DEF EntitlementsInv, TypeOK, StoresAgree, CacheIsHonest, Paid
  <2>2. clock - cache[p].at <= Ttl \/ clock - cache[p].at <= Grace
    BY DEF Paid, InGrace, Age
  <2> QED
    BY <2>1, <2>2
<1> QED
  BY <1>1, EntitlementsInductive, PTL

\* After a log-out in a project the paid plan is served there only when the server granted it
\* afterwards, or before to a refresh that the log-out overtook (clearEntitlementsCache).
THEOREM LogoutsForget == Spec => []LogoutForgets
<1>1. EntitlementsInv => LogoutForgets
  BY DEF EntitlementsInv, StoresAgree, CacheIsHonest, LogoutForgets, Paid
<1> QED
  BY <1>1, EntitlementsInductive, PTL

\* However many creates overlap, a project without a grant, the rows of one that had it or a
\* row that came back stays within the free plan (writeManifestWithLimitCheck).
THEOREM LimitsHold == Spec => []ComponentsWithinPlan
<1>1. EntitlementsInv => ComponentsWithinPlan
  BY DEF EntitlementsInv, StoresAgree
<1> QED
  BY <1>1, EntitlementsInductive, PTL
=============================================================================
