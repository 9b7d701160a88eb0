------------------------- MODULE ManifestGraphProofs -------------------------
(***************************************************************************)
(* What the commands keep of the manifest, for any number of processes,    *)
(* components, commands and crashes, as long as no reconciliation works    *)
(* beside another process: nothing committed is clobbered and nothing      *)
(* deleted comes back and, until somebody is killed, the lists of          *)
(* dependencies and of dependents agree between commands.                  *)
(***************************************************************************)
EXTENDS ManifestGraph, TLAPS

USE NoneAssumption, BoundAssumption
USE DEF tables, work, loop, counters

Loops == {"add", "unlink", "unrefer", "cascade"}
Linking == {"link", "linked", "add"}
Unreferring == {"unrefer", "remove"}
Halfway == Linking \union {"unlink"} \union Unreferring
Anyones == {"idle", "reconcile", "cascade", "end"}

\* A command that runs holds the lock, and there is one process at work.
OneAtWork ==
    \A p \in Procs :
        /\ pc[p] # "idle" => \A q \in Procs \ {p} : pc[q] = "idle"
        /\ number[p] # 0 => lock = p
        /\ pc[p] \notin Anyones => about[p] \in Comps
        /\ pc[p] \notin Anyones \union {"landed"} => number[p] # 0
        /\ pc[p] \in {"commit", "complete", "landed"} => change[p] \in Change

\* What a process has read and is about to write back is what the table still holds.
CopyFresh(p) ==
    /\ pc[p] \in {"linked", "journal", "commit", "complete", "baseline", "landed"} =>
           about[p] \in DOMAIN rows /\ entry[p] = rows[about[p]]
    /\ at[p] # None => pc[p] \in Loops /\ at[p] \in DOMAIN rows /\ copy[p] = rows[at[p]]
    /\ pc[p] = "planned" => about[p] \notin DOMAIN rows
    /\ pc[p] = "import" => backup # None

CopiesFresh == \A p \in Procs : CopyFresh(p)

\* The graph as it is between commands.
Closed(t) ==
    \A c \in DOMAIN t :
        Linked(t[c]) \subseteq DOMAIN t \ {c} /\ t[c].dependents \subseteq DOMAIN t \ {c}
Whole(t) ==
    Closed(t) /\ \A c, d \in DOMAIN t : d \in Linked(t[c]) <=> c \in t[d].dependents

\* The components that a command still has to visit in the loop it is in.
Pending(p) == todo[p] \union ({at[p]} \ {None})

\* A create has still to tell the pending dependencies of their dependent; until it
\* looks, those that are not there are among the pending ones.
HalfLinked(p) ==
    /\ about[p] \in DOMAIN rows /\ Closed(rows)
    /\ Pending(p) \subseteq rows[about[p]].deps
    /\ pc[p] = "link" => rows[about[p]].loose \intersect DOMAIN rows \subseteq {about[p]}
    /\ pc[p] # "link" => Pending(p) \subseteq Linked(rows[about[p]])
    /\ \A c, d \in DOMAIN rows :
           d \in Linked(rows[c]) <=>
               \/ c \in rows[d].dependents
               \/ c = about[p] /\ d # about[p] /\ d \in Pending(p)

\* A delete has still to take the component away from the pending dependencies.
HalfUnlinked(p) ==
    /\ about[p] \in DOMAIN rows /\ Closed(rows)
    /\ entry[p] = rows[about[p]] /\ Pending(p) \subseteq entry[p].deps
    /\ \A c, d \in DOMAIN rows :
           IF c = about[p] THEN c \in rows[d].dependents => d \in Pending(p)
                           ELSE d \in Linked(rows[c]) <=> c \in rows[d].dependents

\* A forced delete has still to strip its reference from the pending dependents.
HalfUnreferred(p) ==
    /\ about[p] \in DOMAIN rows /\ Closed(rows)
    /\ Pending(p) \subseteq DOMAIN rows \ {about[p]}
    /\ pc[p] = "remove" => Pending(p) = {}
    /\ \A c \in DOMAIN rows :
           /\ about[p] \notin rows[c].dependents
           /\ about[p] \in Linked(rows[c]) => c \in Pending(p)
    /\ \A c, d \in DOMAIN rows \ {about[p]} :
           d \in Linked(rows[c]) <=> c \in rows[d].dependents

\* The graph as a process that runs has left it so far.
GraphAt(p) ==
    /\ pc[p] \in Linking => HalfLinked(p)
    /\ pc[p] = "unlink" => HalfUnlinked(p)
    /\ pc[p] \in Unreferring => HalfUnreferred(p)
    /\ pc[p] \notin Halfway => Whole(rows)

BackupWhole == backup # None => Whole(backup.rows)

\* A process that is killed halfway leaves the graph as it is.
GraphKept ==
    crashes = 0 =>
        /\ BackupWhole
        /\ Quiet => Whole(rows)
        /\ \A p \in Procs : pc[p] # "idle" => GraphAt(p)

GraphInv == TypeOK /\ OneAtWork /\ CopiesFresh /\ GraphKept

-----------------------------------------------------------------------------
(* While a process works the others are idle, so that only its own part of *)
(* the invariant is at stake.                                              *)

LEMMA OthersIdle ==
  ASSUME GraphInv, NEW p \in Procs, pc[p] # "idle", NEW q \in Procs, q # p
  PROVE  pc[q] = "idle" /\ at[q] = None
BY DEF GraphInv, OneAtWork, CopiesFresh, CopyFresh, Loops

\* What a process knows of its own work.
Known(p) ==
    /\ number[p] # 0 => lock = p
    /\ pc[p] \notin Anyones => about[p] \in Comps
    /\ pc[p] \notin Anyones \union {"landed"} => number[p] # 0
    /\ pc[p] \in {"commit", "complete", "landed"} => change[p] \in Change

LEMMA OneStep ==
  ASSUME GraphInv, NEW p \in Procs, pc[p] # "idle",
         UNCHANGED <<lock, number, crashes>>, pc'[p] # "idle",
         \A q \in Procs \ {p} : pc'[q] = pc[q] /\ at'[q] = at[q],
         TypeOK', Known(p)', CopyFresh(p)',
         crashes = 0 => GraphAt(p)' /\ BackupWhole'
  PROVE  GraphInv'
<1>1. \A q \in Procs \ {p} : pc'[q] = "idle" /\ at'[q] = None
  BY OthersIdle
<1>2. OneAtWork'
  BY <1>1 DEF GraphInv, OneAtWork, Known, Anyones
<1>3. CopiesFresh'
  BY <1>1 DEF CopiesFresh, CopyFresh
<1>4. GraphKept'
  BY <1>1 DEF GraphKept, Quiet, AtWork
<1> QED
  BY <1>2, <1>3, <1>4 DEF GraphInv

\* Most steps do not touch what a process knows of its work but for where it stands.
LEMMA StillKnown ==
  ASSUME GraphInv, NEW p \in Procs, UNCHANGED <<lock, about, number, change>>,
         \/ pc'[p] \in Anyones
         \/ pc'[p] = pc[p]
         \/ pc[p] \notin Anyones \union {"landed"}
            /\ pc'[p] \notin {"commit", "complete", "landed"}
         \/ pc[p] = "commit" /\ pc'[p] = "complete"
  PROVE  Known(p)'
BY DEF GraphInv, OneAtWork, Known, Anyones

LEMMA UpsertTyped ==
  ASSUME Table(rows), NEW c \in Comps, NEW r \in Row, rows' = Upsert(c, r)
  PROVE  /\ Table(rows') /\ DOMAIN rows' = DOMAIN rows \union {c}
         /\ rows'[c] = r /\ \A d \in DOMAIN rows \ {c} : rows'[d] = rows[d]
BY DEF Table, Upsert

\* A write that leaves the lists of every row alone leaves the graph alone.
LEMMA SameGraph ==
  ASSUME Whole(rows), DOMAIN rows' = DOMAIN rows,
         \A d \in DOMAIN rows : /\ Linked(rows'[d]) = Linked(rows[d])
                                /\ rows'[d].dependents = rows[d].dependents
  PROVE  Whole(rows)'
BY DEF Whole, Closed

-----------------------------------------------------------------------------
(* A command or a reconciliation begins, ends or is killed.                *)

LEMMA GraphInit == Init => GraphInv
<1> SUFFICES ASSUME Init PROVE GraphInv
  OBVIOUS
<1>1. TypeOK
  <2>1. NoRow \in Row
    BY DEF NoRow, Row
  <2>2. Table(rows)
    BY DEF Init, Table
  <2>3. beside \in BOOLEAN /\ journal \subseteq Change
    BY Zenon DEF Init
  <2>4. /\ queue \in [Procs -> SUBSET Change] /\ change \in [Procs -> Change \union {None}]
        /\ todo \in [Procs -> SUBSET Comps] /\ pc \in [Procs -> Labels]
    BY DEF Init, Labels
  <2>5. /\ about \in [Procs -> Comps \union {None}] /\ at \in [Procs -> Comps \union {None}]
        /\ number \in [Procs -> 0..MaxCommands]
        /\ entry \in [Procs -> Row] /\ copy \in [Procs -> Row]
    BY <2>1 DEF Init
  <2>6. /\ commands \in 0..MaxCommands /\ crashes \in 0..MaxCrashes
        /\ lock \in Procs \union {None} /\ backup = None
    BY DEF Init
  <2> QED
    BY <2>2, <2>3, <2>4, <2>5, <2>6 DEF TypeOK
<1>2. OneAtWork /\ CopiesFresh
  BY DEF Init, OneAtWork, CopiesFresh, CopyFresh, Anyones
<1>3. GraphKept
  BY DEF Init, GraphKept, BackupWhole, Whole, Closed
<1> QED
  BY <1>1, <1>2, <1>3 DEF GraphInv

\* Who meets nobody at work, or only finds the lock free, starts alone.
LEMMA BeginKeeps ==
  ASSUME GraphInv, NEW p \in Procs, Begin(p), ~ beside'
  PROVE  GraphInv'
<1>1. \A q \in Procs : pc[q] = "idle" /\ at[q] = None
  BY DEF Begin, LockFree, Reconciling, GraphInv, OneAtWork, CopiesFresh, CopyFresh, Loops
<1>2. /\ pc' \in [Procs -> Labels] /\ \A q \in Procs \ {p} : pc'[q] = "idle"
      /\ pc'[p] \in {"create", "delete", "force_delete", "modify", "accept", "export", "restore"}
  BY <1>1 DEF Begin, Goto, GraphInv, TypeOK, Labels
<1>3. /\ about' \in [Procs -> Comps \union {None}] /\ about'[p] \in Comps
      /\ \A q \in Procs \ {p} : number[q] = 0 /\ number'[q] = 0
  BY DEF Begin, LockFree, GraphInv, OneAtWork, TypeOK
<1>4. number' \in [Procs -> 0..MaxCommands] /\ number'[p] # 0 /\ commands' \in 0..MaxCommands
  BY DEF Begin, GraphInv, TypeOK
<1>5. TypeOK'
  BY <1>2, <1>3, <1>4 DEF Begin, GraphInv, TypeOK
<1>6. OneAtWork'
  BY <1>2, <1>3, <1>4 DEF Begin, OneAtWork, Anyones
<1>7. CopiesFresh'
  BY <1>1, <1>2 DEF Begin, CopiesFresh, CopyFresh
<1>8. GraphKept'
  BY <1>1, <1>2 DEF Begin, GraphInv, GraphKept, GraphAt, BackupWhole, Quiet, AtWork,
     Linking, Unreferring, Halfway
<1> QED
  BY <1>5, <1>6, <1>7, <1>8 DEF GraphInv

LEMMA ReconcileKeeps ==
  ASSUME GraphInv, NEW p \in Procs, Reconcile(p), ~ beside'
  PROVE  GraphInv'
<1>1. \A q \in Procs : pc[q] = "idle" /\ at[q] = None
  BY DEF Reconcile, AtWork, GraphInv, CopiesFresh, CopyFresh, Loops
<1>2. /\ pc' \in [Procs -> Labels] /\ \A q \in Procs \ {p} : pc'[q] = "idle"
      /\ pc'[p] = "reconcile"
  BY <1>1 DEF Reconcile, Goto, GraphInv, TypeOK, Labels
<1>3. commands' \in 0..MaxCommands /\ queue' \in [Procs -> SUBSET Change]
  BY DEF Reconcile, GraphInv, TypeOK
<1>4. TypeOK'
  BY <1>2, <1>3 DEF Reconcile, GraphInv, TypeOK
<1>5. OneAtWork'
  BY <1>2 DEF Reconcile, GraphInv, OneAtWork, Anyones
<1>6. CopiesFresh'
  BY <1>1, <1>2 DEF Reconcile, CopiesFresh, CopyFresh
<1>7. GraphKept'
  BY <1>1, <1>2 DEF Reconcile, GraphInv, GraphKept, GraphAt, BackupWhole, Quiet, AtWork,
     Linking, Unreferring, Halfway
<1> QED
  BY <1>4, <1>5, <1>6, <1>7 DEF GraphInv

\* A process that ends, or is killed, leaves nothing behind but the tables.
LEMMA Forgotten ==
  ASSUME GraphInv, NEW p \in Procs, pc[p] # "idle", Forget(p),
         UNCHANGED <<tables, commands, beside>>, crashes' \in 0..MaxCrashes
  PROVE  /\ TypeOK' /\ OneAtWork' /\ CopiesFresh'
         /\ \A q \in Procs : pc'[q] = "idle"
<1>1. NoRow \in Row
  BY DEF NoRow, Row
<1>2. /\ pc' = [pc EXCEPT ![p] = "idle"] /\ at' = [at EXCEPT ![p] = None]
      /\ pc \in [Procs -> Labels] /\ at \in [Procs -> Comps \union {None}]
      /\ number' = [number EXCEPT ![p] = 0] /\ number \in [Procs -> 0..MaxCommands]
  BY DEF Forget, Goto, GraphInv, TypeOK
<1>3. \A q \in Procs : pc'[q] = "idle" /\ at'[q] = None
  BY <1>2, OthersIdle
<1>4. TypeOK'
  <2>1. lock' \in Procs \union {None} /\ todo' \in [Procs -> SUBSET Comps]
    BY DEF Forget, Work, GraphInv, TypeOK
  <2>2. /\ about' \in [Procs -> Comps \union {None}] /\ at' \in [Procs -> Comps \union {None}]
        /\ number' \in [Procs -> 0..MaxCommands] /\ pc' \in [Procs -> Labels]
    BY <1>2 DEF Forget, GraphInv, TypeOK, Labels
  <2>3. entry' \in [Procs -> Row] /\ copy' \in [Procs -> Row]
    BY <1>1 DEF Forget, GraphInv, TypeOK
  <2>4. queue' \in [Procs -> SUBSET Change] /\ change' \in [Procs -> Change \union {None}]
    BY DEF Forget, GraphInv, TypeOK
  <2> QED
    BY <2>1, <2>2, <2>3, <2>4 DEF GraphInv, TypeOK
<1>5. OneAtWork'
  BY <1>2, <1>3 DEF Forget, GraphInv, OneAtWork, Anyones
<1>6. CopiesFresh'
  BY <1>3 DEF CopiesFresh, CopyFresh
<1> QED
  BY <1>3, <1>4, <1>5, <1>6

LEMMA EndKeeps ==
  ASSUME GraphInv, NEW p \in Procs, End(p)
  PROVE  GraphInv'
<1>1. /\ TypeOK' /\ OneAtWork' /\ CopiesFresh'
      /\ \A q \in Procs : pc'[q] = "idle"
  BY Forgotten DEF End, GraphInv, TypeOK
<1>2. GraphKept'
  BY <1>1 DEF End, GraphInv, GraphKept, GraphAt, BackupWhole, Linking, Unreferring, Halfway
<1> QED
  BY <1>1, <1>2 DEF GraphInv

LEMMA CrashKeeps ==
  ASSUME GraphInv, NEW p \in Procs, Crash(p)
  PROVE  GraphInv'
<1>1. crashes' \in 0..MaxCrashes /\ crashes' # 0
  BY DEF Crash, GraphInv, TypeOK
<1>2. TypeOK' /\ OneAtWork' /\ CopiesFresh'
  BY <1>1, Forgotten DEF Crash
<1>3. GraphKept'
  BY <1>1 DEF GraphKept
<1> QED
  BY <1>2, <1>3 DEF GraphInv

-----------------------------------------------------------------------------
(* create                                                                  *)

USE DEF Goto, Work, Exists

LEMMA CheckNewKeeps ==
  ASSUME GraphInv, NEW p \in Procs, CheckNew(p)
  PROVE  GraphInv'
<1>1. pc'[p] \in {"planned", "end"} /\ pc[p] = "create"
  BY DEF CheckNew, GraphInv, TypeOK
<1>2. TypeOK'
  BY DEF CheckNew, GraphInv, TypeOK, Labels
<1>3. CopyFresh(p)'
  BY <1>1 DEF CheckNew, GraphInv, TypeOK, CopiesFresh, CopyFresh, Loops
<1>4. crashes = 0 => GraphAt(p)' /\ BackupWhole'
  BY <1>1 DEF CheckNew, GraphInv, GraphKept, GraphAt, BackupWhole, Linking, Unreferring, Halfway
<1>5. Known(p)'
  BY <1>1, StillKnown DEF CheckNew, Anyones
<1> QED
  BY <1>1, <1>2, <1>3, <1>4, <1>5, OneStep DEF CheckNew, GraphInv, TypeOK

LEMMA RegisterKeeps ==
  ASSUME GraphInv, NEW p \in Procs, Register(p)
  PROVE  GraphInv'
<1>0. /\ pc[p] = "planned" /\ about[p] \in Comps /\ about[p] \notin DOMAIN rows
      /\ at[p] = None /\ Table(rows)
  BY DEF Register, GraphInv, OneAtWork, CopiesFresh, CopyFresh, TypeOK, Loops, Anyones
<1> PICK plan \in SUBSET Comps :
        /\ rows' = Upsert(about[p], [NoRow EXCEPT !.version = 1, !.deps = plan,
                                                  !.loose = Unlinked(about[p], plan)])
        /\ todo' = [todo EXCEPT ![p] = plan]
        /\ pc' = [pc EXCEPT ![p] = IF plan = {} THEN "end" ELSE "link"]
  BY DEF Register
<1> DEFINE c0 == about[p]
           r == [NoRow EXCEPT !.version = 1, !.deps = plan, !.loose = Unlinked(c0, plan)]
<1>1. /\ r \in Row /\ r.deps = plan /\ r.loose = plan \ (DOMAIN rows \ {c0})
      /\ r.dependents = {}
  BY <1>0 DEF Table, NoRow, Row, Unlinked
<1>2. /\ pc'[p] = IF plan = {} THEN "end" ELSE "link"
      /\ todo'[p] = plan /\ at'[p] = None /\ about'[p] = c0
  BY <1>0 DEF Register, GraphInv, TypeOK
<1> HIDE DEF r
<1>3. /\ Table(rows') /\ DOMAIN rows' = DOMAIN rows \union {c0}
      /\ rows'[c0] = r /\ \A d \in DOMAIN rows : rows'[d] = rows[d]
  <2>1. rows' = Upsert(c0, r)
    BY DEF r
  <2> QED
    BY <1>0, <1>1, <2>1, UpsertTyped
<1>4. TypeOK'
  BY <1>1, <1>3 DEF Register, GraphInv, TypeOK, Labels
<1>5. CopyFresh(p)'
  BY <1>2 DEF CopyFresh
<1>6. ASSUME crashes = 0
      PROVE  GraphAt(p)' /\ BackupWhole'
  <2>1. Whole(rows) /\ BackupWhole'
    BY <1>0, <1>6 DEF Register, GraphInv, GraphKept, GraphAt, BackupWhole,
       Linking, Unreferring, Halfway
  <2>0. \A d : d \in Linked(rows'[c0]) <=> d \in plan /\ d \in DOMAIN rows
    BY <1>0, <1>1, <1>3 DEF Linked
  <2>8. /\ \A c \in DOMAIN rows : /\ Linked(rows'[c]) = Linked(rows[c])
                                   /\ rows'[c].dependents = rows[c].dependents
        /\ rows'[c0].dependents = {}
    BY <1>1, <1>3
  <2> HIDE DEF c0
  <2>2. Closed(rows')
    BY <1>0, <1>3, <2>0, <2>1, <2>8 DEF Whole, Closed
  <2>3. \A c, d \in DOMAIN rows' :
           d \in Linked(rows'[c]) <=> \/ c \in rows'[d].dependents
                                      \/ c = c0 /\ d # c0 /\ d \in plan
    <3> TAKE c, d \in DOMAIN rows'
    <3>1. CASE c = c0
      BY <1>0, <1>3, <2>0, <2>1, <2>8, <3>1 DEF Whole, Closed
    <3>2. CASE c # c0 /\ d = c0
      BY <1>0, <1>3, <2>0, <2>1, <2>8, <3>2 DEF Whole, Closed
    <3>3. CASE c # c0 /\ d # c0
      BY <1>0, <1>3, <2>1, <2>8, <3>3 DEF Whole
    <3> QED
      BY <3>1, <3>2, <3>3
  <2>4. Pending(p)' = plan
    BY <1>2 DEF Pending
  <2>7. r.loose \intersect DOMAIN rows' \subseteq {c0}
    BY <1>1, <1>3
  <2>5. plan # {} => HalfLinked(p)'
    BY <1>1, <1>2, <1>3, <2>2, <2>3, <2>4, <2>7 DEF HalfLinked, c0
  <2>6. plan = {} => Whole(rows)'
    BY <2>2, <2>3 DEF Whole
  <2> QED
    BY <1>2, <2>1, <2>5, <2>6 DEF GraphAt, Linking, Unreferring, Halfway
<1>7. Known(p)'
  BY <1>0, <1>2, StillKnown DEF Register, Anyones
<1> QED
  BY <1>0, <1>2, <1>4, <1>5, <1>6, <1>7, OneStep DEF Register, GraphInv, TypeOK

LEMMA LinkReadKeeps ==
  ASSUME GraphInv, NEW p \in Procs, LinkRead(p)
  PROVE  GraphInv'
<1>0. /\ pc[p] = "link" /\ about[p] \in Comps /\ at[p] = None /\ Table(rows)
      /\ todo[p] \in SUBSET Comps
  BY DEF LinkRead, GraphInv, OneAtWork, CopiesFresh, CopyFresh, TypeOK, Loops, Anyones
<1>1. /\ pc'[p] = IF about[p] \in DOMAIN rows THEN "linked" ELSE "end"
      /\ about[p] \in DOMAIN rows =>
            /\ entry' = [entry EXCEPT ![p] = rows[about[p]]]
            /\ todo' = [todo EXCEPT ![p] = todo[p] \intersect (DOMAIN rows \ {about[p]})]
      /\ about[p] \notin DOMAIN rows => UNCHANGED <<entry, todo>>
      /\ UNCHANGED <<rows, at, about>>
  BY DEF LinkRead, GraphInv, TypeOK
<1>2. TypeOK'
  BY <1>0, <1>1 DEF LinkRead, GraphInv, TypeOK, Table, Labels
<1>3. CopyFresh(p)'
  BY <1>0, <1>1 DEF CopyFresh, GraphInv, TypeOK
<1>4. ASSUME crashes = 0
      PROVE  GraphAt(p)' /\ BackupWhole'
  <2>1. HalfLinked(p) /\ BackupWhole'
    BY <1>0, <1>4 DEF LinkRead, GraphInv, GraphKept, GraphAt, BackupWhole, Linking
  <2>2. /\ Pending(p) = todo[p] /\ about[p] \in DOMAIN rows
        /\ Pending(p)' = todo[p] \intersect (DOMAIN rows \ {about[p]})
    BY <1>0, <1>1, <2>1 DEF Pending, HalfLinked, GraphInv, TypeOK
  <2>3. Pending(p)' \subseteq Linked(rows[about[p]])
    BY <1>0, <2>1, <2>2 DEF HalfLinked, Linked
  <2>4. Pending(p)' \subseteq rows[about[p]].deps
    BY <2>3 DEF Linked
  <2>5. HalfLinked(p)'
    BY <1>1, <2>1, <2>2, <2>3, <2>4 DEF HalfLinked
  <2> QED
    BY <1>1, <2>1, <2>5 DEF GraphAt, HalfLinked, Linking, Unreferring, Halfway
<1>5. Known(p)'
  BY <1>0, <1>1, StillKnown DEF LinkRead, Anyones
<1> QED
  BY <1>0, <1>1, <1>2, <1>3, <1>4, <1>5, OneStep DEF LinkRead, GraphInv, TypeOK

LEMMA LinkWriteKeeps ==
  ASSUME GraphInv, NEW p \in Procs, LinkWrite(p)
  PROVE  GraphInv'
<1>0. /\ pc[p] = "linked" /\ about[p] \in Comps /\ at[p] = None /\ Table(rows)
      /\ about[p] \in DOMAIN rows /\ entry[p] = rows[about[p]]
      /\ todo[p] \in SUBSET Comps /\ entry[p] \in Row
  BY DEF LinkWrite, GraphInv, OneAtWork, CopiesFresh, CopyFresh, TypeOK, Loops, Anyones
<1> DEFINE r == IF todo[p] = {} THEN entry[p]
                ELSE [entry[p] EXCEPT !.deps = @ \union todo[p]]
<1>1. /\ r \in Row /\ r.deps = entry[p].deps \union todo[p]
      /\ r.dependents = entry[p].dependents /\ r.loose = entry[p].loose
  BY <1>0 DEF Row
<1>2. /\ Table(rows') /\ DOMAIN rows' = DOMAIN rows /\ rows'[about[p]] = r
      /\ \A d \in DOMAIN rows \ {about[p]} : rows'[d] = rows[d]
  <2>1. CASE todo[p] = {}
    BY <1>0, <2>1 DEF LinkWrite
  <2>2. CASE todo[p] # {}
    <3>1. rows' = Upsert(about[p], r)
      BY <2>2 DEF LinkWrite
    <3> HIDE DEF r
    <3>2. /\ Table(rows') /\ DOMAIN rows' = DOMAIN rows \union {about[p]} /\ rows'[about[p]] = r
          /\ \A d \in DOMAIN rows \ {about[p]} : rows'[d] = rows[d]
      BY <1>0, <1>1, <3>1, UpsertTyped
    <3> QED
      BY <1>0, <3>2
  <2> QED
    BY <2>1, <2>2
<1> HIDE DEF r
<1>3. pc'[p] = (IF todo[p] = {} THEN "end" ELSE "add") /\ UNCHANGED <<at, about, todo>>
  BY DEF LinkWrite, GraphInv, TypeOK
<1>4. TypeOK'
  BY <1>2 DEF LinkWrite, GraphInv, TypeOK, Labels
<1>5. CopyFresh(p)'
  BY <1>0, <1>3 DEF CopyFresh
<1>6. ASSUME crashes = 0
      PROVE  GraphAt(p)' /\ BackupWhole'
  <2>1. HalfLinked(p) /\ BackupWhole'
    BY <1>0, <1>6 DEF LinkWrite, GraphInv, GraphKept, GraphAt, BackupWhole, Linking
  <2>2. Pending(p) = todo[p] /\ Pending(p)' = todo[p]
    BY <1>0, <1>3 DEF Pending
  <2>3. \A d \in DOMAIN rows :
           /\ rows'[d].deps = rows[d].deps /\ rows'[d].dependents = rows[d].dependents
           /\ Linked(rows'[d]) = Linked(rows[d])
    <3>1. todo[p] \subseteq entry[p].deps
      BY <1>0, <2>1, <2>2 DEF HalfLinked
    <3> QED
      BY <1>0, <1>1, <1>2, <3>1 DEF Linked
  <2>4. Closed(rows')
    BY <1>2, <2>1, <2>3 DEF HalfLinked, Closed
  <2>5. todo[p] # {} => HalfLinked(p)'
    BY <1>0, <1>2, <1>3, <2>1, <2>2, <2>3, <2>4 DEF HalfLinked
  <2>6. todo[p] = {} => Whole(rows)'
    BY <1>2, <2>1, <2>2, <2>3, <2>4 DEF HalfLinked, Whole
  <2> QED
    BY <1>3, <2>1, <2>5, <2>6 DEF GraphAt, Linking, Unreferring, Halfway
<1>7. Known(p)'
  BY <1>0, <1>3, StillKnown DEF LinkWrite, Anyones
<1> QED
  BY <1>0, <1>3, <1>4, <1>5, <1>6, <1>7, OneStep DEF LinkWrite, GraphInv, TypeOK

-----------------------------------------------------------------------------
(* delete, modify and accept-drift                                         *)

LEMMA DeleteReadKeeps ==
  ASSUME GraphInv, NEW p \in Procs, DeleteRead(p)
  PROVE  GraphInv'
<1> DEFINE goes == about[p] \in DOMAIN rows
                   /\ (rows[about[p]].dependents = {} \/ pc[p] = "force_delete")
<1>0. /\ pc[p] \in {"delete", "force_delete"} /\ about[p] \in Comps /\ at[p] = None
      /\ Table(rows)
  BY DEF DeleteRead, GraphInv, OneAtWork, CopiesFresh, CopyFresh, TypeOK, Loops, Anyones
<1>1. /\ pc'[p] = IF goes THEN "unlink" ELSE "end"
      /\ goes => /\ entry' = [entry EXCEPT ![p] = rows[about[p]]]
                 /\ todo' = [todo EXCEPT ![p] = rows[about[p]].deps]
      /\ ~ goes => UNCHANGED <<entry, todo>>
      /\ UNCHANGED <<rows, at, about>>
  BY DEF DeleteRead, GraphInv, TypeOK
<1>2. goes => rows[about[p]] \in Row /\ rows[about[p]].deps \in SUBSET Comps
  BY <1>0 DEF Table, Row
<1>3. TypeOK'
  BY <1>0, <1>1, <1>2 DEF DeleteRead, GraphInv, TypeOK, Labels
<1>4. CopyFresh(p)'
  BY <1>0, <1>1 DEF CopyFresh
<1>5. ASSUME crashes = 0
      PROVE  GraphAt(p)' /\ BackupWhole'
  <2>1. Whole(rows) /\ BackupWhole'
    BY <1>0, <1>5 DEF DeleteRead, GraphInv, GraphKept, GraphAt, BackupWhole,
       Linking, Unreferring, Halfway
  <2>2. ASSUME goes PROVE HalfUnlinked(p)'
    <3>1. /\ entry'[p] = rows[about[p]] /\ Pending(p)' = rows[about[p]].deps
          /\ about[p] \in DOMAIN rows
      BY <1>0, <1>1, <2>2 DEF Pending, GraphInv, TypeOK
    <3>2. \A d \in DOMAIN rows :
              about[p] \in rows[d].dependents => d \in rows[about[p]].deps
      BY <2>1, <3>1 DEF Whole, Linked
    <3> QED
      BY <1>1, <2>1, <3>1, <3>2 DEF HalfUnlinked, Whole
  <2> QED
    BY <1>1, <2>1, <2>2 DEF GraphAt, Linking, Unreferring, Halfway
<1>6. Known(p)'
  BY <1>0, <1>1, StillKnown DEF DeleteRead, Anyones
<1> QED
  BY <1>0, <1>1, <1>3, <1>4, <1>5, <1>6, OneStep DEF DeleteRead, GraphInv, TypeOK

LEMMA ReadEntryKeeps ==
  ASSUME GraphInv, NEW p \in Procs, ReadEntry(p)
  PROVE  GraphInv'
<1>0. pc[p] \in {"modify", "accept"} /\ at[p] = None /\ Table(rows)
  BY DEF ReadEntry, GraphInv, OneAtWork, CopiesFresh, CopyFresh, TypeOK, Loops
<1>1. /\ pc'[p] \in {"journal", "baseline", "end"}
      /\ pc'[p] # "end" => /\ about[p] \in DOMAIN rows
                           /\ entry' = [entry EXCEPT ![p] = rows[about[p]]]
      /\ UNCHANGED <<rows, at, about>>
  BY DEF ReadEntry, GraphInv, TypeOK
<1>2. TypeOK'
  BY <1>0 DEF ReadEntry, GraphInv, TypeOK, Labels, Table
<1>3. CopyFresh(p)'
  BY <1>0, <1>1 DEF CopyFresh, GraphInv, TypeOK
<1>4. crashes = 0 => GraphAt(p)' /\ BackupWhole'
  BY <1>0, <1>1 DEF ReadEntry, GraphInv, GraphKept, GraphAt, BackupWhole,
     Linking, Unreferring, Halfway
<1>5. Known(p)'
  BY <1>0, <1>1, StillKnown DEF ReadEntry, Anyones
<1> QED
  BY <1>0, <1>1, <1>2, <1>3, <1>4, <1>5, OneStep DEF ReadEntry, GraphInv, TypeOK

LEMMA JournalChangeKeeps ==
  ASSUME GraphInv, NEW p \in Procs, JournalChange(p)
  PROVE  GraphInv'
<1> DEFINE j == [of |-> about[p], number |-> number[p], version |-> entry[p].version + 1]
<1>0. /\ pc[p] = "journal" /\ at[p] = None /\ about[p] \in DOMAIN rows
      /\ entry[p] = rows[about[p]] /\ pc'[p] \in {"commit", "end"}
      /\ UNCHANGED <<rows, at, about, entry, backup>>
  BY DEF JournalChange, GraphInv, CopiesFresh, CopyFresh, TypeOK, Loops
<1>1. j \in Change
  <2>1. about[p] \in Comps /\ number[p] \in 0..MaxCommands /\ number[p] # 0
    BY <1>0 DEF GraphInv, TypeOK, OneAtWork, Anyones
  <2>2. entry[p] \in Row
    BY DEF GraphInv, TypeOK
  <2>3. entry[p].version + 1 \in Nat
    BY <2>2 DEF Row
  <2> QED
    BY <2>1, <2>3 DEF Change
<1>2. journal' = journal \union {j} /\ change' = [change EXCEPT ![p] = j]
  BY DEF JournalChange
<1> HIDE DEF j
<1>3. TypeOK'
  BY <1>1, <1>2 DEF JournalChange, GraphInv, TypeOK, Labels
<1>4. CopyFresh(p)'
  BY <1>0 DEF CopyFresh
<1>5. crashes = 0 => GraphAt(p)' /\ BackupWhole'
  BY <1>0 DEF GraphInv, GraphKept, GraphAt, BackupWhole, Linking, Unreferring, Halfway
<1>6. Known(p)'
  BY <1>0, <1>1, <1>2 DEF JournalChange, GraphInv, TypeOK, OneAtWork, Known, Anyones
<1> QED
  BY <1>0, <1>3, <1>4, <1>5, <1>6, OneStep DEF JournalChange, GraphInv, TypeOK

\* The new version of a row: the lists stay, the history grows.
LEMMA NewVersionTyped ==
  ASSUME NEW r \in Row, NEW v \in Nat, NEW n \in 1..MaxCommands
  PROVE  /\ NewVersion(r, v, n) \in Row /\ NewVersion(r, v, n).version = v
         /\ Linked(NewVersion(r, v, n)) = Linked(r)
         /\ NewVersion(r, v, n).dependents = r.dependents
         /\ r.history \subseteq NewVersion(r, v, n).history
BY DEF NewVersion, Row, Linked

\* Commits write a row over the one it was made from.
LEMMA RowRewritten ==
  ASSUME GraphInv, NEW c \in DOMAIN rows, NEW r \in Row, rows' = Upsert(c, r),
         Linked(r) = Linked(rows[c]), r.dependents = rows[c].dependents
  PROVE  /\ Table(rows') /\ DOMAIN rows' = DOMAIN rows /\ rows'[c] = r
         /\ \A d \in DOMAIN rows \ {c} : rows'[d] = rows[d]
         /\ Whole(rows) => Whole(rows)'
<1>1. c \in Comps /\ Table(rows)
  BY DEF GraphInv, TypeOK, Table
<1>2. /\ Table(rows') /\ DOMAIN rows' = DOMAIN rows \union {c}
      /\ rows'[c] = r /\ \A d \in DOMAIN rows \ {c} : rows'[d] = rows[d]
  BY <1>1, UpsertTyped
<1>3. \A d \in DOMAIN rows : /\ Linked(rows'[d]) = Linked(rows[d])
                             /\ rows'[d].dependents = rows[d].dependents
  BY <1>2
<1> QED
  BY <1>2, <1>3, SameGraph

\* What each of the writers of a new version writes.
Committer(p) == Commit(p) \/ Complete(p) \/ AcceptBaseline(p) \/ CompleteLanded(p)

Version(p) ==
    CASE pc[p] = "complete" -> entry[p]
      [] pc[p] = "landed"   -> NewVersion(entry[p], change[p].version, change[p].number)
      [] OTHER              -> NextVersion(p)

LEMMA VersionTyped ==
  ASSUME GraphInv, NEW p \in Procs, Committer(p)
  PROVE  /\ pc[p] \in {"commit", "complete", "baseline", "landed"} /\ at[p] = None
         /\ about[p] \in DOMAIN rows /\ entry[p] = rows[about[p]] /\ entry[p] \in Row
         /\ Version(p) \in Row /\ Linked(Version(p)) = Linked(entry[p])
         /\ Version(p).dependents = entry[p].dependents
         /\ entry[p].history \subseteq Version(p).history
         /\ pc[p] \in {"commit", "baseline"} => Version(p).version = entry[p].version + 1
         /\ pc[p] = "landed" => Version(p).version = change[p].version /\ change[p] \in Change
<1>1. /\ pc[p] \in {"commit", "complete", "baseline", "landed"} /\ at[p] = None
      /\ about[p] \in DOMAIN rows /\ entry[p] = rows[about[p]] /\ entry[p] \in Row
  BY DEF Committer, Commit, Complete, AcceptBaseline, CompleteLanded, GraphInv, CopiesFresh,
     CopyFresh, TypeOK, Loops
<1>2. CASE pc[p] = "complete"
  BY <1>1, <1>2 DEF Version
<1>3. CASE pc[p] = "landed"
  <2>1. change[p] \in Change /\ change[p].version \in Nat /\ change[p].number \in 1..MaxCommands
    BY <1>3 DEF GraphInv, OneAtWork, Change
  <2> DEFINE e == entry[p]
             v == change[p].version
             n == change[p].number
             new == NewVersion(e, v, n)
  <2>2. e \in Row /\ v \in Nat /\ n \in 1..MaxCommands
    BY <1>1, <2>1
  <2> HIDE DEF e, v, n
  <2>3. /\ new \in Row /\ new.version = v /\ Linked(new) = Linked(e)
        /\ new.dependents = e.dependents /\ e.history \subseteq new.history
    BY <2>2, NewVersionTyped
  <2> HIDE DEF new
  <2>4. Version(p) = new
    BY <1>3 DEF Version, new, e, v, n
  <2> QED
    BY <1>1, <1>3, <2>1, <2>3, <2>4 DEF e, v
<1>4. CASE pc[p] \in {"commit", "baseline"}
  <2>1. number[p] \in 1..MaxCommands /\ entry[p].version + 1 \in Nat
    BY <1>1, <1>4 DEF GraphInv, TypeOK, OneAtWork, Anyones, Row
  <2> QED
    BY <1>1, <1>4, <2>1, NewVersionTyped DEF Version, NextVersion
<1> QED
  BY <1>1, <1>2, <1>3, <1>4

LEMMA Committed ==
  ASSUME GraphInv, NEW p \in Procs, Committer(p)
  PROVE  /\ rows' = rows \/ rows' = Upsert(about[p], Version(p))
         /\ pc[p] = "landed" /\ rows' # rows => entry[p].version = change[p].version - 1
         /\ entry' = entry \/ (entry' = [entry EXCEPT ![p] = Version(p)]
                               /\ rows' = Upsert(about[p], Version(p)))
         /\ pc'[p] = "complete" => /\ pc[p] = "commit" /\ rows' = Upsert(about[p], Version(p))
                                   /\ entry' = [entry EXCEPT ![p] = Version(p)]
         /\ journal' \in SUBSET journal
         /\ pc'[p] \in {"complete", "end", "cascade", "reconcile"}
         /\ pc' \in [Procs -> Labels] /\ \A q \in Procs \ {p} : pc'[q] = pc[q]
         /\ todo' \in [Procs -> SUBSET Comps]
         /\ UNCHANGED <<backup, lock, about, number, change, queue, at, copy, counters>>
<1>0. /\ entry[p] = rows[about[p]] /\ entry[p] \in Row /\ pc \in [Procs -> Labels]
      /\ todo \in [Procs -> SUBSET Comps]
  BY VersionTyped DEF GraphInv, TypeOK
<1>1. CASE Commit(p)
  BY <1>0, <1>1 DEF Commit, Version, Labels
<1>2. CASE Complete(p)
  BY <1>0, <1>2 DEF Complete, Version, Cascade, Labels, Row
<1>3. CASE AcceptBaseline(p)
  BY <1>0, <1>3 DEF AcceptBaseline, Version, Labels, Row
<1>4. CASE CompleteLanded(p)
  BY <1>0, <1>4 DEF CompleteLanded, StillAt, Version, Cascade, Labels, Row
<1> QED
  BY <1>1, <1>2, <1>3, <1>4 DEF Committer

LEMMA CommitterKeeps ==
  ASSUME GraphInv, NEW p \in Procs, Committer(p)
  PROVE  GraphInv'
<1> DEFINE r == Version(p)
<1>0. /\ pc[p] \in {"commit", "complete", "baseline", "landed"} /\ at[p] = None
      /\ about[p] \in DOMAIN rows /\ entry[p] = rows[about[p]] /\ entry[p] \in Row
      /\ r \in Row /\ Linked(r) = Linked(entry[p]) /\ r.dependents = entry[p].dependents
  BY VersionTyped
<1>1. /\ rows' = rows \/ rows' = Upsert(about[p], r)
      /\ entry' = entry \/ (entry' = [entry EXCEPT ![p] = r] /\ rows' = Upsert(about[p], r))
      /\ pc'[p] = "complete" => /\ pc[p] = "commit" /\ rows' = Upsert(about[p], r)
                                /\ entry' = [entry EXCEPT ![p] = r]
      /\ journal' \in SUBSET journal
      /\ pc'[p] \in {"complete", "end", "cascade", "reconcile"}
      /\ pc' \in [Procs -> Labels] /\ \A q \in Procs \ {p} : pc'[q] = pc[q]
      /\ todo' \in [Procs -> SUBSET Comps]
      /\ UNCHANGED <<backup, lock, about, number, change, queue, at, copy, counters>>
  BY Committed
<1> HIDE DEF r
<1>2. rows' = Upsert(about[p], r) => /\ Table(rows') /\ DOMAIN rows' = DOMAIN rows
                                     /\ rows'[about[p]] = r
                                     /\ Whole(rows) => Whole(rows)'
  BY <1>0, RowRewritten
<1>3. TypeOK'
  <2>1. Table(rows')
    BY <1>1, <1>2 DEF GraphInv, TypeOK
  <2>2. entry' \in [Procs -> Row]
    BY <1>0, <1>1 DEF GraphInv, TypeOK
  <2> QED
    BY <1>1, <2>1, <2>2 DEF GraphInv, TypeOK
<1>4. CopyFresh(p)'
  <2>1. ASSUME pc'[p] = "complete"
        PROVE  about[p] \in DOMAIN rows' /\ entry'[p] = rows'[about[p]]
    BY <1>0, <1>1, <1>2, <2>1 DEF GraphInv, TypeOK
  <2> QED
    BY <1>0, <1>1, <2>1 DEF CopyFresh
<1>5. ASSUME crashes = 0 PROVE GraphAt(p)' /\ BackupWhole'
  <2>1. Whole(rows) /\ BackupWhole'
    BY <1>0, <1>1, <1>5 DEF GraphInv, GraphKept, GraphAt, BackupWhole,
       Linking, Unreferring, Halfway
  <2>2. Whole(rows)'
    <3>1. CASE rows' = rows
      BY <2>1, <3>1 DEF Whole, Closed
    <3> QED
      BY <1>1, <1>2, <2>1, <3>1
  <2> QED
    BY <1>1, <2>1, <2>2 DEF GraphAt, Linking, Unreferring, Halfway
<1>6. Known(p)'
  <2>1. pc'[p] \in Anyones \/ (pc[p] = "commit" /\ pc'[p] = "complete")
    BY <1>1 DEF Anyones
  <2> QED
    BY <1>1, <2>1, StillKnown
<1> QED
  BY <1>0, <1>1, <1>3, <1>4, <1>5, <1>6, OneStep

-----------------------------------------------------------------------------
(* Reconciliation                                                          *)

LEMMA TakeChangeKeeps ==
  ASSUME GraphInv, NEW p \in Procs, TakeChange(p)
  PROVE  GraphInv'
<1> PICK j \in queue[p] :
        /\ queue' = [queue EXCEPT ![p] = queue[p] \ {j}]
        /\ \/ UNCHANGED <<journal, pc, about, entry, change>>
           \/ journal' = journal \ {j} /\ UNCHANGED <<pc, about, entry, change>>
           \/ /\ j.of \in DOMAIN rows
              /\ about' = [about EXCEPT ![p] = j.of]
              /\ entry' = [entry EXCEPT ![p] = rows[j.of]]
              /\ change' = [change EXCEPT ![p] = j]
              /\ pc' = [pc EXCEPT ![p] = "landed"]
              /\ UNCHANGED journal
  BY DEF TakeChange
<1>0. /\ pc[p] = "reconcile" /\ at[p] = None /\ Table(rows) /\ j \in Change /\ j.of \in Comps
      /\ UNCHANGED <<rows, backup, lock, number, at, copy, todo, counters>>
  BY DEF TakeChange, GraphInv, CopiesFresh, CopyFresh, TypeOK, Loops, Change
<1>1. CASE UNCHANGED <<pc, about, entry, change>> /\ journal' \in SUBSET journal
  <2>1. TypeOK'
    BY <1>0, <1>1 DEF GraphInv, TypeOK
  <2>2. CopyFresh(p)'
    BY <1>0, <1>1 DEF CopyFresh
  <2>3. crashes = 0 => GraphAt(p)' /\ BackupWhole'
    BY <1>0, <1>1 DEF GraphInv, GraphKept, GraphAt, BackupWhole, Linking, Unreferring, Halfway
  <2>4. Known(p)'
    BY <1>0, <1>1, StillKnown
  <2> QED
    BY <1>0, <1>1, <2>1, <2>2, <2>3, <2>4, OneStep
<1>2. CASE /\ j.of \in DOMAIN rows
           /\ about' = [about EXCEPT ![p] = j.of]
           /\ entry' = [entry EXCEPT ![p] = rows[j.of]]
           /\ change' = [change EXCEPT ![p] = j]
           /\ pc' = [pc EXCEPT ![p] = "landed"]
           /\ UNCHANGED journal
  <2>1. rows[j.of] \in Row
    BY <1>0, <1>2 DEF Table
  <2>2. TypeOK'
    BY <1>0, <1>2, <2>1 DEF GraphInv, TypeOK, Labels
  <2>3. /\ pc'[p] = "landed" /\ about'[p] = j.of /\ entry'[p] = rows[j.of] /\ change'[p] = j
        /\ \A q \in Procs \ {p} : pc'[q] = pc[q]
    BY <1>2 DEF GraphInv, TypeOK
  <2>4. CopyFresh(p)'
    BY <1>0, <1>2, <2>3 DEF CopyFresh
  <2>5. crashes = 0 => GraphAt(p)' /\ BackupWhole'
    BY <1>0, <2>3 DEF GraphInv, GraphKept, GraphAt, BackupWhole, Linking, Unreferring, Halfway
  <2>6. Known(p)'
    BY <1>0, <2>3 DEF Known, GraphInv, OneAtWork, Anyones
  <2> QED
    BY <1>0, <2>2, <2>3, <2>4, <2>5, <2>6, OneStep
<1> QED
  BY <1>1, <1>2

-----------------------------------------------------------------------------
(* The loops                                                               *)

\* The row that is read is pending before and after; what is not there is in the way
\* of nobody.
LEMMA LoopReadKeeps ==
  ASSUME GraphInv, NEW p \in Procs, LoopRead(p)
  PROVE  GraphInv'
<1> PICK c \in todo[p] :
        /\ todo' = [todo EXCEPT ![p] = todo[p] \ {c}]
        /\ IF c \in DOMAIN rows
           THEN at' = [at EXCEPT ![p] = c] /\ copy' = [copy EXCEPT ![p] = rows[c]]
           ELSE UNCHANGED <<at, copy>>
  BY DEF LoopRead
<1>0. pc[p] \in Loops /\ at[p] = None /\ c \in Comps /\ Table(rows)
  BY DEF LoopRead, GraphInv, TypeOK, Loops
<1>1. /\ at' = IF c \in DOMAIN rows THEN [at EXCEPT ![p] = c] ELSE at
      /\ copy' = IF c \in DOMAIN rows THEN [copy EXCEPT ![p] = rows[c]] ELSE copy
      /\ at'[p] = IF c \in DOMAIN rows THEN c ELSE None
      /\ c \in DOMAIN rows => copy'[p] = rows[c]
      /\ todo'[p] = todo[p] \ {c}
  BY <1>0 DEF GraphInv, TypeOK
<1>2. c \in DOMAIN rows => rows[c] \in Row
  BY <1>0 DEF Table
<1>3. TypeOK'
  BY <1>0, <1>1, <1>2 DEF LoopRead, GraphInv, TypeOK
<1>4. CopyFresh(p)'
  BY <1>0, <1>1 DEF LoopRead, CopyFresh, Loops
<1>5. ASSUME crashes = 0
      PROVE  GraphAt(p)' /\ BackupWhole'
  <2>1. GraphAt(p) /\ BackupWhole'
    BY <1>0, <1>5 DEF LoopRead, GraphInv, GraphKept, BackupWhole, Loops
  <2>2. c \in DOMAIN rows => Pending(p)' = Pending(p)
    BY <1>0, <1>1 DEF Pending
  <2>3. pc[p] \in {"add", "unrefer"} => c \in DOMAIN rows
    BY <1>0, <2>1 DEF GraphAt, HalfLinked, HalfUnreferred, Closed, Pending,
       Loops, Linking, Unreferring
  <2>4. UNCHANGED <<pc, rows, about, entry>>
    BY DEF LoopRead
  <2>5. CASE pc[p] = "cascade"
    BY <2>1, <2>4, <2>5 DEF GraphAt, Linking, Unreferring, Halfway
  <2>6. CASE c \in DOMAIN rows
    BY <2>1, <2>2, <2>4, <2>6
       DEF GraphAt, HalfLinked, HalfUnlinked, HalfUnreferred, Closed
  <2>7. CASE c \notin DOMAIN rows /\ pc[p] = "unlink"
    <3>1. HalfUnlinked(p) /\ Pending(p)' = Pending(p) \ {c}
      BY <1>0, <1>1, <2>1, <2>7 DEF GraphAt, Pending
    <3>2. HalfUnlinked(p)'
      BY <2>4, <2>7, <3>1 DEF HalfUnlinked, Closed
    <3> QED
      BY <2>1, <2>4, <2>7, <3>2 DEF GraphAt, Linking, Unreferring, Halfway
  <2> QED
    BY <1>0, <2>3, <2>5, <2>6, <2>7 DEF Loops
<1>6. Known(p)'
  BY StillKnown DEF LoopRead
<1> QED
  BY <1>0, <1>1, <1>3, <1>4, <1>5, <1>6, OneStep DEF LoopRead, Loops

LEMMA ChangedTyped ==
  ASSUME GraphInv, NEW p \in Procs, at[p] # None
  PROVE  /\ Changed(p) \in Row /\ Changed(p).history = copy[p].history
         /\ Changed(p).version = copy[p].version /\ Changed(p).loose = copy[p].loose
         /\ Changed(p).deps = IF pc[p] = "unrefer" THEN copy[p].deps \ {about[p]}
                                                   ELSE copy[p].deps
         /\ Changed(p).dependents = CASE pc[p] = "add"    -> copy[p].dependents \union {about[p]}
                                      [] pc[p] = "unlink" -> copy[p].dependents \ {about[p]}
                                      [] OTHER            -> copy[p].dependents
<1>1. /\ copy[p] \in Row /\ pc[p] \in Loops
      /\ pc[p] # "cascade" => about[p] \in Comps
  BY DEF GraphInv, TypeOK, OneAtWork, CopiesFresh, CopyFresh, Loops, Anyones
<1> QED
  BY <1>1 DEF Loops, Changed, AddDependent, RemoveDependent, RemoveDependencyReference, Row

\* What a write of a loop does to the table: the lists of one row change.
LEMMA LoopWrites ==
  ASSUME GraphInv, NEW p \in Procs, LoopWrite(p)
  PROVE  /\ Table(rows') /\ DOMAIN rows' = DOMAIN rows /\ at[p] \in DOMAIN rows
         /\ \A d \in DOMAIN rows \ {at[p]} : rows'[d] = rows[d]
         /\ rows'[at[p]] = Changed(p) /\ copy[p] = rows[at[p]]
<1>1. /\ at[p] \in DOMAIN rows /\ copy[p] = rows[at[p]] /\ Table(rows) /\ at[p] \in Comps
  BY DEF LoopWrite, GraphInv, CopiesFresh, CopyFresh, TypeOK, Table
<1> DEFINE r == Changed(p)
<1>2. r \in Row
  BY ChangedTyped DEF LoopWrite
<1>3. (r = copy[p] /\ rows' = rows) \/ rows' = Upsert(at[p], r)
  BY DEF LoopWrite
<1> HIDE DEF r
<1>4. CASE rows' = Upsert(at[p], r)
  <2>1. /\ Table(rows') /\ DOMAIN rows' = DOMAIN rows \union {at[p]} /\ rows'[at[p]] = r
        /\ \A d \in DOMAIN rows \ {at[p]} : rows'[d] = rows[d]
    BY <1>1, <1>2, <1>4, UpsertTyped
  <2> QED
    BY <1>1, <2>1 DEF r
<1>5. CASE r = copy[p] /\ rows' = rows
  BY <1>1, <1>5 DEF r
<1> QED
  BY <1>3, <1>4, <1>5

LEMMA LoopWriteKeeps ==
  ASSUME GraphInv, NEW p \in Procs, LoopWrite(p)
  PROVE  GraphInv'
<1>0. pc[p] \in Loops /\ at[p] # None /\ NoRow \in Row
  BY DEF LoopWrite, GraphInv, CopiesFresh, CopyFresh, Loops, NoRow, Row
<1> DEFINE d0 == at[p]
           r == Changed(p)
<1>1. /\ r \in Row /\ r.loose = rows[d0].loose
      /\ r.deps = IF pc[p] = "unrefer" THEN rows[d0].deps \ {about[p]} ELSE rows[d0].deps
      /\ r.dependents = CASE pc[p] = "add"    -> rows[d0].dependents \union {about[p]}
                          [] pc[p] = "unlink" -> rows[d0].dependents \ {about[p]}
                          [] OTHER            -> rows[d0].dependents
  <2>1. copy[p] = rows[d0]
    BY LoopWrites
  <2>2. /\ Changed(p) \in Row /\ Changed(p).loose = copy[p].loose
        /\ Changed(p).deps = IF pc[p] = "unrefer" THEN copy[p].deps \ {about[p]}
                                                  ELSE copy[p].deps
        /\ Changed(p).dependents = CASE pc[p] = "add"    -> copy[p].dependents \union {about[p]}
                                     [] pc[p] = "unlink" -> copy[p].dependents \ {about[p]}
                                     [] OTHER            -> copy[p].dependents
    BY <1>0, ChangedTyped
  <2> QED
    BY <2>1, <2>2
<1>2. /\ Table(rows') /\ DOMAIN rows' = DOMAIN rows /\ d0 \in DOMAIN rows
      /\ \A d \in DOMAIN rows \ {d0} : rows'[d] = rows[d]
      /\ rows'[d0] = r
  BY LoopWrites
<1> HIDE DEF r
<1>3. at'[p] = None /\ UNCHANGED <<pc, about, entry, todo>>
  BY DEF LoopWrite, GraphInv, TypeOK
<1>4. TypeOK'
  BY <1>0, <1>2 DEF LoopWrite, GraphInv, TypeOK
<1>5. CopyFresh(p)'
  BY <1>0, <1>3 DEF CopyFresh, Loops
<1>6. ASSUME crashes = 0
      PROVE  GraphAt(p)' /\ BackupWhole'
  <2>1. GraphAt(p) /\ BackupWhole'
    BY <1>0, <1>6 DEF LoopWrite, GraphInv, GraphKept, BackupWhole, Loops
  <2>2. /\ Pending(p)' = todo[p] /\ Pending(p) = todo[p] \union {d0}
    BY <1>0, <1>3 DEF Pending
  <2>3. CASE pc[p] = "add"
    <3>1. HalfLinked(p) /\ d0 # about[p] /\ d0 \in Linked(rows[about[p]])
      BY <2>1, <2>2, <2>3 DEF GraphAt, Linking, HalfLinked, Closed
    <3>2. \A c \in DOMAIN rows : \A e :
             /\ e \in Linked(rows'[c]) <=> e \in Linked(rows[c])
             /\ e \in rows'[c].deps <=> e \in rows[c].deps
             /\ e \in rows'[c].dependents <=> e \in rows[c].dependents \/ (c = d0 /\ e = about[p])
      BY <1>1, <1>2, <2>3 DEF Linked
    <3>3. Closed(rows')
      BY <1>2, <3>1, <3>2 DEF HalfLinked, Closed
    <3>4. HalfLinked(p)'
      BY <1>2, <1>3, <2>2, <3>1, <3>2, <3>3 DEF HalfLinked
    <3> QED
      BY <1>3, <2>1, <2>3, <3>4 DEF GraphAt, Linking, Unreferring, Halfway
  <2>4. CASE pc[p] = "unlink"
    <3>1. HalfUnlinked(p)
      BY <2>1, <2>4 DEF GraphAt
    <3>2. \A c \in DOMAIN rows : \A e :
             /\ e \in Linked(rows'[c]) <=> e \in Linked(rows[c])
             /\ e \in rows'[c].dependents <=> e \in rows[c].dependents /\ ~ (c = d0 /\ e = about[p])
      BY <1>1, <1>2, <2>4 DEF Linked
    <3>5. d0 = about[p] => r = rows[d0]
      <4>1. copy[p] = rows[d0] /\ copy[p] \in Row
        BY LoopWrites DEF GraphInv, TypeOK
      <4>2. d0 = about[p] => about[p] \notin copy[p].dependents
        BY <1>2, <3>1, <4>1 DEF HalfUnlinked, Closed
      <4>3. r = [copy[p] EXCEPT !.dependents = copy[p].dependents \ {about[p]}]
        BY <2>4 DEF r, Changed, RemoveDependent
      <4> QED
        BY <4>1, <4>2, <4>3 DEF Row
    <3>3. Closed(rows') /\ rows'[about[p]] = rows[about[p]]
      BY <1>2, <3>1, <3>2, <3>5 DEF HalfUnlinked, Closed
    <3>4. HalfUnlinked(p)'
      BY <1>2, <1>3, <2>2, <3>1, <3>2, <3>3 DEF HalfUnlinked
    <3> QED
      BY <1>3, <2>1, <2>4, <3>4 DEF GraphAt, Linking, Unreferring, Halfway
  <2>5. CASE pc[p] = "unrefer"
    <3>1. HalfUnreferred(p) /\ d0 # about[p]
      BY <2>1, <2>2, <2>5 DEF GraphAt, Unreferring, HalfUnreferred
    <3>2. \A c \in DOMAIN rows : \A e :
             /\ e \in rows'[c].dependents <=> e \in rows[c].dependents
             /\ e \in Linked(rows'[c]) <=> e \in Linked(rows[c]) /\ ~ (c = d0 /\ e = about[p])
      BY <1>1, <1>2, <2>5 DEF Linked
    <3>3. Closed(rows')
      BY <1>2, <3>1, <3>2 DEF HalfUnreferred, Closed
    <3>4. HalfUnreferred(p)'
      BY <1>2, <1>3, <2>2, <2>5, <3>1, <3>2, <3>3 DEF HalfUnreferred
    <3> QED
      BY <1>3, <2>1, <2>5, <3>4 DEF GraphAt, Linking, Unreferring, Halfway
  <2>6. CASE pc[p] = "cascade"
    <3>1. Whole(rows)
      BY <2>1, <2>6 DEF GraphAt, Linking, Unreferring, Halfway
    <3>2. Whole(rows)'
      <4>1. \A d \in DOMAIN rows : /\ Linked(rows'[d]) = Linked(rows[d])
                                   /\ rows'[d].dependents = rows[d].dependents
        BY <1>1, <1>2, <2>6 DEF Linked
      <4> QED
        BY <1>2, <3>1, <4>1, SameGraph
    <3> QED
      BY <1>3, <2>1, <2>6, <3>2 DEF GraphAt, Linking, Unreferring, Halfway
  <2> QED
    BY <1>0, <2>1, <2>3, <2>4, <2>5, <2>6 DEF Loops
<1>7. Known(p)'
  BY <1>3, StillKnown DEF LoopWrite
<1> QED
  BY <1>0, <1>3, <1>4, <1>5, <1>6, <1>7, OneStep DEF LoopWrite, GraphInv, TypeOK, Loops

LEMMA LoopEndKeeps ==
  ASSUME GraphInv, NEW p \in Procs, LoopEnd(p)
  PROVE  GraphInv'
<1>0. /\ pc[p] \in Loops /\ at[p] = None /\ todo[p] = {} /\ Table(rows)
      /\ entry[p] \in Row /\ UNCHANGED <<rows, about, entry, at>>
  BY DEF LoopEnd, GraphInv, TypeOK, Loops
<1>1. /\ pc'[p] = (IF pc[p] = "unlink" THEN "unrefer"
                   ELSE IF pc[p] = "unrefer" THEN "remove"
                   ELSE IF pc[p] = "cascade" /\ Reconciling(p) THEN "reconcile" ELSE "end")
      /\ todo'[p] = (IF pc[p] = "unlink" THEN entry[p].dependents ELSE {})
  BY DEF LoopEnd, GraphInv, TypeOK
<1>2. TypeOK'
  BY <1>0 DEF LoopEnd, GraphInv, TypeOK, Labels, Row
<1>3. CopyFresh(p)'
  BY <1>0, <1>1 DEF CopyFresh
<1>4. ASSUME crashes = 0
      PROVE  GraphAt(p)' /\ BackupWhole'
  <2>1. GraphAt(p) /\ BackupWhole'
    BY <1>0, <1>4 DEF LoopEnd, GraphInv, GraphKept, BackupWhole, Loops
  <2>2. Pending(p) = {} /\ Pending(p)' = todo'[p]
    BY <1>0 DEF Pending
  <2>3. CASE pc[p] = "add"
    <3>1. Whole(rows)
      BY <2>1, <2>2, <2>3 DEF GraphAt, Linking, HalfLinked, Whole
    <3> QED
      BY <1>0, <1>1, <2>1, <2>3, <3>1 DEF GraphAt, Linking, Unreferring, Halfway
  <2>4. CASE pc[p] = "unlink"
    <3>1. HalfUnlinked(p)
      BY <2>1, <2>4 DEF GraphAt
    <3>2. HalfUnreferred(p)'
      BY <1>0, <1>1, <2>2, <2>4, <3>1 DEF HalfUnlinked, HalfUnreferred, Closed
    <3> QED
      BY <1>1, <2>1, <2>4, <3>2 DEF GraphAt, Linking, Unreferring, Halfway
  <2>5. CASE pc[p] = "unrefer"
    <3>1. HalfUnreferred(p)
      BY <2>1, <2>5 DEF GraphAt, Unreferring
    <3>2. HalfUnreferred(p)'
      BY <1>0, <1>1, <2>2, <2>5, <3>1 DEF HalfUnreferred, Closed
    <3> QED
      BY <1>1, <2>1, <2>5, <3>2 DEF GraphAt, Linking, Unreferring, Halfway
  <2>6. CASE pc[p] = "cascade"
    BY <1>0, <1>1, <2>1, <2>6 DEF GraphAt, Linking, Unreferring, Halfway
  <2> QED
    BY <1>0, <2>3, <2>4, <2>5, <2>6 DEF Loops
<1>7. Known(p)'
  <2>1. \/ pc'[p] \in Anyones
        \/ pc[p] = "unlink" /\ pc'[p] = "unrefer"
        \/ pc[p] = "unrefer" /\ pc'[p] = "remove"
    BY <1>0, <1>1 DEF Loops, Anyones
  <2> QED
    BY <1>0, <2>1, StillKnown DEF LoopEnd, Anyones
<1> QED
  BY <1>0, <1>1, <1>2, <1>3, <1>4, <1>7, OneStep DEF LoopEnd, GraphInv, TypeOK, Loops

LEMMA RemoveRowKeeps ==
  ASSUME GraphInv, NEW p \in Procs, RemoveRow(p)
  PROVE  GraphInv'
<1>0. pc[p] = "remove" /\ at[p] = None /\ Table(rows)
  BY DEF RemoveRow, GraphInv, CopiesFresh, CopyFresh, TypeOK, Loops
<1>1. /\ DOMAIN rows' = DOMAIN rows \ {about[p]}
      /\ \A c \in DOMAIN rows' : rows'[c] = rows[c]
      /\ pc'[p] = "end" /\ UNCHANGED <<at, about>>
  BY DEF RemoveRow, GraphInv, TypeOK
<1>2. TypeOK'
  BY <1>0, <1>1 DEF RemoveRow, GraphInv, TypeOK, Labels, Table
<1>3. CopyFresh(p)'
  BY <1>0, <1>1 DEF CopyFresh
<1>4. ASSUME crashes = 0
      PROVE  GraphAt(p)' /\ BackupWhole'
  <2>1. HalfUnreferred(p) /\ BackupWhole'
    BY <1>0, <1>4 DEF RemoveRow, GraphInv, GraphKept, GraphAt, BackupWhole, Unreferring
  <2>2. Whole(rows)'
    BY <1>0, <1>1, <2>1 DEF HalfUnreferred, Whole, Closed
  <2> QED
    BY <1>1, <2>1, <2>2 DEF GraphAt, Linking, Unreferring, Halfway
<1>7. Known(p)'
  BY <1>1, StillKnown DEF RemoveRow, Anyones
<1> QED
  BY <1>0, <1>1, <1>2, <1>3, <1>4, <1>7, OneStep DEF RemoveRow, GraphInv, TypeOK

-----------------------------------------------------------------------------
(* backup create and backup restore                                        *)

LEMMA ExportKeeps ==
  ASSUME GraphInv, NEW p \in Procs, ExportManifestData(p)
  PROVE  GraphInv'
<1>0. pc[p] = "export" /\ at[p] = None /\ pc'[p] = "end" /\ UNCHANGED <<rows, at>>
  BY DEF ExportManifestData, GraphInv, CopiesFresh, CopyFresh, TypeOK, Loops
<1>1. TypeOK'
  BY DEF ExportManifestData, GraphInv, TypeOK, Labels
<1>2. CopyFresh(p)'
  BY <1>0 DEF CopyFresh
<1>3. crashes = 0 => GraphAt(p)' /\ BackupWhole'
  BY <1>0 DEF ExportManifestData, GraphInv, GraphKept, GraphAt, BackupWhole,
     Linking, Unreferring, Halfway
<1>7. Known(p)'
  BY <1>0, StillKnown DEF ExportManifestData, Anyones
<1> QED
  BY <1>0, <1>1, <1>2, <1>3, <1>7, OneStep DEF ExportManifestData, GraphInv, TypeOK

LEMMA ReadBackupKeeps ==
  ASSUME GraphInv, NEW p \in Procs, ReadBackup(p)
  PROVE  GraphInv'
<1>0. /\ pc[p] = "restore" /\ at[p] = None /\ UNCHANGED <<rows, backup, at>>
      /\ pc'[p] = IF backup = None THEN "end" ELSE "import"
  BY DEF ReadBackup, GraphInv, CopiesFresh, CopyFresh, TypeOK, Loops
<1>1. TypeOK'
  BY DEF ReadBackup, GraphInv, TypeOK, Labels
<1>2. CopyFresh(p)'
  BY <1>0 DEF CopyFresh
<1>3. crashes = 0 => GraphAt(p)' /\ BackupWhole'
  BY <1>0 DEF GraphInv, GraphKept, GraphAt, BackupWhole, Linking, Unreferring, Halfway
<1>7. Known(p)'
  BY <1>0, StillKnown DEF ReadBackup, Anyones
<1> QED
  BY <1>0, <1>1, <1>2, <1>3, <1>7, OneStep DEF ReadBackup, GraphInv, TypeOK

LEMMA ImportKeeps ==
  ASSUME GraphInv, NEW p \in Procs, ImportManifestData(p)
  PROVE  GraphInv'
<1>0. /\ pc[p] = "import" /\ at[p] = None /\ pc'[p] = "end" /\ UNCHANGED <<backup, at>>
      /\ backup # None
      /\ (rows' = backup.rows /\ journal' = backup.journal) \/ UNCHANGED <<rows, journal>>
  BY DEF ImportManifestData, GraphInv, CopiesFresh, CopyFresh, TypeOK, Loops
<1>1. TypeOK'
  BY <1>0 DEF ImportManifestData, GraphInv, TypeOK, Labels
<1>2. CopyFresh(p)'
  BY <1>0 DEF CopyFresh
<1>3. crashes = 0 => GraphAt(p)' /\ BackupWhole'
  BY <1>0 DEF GraphInv, GraphKept, GraphAt, BackupWhole, Linking, Unreferring, Halfway
<1>7. Known(p)'
  BY <1>0, StillKnown DEF ImportManifestData, Anyones
<1> QED
  BY <1>0, <1>1, <1>2, <1>3, <1>7, OneStep DEF ImportManifestData, GraphInv, TypeOK

-----------------------------------------------------------------------------
(* What a process may do to the table.                                     *)

\* The steps that write rows.
LEMMA WritesOfRows ==
  ASSUME GraphInv, [Next]_vars, rows' # rows
  PROVE  \E p \in Procs :
            \/ Register(p) \/ LinkWrite(p) \/ LoopWrite(p) \/ RemoveRow(p)
            \/ ImportManifestData(p) \/ Committer(p)
BY DEF Next, Over, vars, Begin, Reconcile, Crash, Step, End, CheckNew, LinkRead, DeleteRead,
   ReadEntry, JournalChange, TakeChange, LoopRead, LoopEnd, ExportManifestData, ReadBackup,
   Committer

\* Every row stays, and none of them loses a version.
Kept ==
    /\ DOMAIN rows' = DOMAIN rows
    /\ \A c \in DOMAIN rows : /\ rows[c].history \subseteq rows'[c].history
                              /\ rows[c].version <= rows'[c].version

LEMMA VersionsAreNumbers ==
  ASSUME GraphInv, NEW c \in DOMAIN rows
  PROVE  rows[c].version \in Nat
BY DEF GraphInv, TypeOK, Table, Row

\* One row is written, over what it held.
LEMMA OneRowKept ==
  ASSUME GraphInv, NEW c \in DOMAIN rows, NEW r,
         rows[c].history \subseteq r.history, rows[c].version <= r.version,
         DOMAIN rows' = DOMAIN rows, rows'[c] = r,
         \A d \in DOMAIN rows \ {c} : rows'[d] = rows[d]
  PROVE  Kept
<1>1. \A d \in DOMAIN rows : rows[d].version <= rows[d].version
  BY VersionsAreNumbers
<1> QED
  BY <1>1 DEF Kept

LEMMA RegisterAdds ==
  ASSUME GraphInv, NEW p \in Procs, Register(p)
  PROVE  /\ DOMAIN rows' = DOMAIN rows \union {about[p]} /\ about[p] \notin DOMAIN rows
         /\ \A c \in DOMAIN rows : rows'[c] = rows[c] /\ rows[c].version <= rows'[c].version
<1>1. about[p] \notin DOMAIN rows
  BY DEF Register, GraphInv, CopiesFresh, CopyFresh
<1>2. /\ DOMAIN rows' = DOMAIN rows \union {about[p]}
      /\ \A c \in DOMAIN rows : rows'[c] = rows[c]
  BY <1>1 DEF Register, Upsert
<1> QED
  BY <1>1, <1>2, VersionsAreNumbers

LEMMA LinkWriteChanges ==
  ASSUME GraphInv, NEW p \in Procs, LinkWrite(p), rows' # rows
  PROVE  Kept
<1>1. /\ about[p] \in DOMAIN rows /\ entry[p] = rows[about[p]] /\ entry[p] \in Row
  BY DEF LinkWrite, GraphInv, CopiesFresh, CopyFresh, TypeOK
<1> DEFINE r == [entry[p] EXCEPT !.deps = @ \union todo[p]]
<1>2. r.history = entry[p].history /\ r.version = entry[p].version
  BY <1>1 DEF Row
<1>3. rows' = Upsert(about[p], r)
  BY DEF LinkWrite
<1> HIDE DEF r
<1>4. /\ DOMAIN rows' = DOMAIN rows /\ rows'[about[p]] = r
      /\ \A d \in DOMAIN rows \ {about[p]} : rows'[d] = rows[d]
  BY <1>1, <1>3 DEF Upsert
<1>5. rows[about[p]].history \subseteq r.history /\ rows[about[p]].version <= r.version
  BY <1>1, <1>2, VersionsAreNumbers
<1> QED
  BY <1>1, <1>4, <1>5, OneRowKept

LEMMA CommitterAdds ==
  ASSUME GraphInv, NEW p \in Procs, Committer(p), rows' # rows
  PROVE  Kept
<1> DEFINE r == Version(p)
<1>1. /\ about[p] \in DOMAIN rows /\ entry[p] = rows[about[p]]
      /\ r \in Row /\ entry[p].history \subseteq r.history
      /\ Linked(r) = Linked(entry[p]) /\ r.dependents = entry[p].dependents
  BY VersionTyped
<1>2. rows' = Upsert(about[p], r)
  BY Committed
<1>3. entry[p].version <= r.version
  <2>1. entry[p].version \in Nat
    BY <1>1, VersionsAreNumbers
  <2>2. CASE pc[p] = "complete"
    BY <2>1, <2>2 DEF Version
  <2>3. CASE pc[p] = "landed"
    <3>1. /\ r.version = change[p].version /\ entry[p].version = change[p].version - 1
          /\ change[p].version \in Nat
      BY <2>3, Committed, VersionTyped DEF Change
    <3> QED
      BY <2>1, <3>1
  <2>4. CASE pc[p] \in {"commit", "baseline"}
    <3>1. r.version = entry[p].version + 1
      BY <2>4, VersionTyped
    <3> QED
      BY <2>1, <3>1
  <2> QED
    BY <2>2, <2>3, <2>4, VersionTyped
<1> HIDE DEF r
<1>4. /\ DOMAIN rows' = DOMAIN rows /\ rows'[about[p]] = r
      /\ \A d \in DOMAIN rows \ {about[p]} : rows'[d] = rows[d]
  BY <1>1, <1>2, RowRewritten
<1> QED
  BY <1>1, <1>3, <1>4, OneRowKept

LEMMA LoopWriteChanges ==
  ASSUME GraphInv, NEW p \in Procs, LoopWrite(p)
  PROVE  Kept
<1>1. /\ at[p] \in DOMAIN rows /\ rows'[at[p]] = Changed(p) /\ copy[p] = rows[at[p]]
      /\ DOMAIN rows' = DOMAIN rows /\ \A d \in DOMAIN rows \ {at[p]} : rows'[d] = rows[d]
  BY LoopWrites
<1>2. Changed(p).history = copy[p].history /\ Changed(p).version = copy[p].version
  BY ChangedTyped DEF LoopWrite
<1>3. /\ rows[at[p]].history \subseteq Changed(p).history
      /\ rows[at[p]].version <= Changed(p).version
  BY <1>1, <1>2, VersionsAreNumbers
<1> QED
  BY <1>1, <1>3, OneRowKept

LEMMA ImportRestores ==
  ASSUME GraphInv, NEW p \in Procs, ImportManifestData(p), rows' # rows
  PROVE  Restores /\ rows' = backup.rows /\ backup # None
<1>1. pc[p] = "import" /\ pc'[p] = "end" /\ rows' = backup.rows
  BY DEF ImportManifestData, GraphInv, TypeOK
<1> QED
  BY <1>1 DEF Restores, GraphInv, CopiesFresh, CopyFresh

LEMMA RemoveRowKeepsVersions ==
  ASSUME GraphInv, NEW p \in Procs, RemoveRow(p)
  PROVE  /\ DOMAIN rows' \subseteq DOMAIN rows
         /\ \A c \in DOMAIN rows' : rows'[c] = rows[c] /\ rows[c].version <= rows'[c].version
<1>1. DOMAIN rows' \subseteq DOMAIN rows /\ \A c \in DOMAIN rows' : rows'[c] = rows[c]
  BY DEF RemoveRow
<1> QED
  BY <1>1, VersionsAreNumbers

VersionsKept ==
    Restores \/ \A c \in DOMAIN rows \intersect DOMAIN rows' :
        /\ rows[c].history \subseteq rows'[c].history
        /\ rows[c].version <= rows'[c].version

LEMMA StepKeepsVersions ==
  ASSUME GraphInv, [Next]_vars, rows' # rows
  PROVE  VersionsKept
<1> PICK p \in Procs : \/ Register(p) \/ LinkWrite(p) \/ LoopWrite(p) \/ RemoveRow(p)
                       \/ ImportManifestData(p) \/ Committer(p)
  BY WritesOfRows
<1>1. CASE Kept
  BY <1>1 DEF Kept, VersionsKept
<1>2. CASE Register(p)
  BY <1>2, RegisterAdds DEF VersionsKept
<1>3. CASE RemoveRow(p)
  BY <1>3, RemoveRowKeepsVersions DEF VersionsKept
<1>4. CASE ImportManifestData(p)
  BY <1>4, ImportRestores DEF VersionsKept
<1> QED
  BY <1>1, <1>2, <1>3, <1>4, LinkWriteChanges, LoopWriteChanges, CommitterAdds

AddedByCreating ==
    Restores \/ \A c \in DOMAIN rows' \ DOMAIN rows :
        \E p \in Procs : pc[p] = "planned" /\ about[p] = c

LEMMA StepAddsByCreating ==
  ASSUME GraphInv, [Next]_vars, rows' # rows
  PROVE  AddedByCreating
<1> PICK p \in Procs : \/ Register(p) \/ LinkWrite(p) \/ LoopWrite(p) \/ RemoveRow(p)
                       \/ ImportManifestData(p) \/ Committer(p)
  BY WritesOfRows
<1>1. CASE Kept
  BY <1>1 DEF Kept, AddedByCreating
<1>2. CASE Register(p)
  <2>1. pc[p] = "planned"
    BY <1>2 DEF Register
  <2> QED
    BY <1>2, <2>1, RegisterAdds DEF AddedByCreating
<1>3. CASE RemoveRow(p)
  BY <1>3, RemoveRowKeepsVersions DEF AddedByCreating
<1>4. CASE ImportManifestData(p)
  BY <1>4, ImportRestores DEF AddedByCreating
<1> QED
  BY <1>1, <1>2, <1>3, <1>4, LinkWriteChanges, LoopWriteChanges, CommitterAdds

LEMMA StepRemovesUnreferred ==
  ASSUME GraphInv, [Next]_vars, crashes = 0,
         NEW c \in DOMAIN rows \ DOMAIN rows', NEW d \in DOMAIN rows'
  PROVE  c \notin Linked(rows'[d])
<1> PICK p \in Procs : \/ Register(p) \/ LinkWrite(p) \/ LoopWrite(p) \/ RemoveRow(p)
                       \/ ImportManifestData(p) \/ Committer(p)
  BY WritesOfRows
<1>1. CASE RemoveRow(p)
  <2>1. pc[p] = "remove"
    BY <1>1 DEF RemoveRow
  <2>2. HalfUnreferred(p) /\ Pending(p) = {}
    BY <2>1 DEF GraphInv, GraphKept, GraphAt, Unreferring, HalfUnreferred
  <2>3. /\ DOMAIN rows' = DOMAIN rows \ {about[p]} /\ d \in DOMAIN rows
        /\ rows'[d] = rows[d] /\ c = about[p]
    BY <1>1 DEF RemoveRow
  <2> QED
    BY <2>2, <2>3 DEF HalfUnreferred
<1>2. CASE ImportManifestData(p)
  <2>1. rows' = backup.rows /\ Whole(backup.rows)
    BY <1>2, ImportRestores DEF GraphInv, GraphKept, BackupWhole
  <2> QED
    BY <2>1 DEF Whole, Closed
<1>3. CASE Kept
  BY <1>3 DEF Kept
<1> QED
  BY <1>1, <1>2, <1>3, RegisterAdds, LinkWriteChanges, LoopWriteChanges, CommitterAdds

-----------------------------------------------------------------------------
(* The theorems                                                            *)

\* Nothing is claimed of a process that a reconciliation works beside.
SerialInv == ~ beside => GraphInv

LEMMA GraphStep ==
  ASSUME SerialInv, [Next]_vars, ~ beside'
  PROVE  ~ beside /\ GraphInv'
<1>1. CASE UNCHANGED vars
  <2>1. UNCHANGED <<rows, journal, backup, lock, pc, about, number, entry, change, queue,
                    todo, at, copy, commands, crashes, beside>>
    BY <1>1 DEF vars
  <2>2. ~ beside /\ GraphInv
    BY <2>1 DEF SerialInv
  <2>3. TypeOK' /\ OneAtWork' /\ CopiesFresh'
    BY <2>1, <2>2 DEF GraphInv, TypeOK, OneAtWork, CopiesFresh, CopyFresh
  <2>4. GraphKept'
    BY <2>1, <2>2 DEF GraphInv, GraphKept, GraphAt, BackupWhole, Quiet, AtWork, HalfLinked,
       HalfUnlinked, HalfUnreferred, Pending
  <2> QED
    BY <2>2, <2>3, <2>4 DEF GraphInv
<1>2. ASSUME NEW p \in Procs, Begin(p) \/ Reconcile(p) \/ Step(p) \/ Crash(p)
      PROVE  ~ beside /\ GraphInv'
  <2>1. ~ beside
    BY <1>2 DEF Begin, Reconcile, Crash, Step, End, CheckNew, Register, LinkRead, LinkWrite,
       DeleteRead, ReadEntry, JournalChange, Commit, Complete, AcceptBaseline, TakeChange,
       CompleteLanded, LoopRead, LoopWrite, LoopEnd, RemoveRow, ExportManifestData,
       ReadBackup, ImportManifestData
  <2>2. GraphInv
    BY <2>1 DEF SerialInv
  <2>3. CASE Committer(p)
    BY <2>1, <2>2, <2>3, CommitterKeeps
  <2>4. CASE Step(p) /\ ~ Committer(p)
    <3>1. \/ ExportManifestData(p) \/ ReadBackup(p) \/ ImportManifestData(p)
          \/ CheckNew(p) \/ Register(p) \/ LinkRead(p) \/ LinkWrite(p)
          \/ DeleteRead(p) \/ ReadEntry(p) \/ JournalChange(p) \/ TakeChange(p)
          \/ LoopRead(p) \/ LoopWrite(p) \/ LoopEnd(p) \/ RemoveRow(p) \/ End(p)
      BY <2>4 DEF Step, Committer
    <3> QED
      BY <2>1, <2>2, <3>1, CheckNewKeeps, RegisterKeeps, LinkReadKeeps, LinkWriteKeeps,
         DeleteReadKeeps, ReadEntryKeeps, JournalChangeKeeps, TakeChangeKeeps,
         LoopReadKeeps, LoopWriteKeeps, LoopEndKeeps, RemoveRowKeeps, ExportKeeps,
         ReadBackupKeeps, ImportKeeps, EndKeeps
  <2> QED
    BY <1>2, <2>1, <2>2, <2>3, <2>4, BeginKeeps, ReconcileKeeps, CrashKeeps
<1> QED
  BY <1>1, <1>2 DEF Next, Over

\* While no reconciliation works beside another process, the invariant is kept by every
\* command and every reconciliation, and by kills of them.
THEOREM GraphInductive == Spec => []SerialInv
<1>1. Init => SerialInv
  BY GraphInit DEF SerialInv
<1>2. SerialInv /\ [Next]_vars => SerialInv'
  BY GraphStep DEF SerialInv
<1> QED
  BY <1>1, <1>2, PTL DEF Spec

\* Between commands, and until one is killed, a component stands in the
\* depended_on_by of exactly those of its depends_on that linkComponents found
\* (linkComponents, runDelete), whatever else the plan named.
THEOREM GraphIsSymmetric == Spec => []GraphSymmetric
<1>1. SerialInv => GraphSymmetric
  BY DEF SerialInv, GraphInv, GraphKept, Whole, GraphSymmetric
<1> QED
  BY <1>1, GraphInductive, PTL

\* Until a command is killed, a delete, or a restore, leaves nobody depending on what
\* it takes away, other than those that named it before it was there (runDelete,
\* importManifestData).
THEOREM DeletesLeaveNoDependents == Spec => DeleteLeavesNoDependents
<1>1. SerialInv /\ [Next]_vars =>
         [crashes = 0 /\ ~ beside => \A c \in DOMAIN rows \ DOMAIN rows' :
             \A d \in DOMAIN rows' : c \notin Linked(rows'[d])]_rows
  BY StepRemovesUnreferred DEF SerialInv
<1> QED
  BY <1>1, GraphInductive, PTL DEF Spec, DeleteLeavesNoDependents

\* No command, and no reconciliation, clobbers a version that another one committed,
\* whatever was killed before (commitManifestVersioned, acceptDrift, the unconditional
\* upserts).
THEOREM CommittedVersionsStay == Spec => CommitsStay
<1>1. SerialInv /\ [Next]_vars =>
         [beside \/ Restores \/ \A c \in DOMAIN rows \intersect DOMAIN rows' :
             /\ rows[c].history \subseteq rows'[c].history
             /\ rows[c].version <= rows'[c].version]_rows
  BY StepKeepsVersions DEF SerialInv, VersionsKept
<1> QED
  BY <1>1, GraphInductive, PTL DEF Spec, CommitsStay

\* No upsert of a stale copy brings a deleted component back.
THEOREM DeletedComponentsStayDeleted == Spec => DeletedStaysDeleted
<1>1. SerialInv /\ [Next]_vars =>
         [beside \/ Restores \/ \A c \in DOMAIN rows' \ DOMAIN rows :
             \E p \in Procs : pc[p] = "planned" /\ about[p] = c]_rows
  BY StepAddsByCreating DEF SerialInv, AddedByCreating
<1> QED
  BY <1>1, GraphInductive, PTL DEF Spec, DeletedStaysDeleted
=============================================================================
