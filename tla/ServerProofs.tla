---------------------------- MODULE ServerProofs ----------------------------
(***************************************************************************)
(* What a server process takes part in: the session it serves, and the     *)
(* lock that its scheduler looks at and that commands hold.  No step is    *)
(* shared; each has an invariant of its own.                               *)
(*                                                                         *)
(* The session.  A call that stands behind the gate was approved and its   *)
(* attempt counted, so the work done and under way never outgrows the      *)
(* attempts; a call that is alone finds the console the way it left it,    *)
(* also where it calls itself; and what a call goes on with is what it     *)
(* found in the listing it was given.  For any sets of components, paths,  *)
(* calls and intents.                                                      *)
(*                                                                         *)
(* The lock protects its holder, for any number of commands, process ids,  *)
(* kills and foreign programs, alone and next to the scheduler, until two  *)
(* processes meet inside the lock functions, or a heartbeat is later than  *)
(* the lock allows; a late holder still releases no lock but its own.      *)
(***************************************************************************)
EXTENDS Maintenance, McpSession, FiniteSetTheorems, TLAPS

-----------------------------------------------------------------------------
(* The session: its invariant.                                             *)

\* Where a call of each tool can be.
Places ==
    ({"none"} \X {"idle"}) \union ((Plain \union OnComponent) \X {"start"})
    \union ({"create"} \X {"start", "plan", "suggest", "scaffold", "register", "outer"})
    \union ({"modify"} \X {"start", "read", "commit", "outer"})
    \union ({"ingest"} \X {"ingest", "commit"}) \union ({"change"} \X {"start", "match"})
    \union ({"delete"} \X {"start", "delete"}) \union ({"accept"} \X {"accept"})
    \union ({"activate", "rollback"} \X {"migrate"})
    \union ({"index"} \X {"start", "index", "write"}) \union ({"reconcile"} \X {"repair"})

\* What a call is fits where it is; a dry one is nowhere near a write.
Fits(r) ==
    /\ <<r.tool, r.at>> \in Places
    /\ r.nested => r.tool \in {"create", "modify"}
    /\ r.at = "outer" => r.nested
    /\ r.dry => /\ r.tool \in {"create", "modify", "change"}
                /\ r.at \notin {"scaffold", "register", "commit"}
    /\ r.auto => r.tool = "ingest"
    /\ r.tool = "change" /\ r.comp # None => r.intent = NoIntent
    /\ r.tool \in OnComponent => r.comp # None
    /\ r.at \in {"suggest", "scaffold", "register", "repair"} => r.plan.id \in Components

\* A call behind the gate, which only an approval opens.
Granted(r) ==
    \/ r.at \in {"scaffold", "register", "delete", "accept", "migrate"}
    \/ r.tool = "modify" /\ r.at \in {"read", "commit"} /\ ~ r.dry
    \/ r.tool = "ingest" /\ r.at = "commit" /\ ~ r.auto
    \/ r.tool = "index" /\ r.at \in {"index", "write"} /\ r.flag

\* A call whose attempt was counted, and whose work is still to be done.
Charged(r) == Granted(r) \/ r.at = "match" \/ (r.dry /\ r.at \in {"plan", "suggest", "read"})

\* What a call resolves, or has resolved, against the listing it was given.
Mentioned(r) ==
    LET exact == Candidates(r.list, r.intent.exact) IN
    /\ r.at = "match" => exact = {}
    /\ r.nested /\ r.tool = "modify" /\ r.intent # NoIntent =>
            IF exact # {} THEN exact = {r.comp}
            ELSE r.comp \in Candidates(r.list, r.intent.words)

Known(r) == Fits(r) /\ (Granted(r) => approve) /\ Mentioned(r) /\ IsFiniteSet(DOMAIN r.list)

CallsKnown == IsFiniteSet(DOMAIN rows) /\ \A c \in Calls : Known(call[c])

ChargedCalls == {c \in Calls : Charged(call[c])}

\* Every attempt pays for one piece of work, done or under way.
AttemptsSuffice ==
    /\ IsFiniteSet(ChargedCalls) /\ worked + Cardinality(ChargedCalls) <= used
    /\ used <= MaxGatedActions

Within(r) == r.nested /\ r.at # "outer"

\* A handler has found a console for each call it is inside of.
ConsolesNested ==
    \A c \in Calls :
        Len(saved[c]) = IF ~ Open(c) THEN 0 ELSE IF Within(call[c]) THEN 2 ELSE 1

\* Who is alone leaves the console it has set, also where it calls itself.
LoneKeepStderr ==
    \A c \in Calls : Open(c) /\ alone[c] =>
        /\ console = "stderr"
        /\ Within(call[c]) => saved[c][2] = "stderr"
        /\ \A d \in Calls : Open(d) => d = c

SessionInv == TypeOK /\ CallsKnown /\ AttemptsSuffice /\ ConsolesNested /\ LoneKeepStderr

-----------------------------------------------------------------------------
(* What a step does to its call, and leaves of the others.                 *)

Others(c) ==
    /\ call' = [d \in Calls |-> call'[d]]
    /\ \A d \in Calls \ {c} : call'[d] = call[d]

\* It goes on,
Goes(c, at) ==
    LET r == call[c]
        s == call'[c]
    IN
    /\ Others(c) /\ IsCall(s)
    /\ s.tool = r.tool /\ s.comp = r.comp /\ s.dry = r.dry /\ s.flag = r.flag
    /\ s.intent = r.intent /\ s.nested = r.nested /\ s.at = at
    /\ UNCHANGED <<console, saved>>

\* it ends, or leads back to the purix_change that made it,
Ends(c) ==
    /\ Others(c) /\ IsCall(call'[c])
    /\ IF Within(call[c])
       THEN call'[c] = [call[c] EXCEPT !.at = "outer"] ELSE call'[c] = Request
    /\ console' = Last(saved[c]) /\ saved' = [saved EXCEPT ![c] = Front(@)]

\* or it makes another call.
CallsItself(c, tool) ==
    LET r == call[c]
        s == call'[c]
    IN
    /\ Others(c) /\ IsCall(s)
    /\ s.tool = tool /\ s.at = "start" /\ s.nested
    /\ s.intent = r.intent /\ s.dry = r.dry /\ s.auto = r.auto
    /\ saved' = [saved EXCEPT ![c] = Append(@, console)] /\ console' = "stderr"

USE SessionAssumption

LEMMA NothingListed == IsListing(NoList) /\ DOMAIN NoList = {}
BY DEF IsListing, NoList

LEMMA RequestIsCall == IsCall(Request)
BY NothingListed DEF IsCall, Request, Tools, Labels, Row, NoRow, NoPlan, NoIntent

LEMMA RequestIsKnown == Known(Request)
BY NothingListed, FS_EmptySet
DEF Known, Fits, Granted, Mentioned, Places, Request, Plain, OnComponent

LEMMA EntryIsRow ==
  ASSUME TypeOK, NEW c \in Calls
  PROVE  EntryRead(c) \in Row
BY DEF TypeOK, EntryRead, IsListing, IsCall

LEMMA GotoGoes ==
  ASSUME TypeOK, NEW c \in Calls, NEW at \in Labels, Goto(c, at)
  PROVE  Goes(c, at) /\ call'[c].auto = call[c].auto /\ call'[c].list = call[c].list
         /\ call'[c].plan = call[c].plan
  <1>1. EntryRead(c) \in Row  BY EntryIsRow
  <1>2. IsCall(call[c]) /\ call = [d \in Calls |-> call[d]]  BY DEF TypeOK
  <1>3. call' = [call EXCEPT ![c] = [@ EXCEPT !.at = at, !.seen = EntryRead(c)]]
    BY DEF Goto
  <1>4. Others(c) /\ call'[c] = [call[c] EXCEPT !.at = at, !.seen = EntryRead(c)]
    BY <1>2, <1>3 DEF Others
  <1>5. IsCall(call'[c])
    BY <1>1, <1>2, <1>4 DEF IsCall
  <1> QED  BY <1>2, <1>4, <1>5 DEF Goes, Goto, IsCall

LEMMA FinishEnds ==
  ASSUME SessionInv, NEW c \in Calls, Open(c), Finish(c)
  PROVE  Ends(c)
  <1>1. IsCall(call[c]) /\ call = [d \in Calls |-> call[d]]  BY DEF SessionInv, TypeOK
  <1>2. Len(saved[c]) = IF Within(call[c]) THEN 2 ELSE 1
    BY DEF SessionInv, ConsolesNested
  <1>3. Len(saved[c]) = 1 <=> ~ Within(call[c])  BY <1>2
  <1>4. Others(c) /\ call'[c] = IF Within(call[c]) THEN [call[c] EXCEPT !.at = "outer"] ELSE Request
    <2>1. CASE Within(call[c])
      <3>1. call' = [call EXCEPT ![c] = [call[c] EXCEPT !.at = "outer"]]  BY <1>3, <2>1 DEF Finish
      <3> QED  BY <1>1, <2>1, <3>1 DEF Others
    <2>2. CASE ~ Within(call[c])
      <3>1. call' = [call EXCEPT ![c] = Request]  BY <1>3, <2>2 DEF Finish
      <3> QED  BY <1>1, <2>2, <3>1 DEF Others
    <2> QED  BY <2>1, <2>2
  <1>5. IsCall(call'[c])  BY <1>1, <1>4, RequestIsCall DEF IsCall, Labels
  <1> QED  BY <1>4, <1>5 DEF Ends, Finish, ConsoleFound

LEMMA NestedCalls ==
  ASSUME TypeOK, NEW c \in Calls, NEW tool \in Tools, NEW x \in Components, NEW list,
         IsListing(list), Nested(c, tool, x, list)
  PROVE  CallsItself(c, tool) /\ call'[c].comp = x /\ call'[c].list = list
  <1>1. IsCall(call[c]) /\ call = [d \in Calls |-> call[d]]  BY DEF TypeOK
  <1>2. Others(c) /\ call'[c] = [call[c] EXCEPT !.tool = tool, !.at = "start", !.comp = x,
                    !.nested = TRUE, !.list = list]
    BY <1>1 DEF Nested, Others
  <1>3. IsCall(call'[c])  BY <1>1, <1>2 DEF IsCall, Labels
  <1> QED  BY <1>1, <1>2, <1>3 DEF CallsItself, Nested, IsCall

-----------------------------------------------------------------------------
(* Each of the three keeps what is known of the calls and of the console.  *)

CallsKept(c) ==
    /\ Others(c) /\ \A d \in Calls : IsCall(call'[d]) /\ Known(call'[d])
    /\ console' \in {"stdout", "stderr"} /\ saved' \in [Calls -> Seq({"stdout", "stderr"})]
    /\ ConsolesNested' /\ LoneKeepStderr'

LEMMA LastIsThere ==
  ASSUME NEW S, NEW s \in Seq(S), Len(s) >= 1
  PROVE  /\ Last(s) = s[Len(s)] /\ Last(s) \in S
         /\ Front(s) \in Seq(S) /\ Len(Front(s)) = Len(s) - 1
  <1>1. Last(s) = s[Len(s)] /\ Last(s) \in S  BY DEF Last
  <1>2. Front(s) = [i \in 1..(Len(s) - 1) |-> s[i]]  BY DEF Front
  <1>3. Len(s) - 1 \in Nat /\ \A i \in 1..(Len(s) - 1) : s[i] \in S  OBVIOUS
  <1> QED  BY <1>1, <1>2, <1>3

LEMMA OpenUnlessIdle ==
  ASSUME SessionInv, NEW c \in Calls
  PROVE  /\ Open(c) <=> call[c].tool # "none"
         /\ Within(call[c]) => Open(c)
BY DEF SessionInv, CallsKnown, Known, Fits, Places, Open, Within, Plain, OnComponent

LEMMA EndingKeeps ==
  ASSUME SessionInv, NEW c \in Calls, Open(c), Ends(c), alone' = alone
  PROVE  CallsKept(c) /\ ~ Charged(call'[c])
  <1> USE DEF SessionInv
  <1>1. TypeOK /\ IsCall(call[c]) /\ saved[c] \in Seq({"stdout", "stderr"})  BY DEF TypeOK
  <1>2. Len(saved[c]) = IF Within(call[c]) THEN 2 ELSE 1  BY DEF ConsolesNested
  <1>3. /\ Last(saved[c]) = saved[c][Len(saved[c])] /\ Last(saved[c]) \in {"stdout", "stderr"}
        /\ Front(saved[c]) \in Seq({"stdout", "stderr"})
        /\ Len(Front(saved[c])) = Len(saved[c]) - 1
    <2>1. Len(saved[c]) >= 1  BY <1>2
    <2> QED  BY <1>1, <2>1, LastIsThere
  <1>4. call'[c].at = IF Within(call[c]) THEN "outer" ELSE "idle"
    BY <1>1 DEF Ends, Request, IsCall
  <1>5. Known(call'[c]) /\ ~ Charged(call'[c])
    <2>1. CASE ~ Within(call[c])
      BY <2>1, RequestIsKnown DEF Ends, Charged, Granted, Request
    <2>2. CASE Within(call[c])
      <3> DEFINE s == call'[c]
      <3>1. /\ s.tool = call[c].tool /\ s.at = "outer" /\ s.nested /\ s.dry = call[c].dry
            /\ s.auto = call[c].auto /\ s.comp = call[c].comp /\ s.intent = call[c].intent
            /\ s.list = call[c].list
        BY <1>1, <2>2 DEF Ends, IsCall, Within
      <3>2. Known(call[c])  BY DEF CallsKnown
      <3>3. s.tool \in {"create", "modify"}  BY <2>2, <3>1, <3>2 DEF Known, Fits, Within
      <3>4. Fits(s)  BY <3>1, <3>2, <3>3 DEF Known, Fits, Places
      <3>5. ~ Granted(s) /\ ~ Charged(s)  BY <3>1, <3>3 DEF Granted, Charged
      <3>6. Mentioned(s)  BY <2>2, <3>1, <3>2 DEF Known, Mentioned, Within
      <3> QED  BY <3>1, <3>2, <3>4, <3>5, <3>6 DEF Known
    <2> QED  BY <2>1, <2>2
  <1>6. \A d \in Calls : IsCall(call'[d]) /\ Known(call'[d])
    BY <1>5 DEF TypeOK, CallsKnown, Ends, Others
  <1>7. console' \in {"stdout", "stderr"} /\ saved' \in [Calls -> Seq({"stdout", "stderr"})]
    BY <1>1, <1>3 DEF Ends, TypeOK
  <1>8. /\ saved'[c] = Front(saved[c]) /\ \A d \in Calls \ {c} : saved'[d] = saved[d]
    BY DEF Ends, TypeOK
  <1>9. ~ Within(call'[c])
    BY <1>4 DEF Within, Ends, Request
  <1>10. ConsolesNested'
    BY <1>2, <1>3, <1>4, <1>8, <1>9 DEF ConsolesNested, Ends, Others, Open
  <1>11. LoneKeepStderr'
    <2> SUFFICES ASSUME NEW d \in Calls, call'[d].at # "idle", alone[d]
                 PROVE  /\ console' = "stderr"
                        /\ Within(call'[d]) => saved'[d][2] = "stderr"
                        /\ \A e \in Calls : call'[e].at # "idle" => e = d
      BY DEF LoneKeepStderr, Open
    <2>1. \A e \in Calls : call'[e].at # "idle" => Open(e)
      BY <1>4 DEF Ends, Others, Open
    <2>2. d = c  BY <2>1 DEF LoneKeepStderr
    <2>3. Within(call[c])  BY <1>4, <2>2
    <2>4. console' = "stderr"  BY <1>2, <1>3, <2>2, <2>3 DEF Ends, LoneKeepStderr
    <2> QED  BY <1>9, <2>1, <2>2, <2>4 DEF LoneKeepStderr
  <1> QED  BY <1>5, <1>6, <1>7, <1>10, <1>11 DEF CallsKept, Ends, Others

LEMMA GoingKeeps ==
  ASSUME SessionInv, NEW c \in Calls, Open(c), call[c].at # "outer",
         NEW at \in Labels \ {"idle", "outer"}, Goes(c, at), alone' = alone, Known(call'[c])
  PROVE  CallsKept(c)
  <1> USE DEF SessionInv
  <1>1. \A d \in Calls : IsCall(call'[d]) /\ Known(call'[d])
    BY DEF TypeOK, CallsKnown, Goes, Others
  <1>2. ASSUME NEW d \in Calls
        PROVE  /\ call'[d].at # "idle" <=> Open(d)
               /\ Within(call'[d]) <=> Within(call[d])
    <2>1. CASE d = c  BY <2>1 DEF Goes, Open, Within
    <2>2. CASE d # c  BY <2>2 DEF Goes, Others, Open
    <2> QED  BY <2>1, <2>2
  <1>3. ConsolesNested'
    <2> SUFFICES ASSUME NEW d \in Calls
                 PROVE  Len(saved'[d]) = IF ~ call'[d].at # "idle" THEN 0
                                         ELSE IF Within(call'[d]) THEN 2 ELSE 1
      BY DEF ConsolesNested, Open
    <2> QED  BY <1>2 DEF ConsolesNested, Goes
  <1>4. LoneKeepStderr'
    <2> SUFFICES ASSUME NEW d \in Calls, call'[d].at # "idle", alone[d]
                 PROVE  /\ console' = "stderr"
                        /\ Within(call'[d]) => saved'[d][2] = "stderr"
                        /\ \A e \in Calls : call'[e].at # "idle" => e = d
      BY DEF LoneKeepStderr, Open
    <2> QED  BY <1>2 DEF LoneKeepStderr, Goes
  <1> QED  BY <1>1, <1>3, <1>4 DEF CallsKept, TypeOK, Goes, Others

LEMMA CallingKeeps ==
  ASSUME SessionInv, NEW c \in Calls, Open(c), call[c].tool = "change",
         NEW tool, CallsItself(c, tool), alone' = alone, Known(call'[c])
  PROVE  CallsKept(c) /\ ~ Charged(call'[c])
  <1> USE DEF SessionInv
  <1>0. Known(call[c])  BY DEF CallsKnown
  <1>1. ~ Within(call[c]) /\ Within(call'[c])
    BY <1>0 DEF Known, Fits, Within, CallsItself
  <1>2. /\ Len(saved[c]) = 1 /\ saved[c] \in Seq({"stdout", "stderr"})
        /\ console \in {"stdout", "stderr"}
    BY <1>1 DEF ConsolesNested, TypeOK
  <1>3. /\ saved'[c] = Append(saved[c], console) /\ \A d \in Calls \ {c} : saved'[d] = saved[d]
        /\ Len(saved'[c]) = 2 /\ saved'[c][2] = console /\ saved'[c] \in Seq({"stdout", "stderr"})
    <2>1. /\ saved'[c] = Append(saved[c], console)
          /\ \A d \in Calls \ {c} : saved'[d] = saved[d]
      BY DEF CallsItself, TypeOK
    <2> HIDE DEF SessionInv
    <2> QED  BY <1>2, <2>1
  <1>4. \A d \in Calls : IsCall(call'[d]) /\ Known(call'[d])
    BY DEF TypeOK, CallsKnown, CallsItself, Others
  <1>5. \A d \in Calls : call'[d].at # "idle" <=> Open(d)  BY DEF CallsItself, Others, Open
  <1>6. \A d \in Calls \ {c} : call'[d] = call[d]  BY DEF CallsItself, Others
  <1>7. ConsolesNested'  BY <1>1, <1>3, <1>5, <1>6 DEF ConsolesNested, Open
  <1>8. LoneKeepStderr'
    BY <1>1, <1>3, <1>5, <1>6 DEF LoneKeepStderr, Open, CallsItself
  <1>9. ~ Charged(call'[c])  BY DEF Charged, Granted, CallsItself
  <1>10. saved' \in [Calls -> Seq({"stdout", "stderr"})] /\ console' \in {"stdout", "stderr"}
    BY <1>3 DEF CallsItself, TypeOK
  <1> QED  BY <1>4, <1>7, <1>8, <1>9, <1>10 DEF CallsKept, CallsItself, Others

-----------------------------------------------------------------------------
(* The budget.                                                             *)

\* A step of a call leaves the budget alone, counts an attempt, or does the work
\* that an attempt of its own was counted for.
Accounts(c) ==
    \/ UNCHANGED budget /\ (Charged(call'[c]) => Charged(call[c]))
    \/ worked' = worked /\ used < MaxGatedActions /\ used' = used + 1
    \/ worked' = worked + 1 /\ used' = used /\ Charged(call[c]) /\ ~ Charged(call'[c])

LEMMA AccountingSuffices ==
  ASSUME SessionInv, NEW c \in Calls, Others(c), Accounts(c)
  PROVE  AttemptsSuffice' /\ used' \in Nat /\ worked' \in Nat
  <1> DEFINE S == ChargedCalls
             T == {d \in Calls : Charged(call'[d])}
  <1>1. IsFiniteSet(S) /\ worked + Cardinality(S) <= used /\ used <= MaxGatedActions
    BY DEF SessionInv, AttemptsSuffice
  <1>2. used \in Nat /\ worked \in Nat /\ Cardinality(S) \in Nat
    BY <1>1, FS_CardinalityType DEF SessionInv, TypeOK
  <1>3. T = IF Charged(call'[c]) THEN S \union {c} ELSE S \ {c}
    BY DEF ChargedCalls, Others
  <1>4. c \in S <=> Charged(call[c])  BY DEF ChargedCalls
  <1>5. ChargedCalls' = T  BY DEF ChargedCalls
  <1> HIDE DEF S, T
  <1>6. /\ IsFiniteSet(T) /\ Cardinality(T) \in Nat
        /\ Cardinality(T) <= Cardinality(S) + 1
        /\ (Charged(call'[c]) => Charged(call[c])) => Cardinality(T) <= Cardinality(S)
        /\ Charged(call[c]) /\ ~ Charged(call'[c]) => Cardinality(T) = Cardinality(S) - 1
    <2>1. /\ IsFiniteSet(S \union {c})
          /\ Cardinality(S \union {c}) = IF c \in S THEN Cardinality(S) ELSE Cardinality(S) + 1
      BY <1>1, FS_AddElement
    <2>2. /\ IsFiniteSet(S \ {c})
          /\ Cardinality(S \ {c}) = IF c \in S THEN Cardinality(S) - 1 ELSE Cardinality(S)
      BY <1>1, FS_RemoveElement
    <2>3. IsFiniteSet(T)  BY <1>3, <2>1, <2>2
    <2>4. Cardinality(T) \in Nat  BY <2>3, FS_CardinalityType
    <2>5. CASE Charged(call'[c])  BY <1>2, <1>3, <1>4, <2>1, <2>3, <2>4, <2>5
    <2>6. CASE ~ Charged(call'[c])  BY <1>2, <1>3, <1>4, <2>2, <2>3, <2>4, <2>6
    <2> QED  BY <2>5, <2>6
  <1> QED  BY <1>1, <1>2, <1>5, <1>6 DEF Accounts, AttemptsSuffice, budget

\* A call that went on is known where it arrived.
LEMMA ArrivesKnown ==
  ASSUME SessionInv, NEW c \in Calls, NEW at, Goes(c, at), at \notin {"outer", "match"},
         call'[c].list = call[c].list,
         at \in {"suggest", "scaffold", "register", "repair"} => call'[c].plan.id \in Components,
         <<call[c].tool, at>> \in Places,
         call[c].dry => at \notin {"scaffold", "register", "commit"},
         call'[c].auto => call[c].tool = "ingest",
         Granted(call'[c]) => approve
  PROVE  Known(call'[c])
  <1>1. Known(call[c])  BY DEF SessionInv, CallsKnown
  <1>2. Fits(call'[c])  BY <1>1 DEF Known, Fits, Goes
  <1>3. Mentioned(call'[c])  BY <1>1 DEF Known, Mentioned, Goes
  <1> QED  BY <1>1, <1>2, <1>3 DEF Known, Goes

Keeps(c) == CallsKept(c) /\ Accounts(c)

LEMMA FinishKeeps ==
  ASSUME SessionInv, NEW c \in Calls, Open(c), Finish(c), alone' = alone
  PROVE  CallsKept(c) /\ ~ Charged(call'[c]) /\ Others(c)
BY FinishEnds, EndingKeeps DEF Ends

LEMMA GotoKeeps ==
  ASSUME SessionInv, NEW c \in Calls, Open(c), call[c].at # "outer", alone' = alone,
         NEW at \in Labels \ {"idle", "outer", "match"}, Goto(c, at),
         <<call[c].tool, at>> \in Places,
         call[c].dry => at \notin {"scaffold", "register", "commit"},
         at \in {"suggest", "scaffold", "register", "repair"} => call[c].plan.id \in Components,
         Granted([call[c] EXCEPT !.at = at]) => approve
  PROVE  CallsKept(c) /\ Others(c) /\ (Charged(call'[c]) <=> Charged([call[c] EXCEPT !.at = at]))
  <1>1. TypeOK /\ IsCall(call[c])  BY DEF SessionInv, TypeOK
  <1>2. /\ Goes(c, at) /\ call'[c].auto = call[c].auto
        /\ call'[c].list = call[c].list /\ call'[c].plan = call[c].plan
    BY <1>1, GotoGoes
  <1> DEFINE r == [call[c] EXCEPT !.at = at]
  <1>3. r.at = at /\ r.tool = call[c].tool /\ r.dry = call[c].dry /\ r.flag = call[c].flag
        /\ r.auto = call[c].auto
    BY <1>1 DEF IsCall
  <1>4. (Granted(call'[c]) <=> Granted(r)) /\ (Charged(call'[c]) <=> Charged(r))
    BY <1>2, <1>3 DEF Granted, Charged, Goes
  <1>5. call[c].auto => call[c].tool = "ingest"
    BY DEF SessionInv, CallsKnown, Known, Fits
  <1>6. Known(call'[c])  BY <1>2, <1>4, <1>5, ArrivesKnown
  <1>7. CallsKept(c)  BY <1>2, <1>6, GoingKeeps
  <1> QED  BY <1>2, <1>4, <1>7 DEF Goes

\* An attempt that is refused, and one that leads on.
LEMMA GateKeeps ==
  ASSUME SessionInv, NEW c \in Calls, Open(c), call[c].at # "outer", alone' = alone,
         NEW at \in Labels \ {"idle", "outer", "match"}, Gate(c, at),
         <<call[c].tool, at>> \in Places,
         call[c].dry => at \notin {"scaffold", "register", "commit"},
         at \in {"suggest", "scaffold", "register", "repair"} => call[c].plan.id \in Components
  PROVE  Keeps(c)
  <1>1. CASE Finish(c)
    <2>1. CallsKept(c) /\ ~ Charged(call'[c])  BY <1>1, FinishKeeps
    <2>2. worked' = worked /\ (used' = used \/ (used < MaxGatedActions /\ used' = used + 1))
      BY DEF Gate, Spent, TryConsume, Attempts
    <2> QED  BY <2>1, <2>2 DEF Keeps, Accounts, budget
  <1>2. CASE approve /\ TryConsume /\ Goto(c, at)
    <2>1. CallsKept(c)  BY <1>2, GotoKeeps
    <2> QED  BY <1>2, <2>1 DEF Keeps, Accounts, Gate, TryConsume, Attempts
  <1> QED  BY <1>1, <1>2 DEF Gate

LEMMA PreviewKeeps ==
  ASSUME SessionInv, NEW c \in Calls, Open(c), call[c].at # "outer", alone' = alone,
         NEW at \in {"plan", "read"}, call[c].dry, Preview(c, at),
         <<call[c].tool, at>> \in Places
  PROVE  Keeps(c)
  <1>1. CASE Finish(c)
    <2>1. CallsKept(c) /\ ~ Charged(call'[c])  BY <1>1, FinishKeeps
    <2>2. worked' = worked /\ (used' = used \/ (used < MaxGatedActions /\ used' = used + 1))
      BY DEF Preview, Spent, TryConsume, Attempts
    <2> QED  BY <2>1, <2>2 DEF Keeps, Accounts, budget
  <1>2. CASE TryConsume /\ Goto(c, at)
    <2>1. IsCall(call[c])  BY DEF SessionInv, TypeOK
    <2>2. at \in Labels \ {"idle", "outer", "match"}  BY DEF Labels
    <2>3. ~ Granted([call[c] EXCEPT !.at = at])  BY <2>1 DEF Granted, IsCall
    <2>4. CallsKept(c)  BY <1>2, <2>2, <2>3, GotoKeeps
    <2> QED  BY <1>2, <2>4 DEF Keeps, Accounts, Preview, TryConsume, Attempts
  <1> QED  BY <1>1, <1>2 DEF Preview

LEMMA FinishAlone ==
  ASSUME SessionInv, NEW c \in Calls, Open(c), Finish(c), alone' = alone,
         UNCHANGED budget \/ (Worked /\ Charged(call[c]))
  PROVE  Keeps(c)
BY FinishKeeps DEF Keeps, Accounts, Worked

-----------------------------------------------------------------------------
(* Action by action: the calls, the console and the budget.                *)

LEMMA KnownCall ==
  ASSUME SessionInv, NEW c \in Calls
  PROVE  IsCall(call[c]) /\ Fits(call[c]) /\ (Granted(call[c]) => approve)
BY DEF SessionInv, TypeOK, CallsKnown, Known

LEMMA OuterKeeps ==
  ASSUME SessionInv, NEW c \in Calls, Outer(c) \/ GiveUp(c) \/ Inspect(c) \/ Backup(c)
  PROVE  Keeps(c)
  <1>1. Open(c) /\ Finish(c) /\ alone' = alone /\ UNCHANGED budget
    BY DEF Outer, GiveUp, Inspect, Backup, Open, At
  <1> QED  BY <1>1, FinishAlone

LEMMA CreateStartKeeps ==
  ASSUME SessionInv, NEW c \in Calls, CreateStart(c)
  PROVE  Keeps(c)
  <1> USE DEF CreateStart, At
  <1>1. Open(c) /\ alone' = alone /\ IsCall(call[c])  BY KnownCall DEF Open
  <1>2. CASE Finish(c) /\ UNCHANGED budget  BY <1>1, <1>2, FinishAlone
  <1>3. CASE call[c].dry /\ Preview(c, "plan")
    BY <1>1, <1>3, PreviewKeeps DEF Places
  <1>4. CASE ~ call[c].dry /\ Goto(c, "plan") /\ UNCHANGED budget
    <2> DEFINE r == [call[c] EXCEPT !.at = "plan"]
    <2>1. ~ Granted(r) /\ ~ Charged(r)  BY <1>1, <1>4 DEF Granted, Charged, IsCall
    <2>2. CallsKept(c) /\ ~ Charged(call'[c])
      BY <1>1, <1>4, <2>1, GotoKeeps DEF Places, Labels
    <2> QED  BY <1>4, <2>2 DEF Keeps, Accounts
  <1> QED  BY <1>2, <1>3, <1>4 DEF HandsOnDry

LEMMA CreatePlanKeeps ==
  ASSUME SessionInv, NEW c \in Calls, CreatePlan(c)
  PROVE  Keeps(c)
  <1> USE DEF CreatePlan, At
  <1>1. Open(c) /\ alone' = alone /\ IsCall(call[c])  BY KnownCall DEF Open
  <1>2. CASE Finish(c)  BY <1>1, <1>2, FinishAlone
  <1>3. ASSUME NEW id \in Components, NEW path \in Paths, NEW deps \in SUBSET Components,
               call' = [call EXCEPT ![c].at = "suggest",
                                    ![c].plan = [id |-> id, path |-> path, deps |-> deps]],
               UNCHANGED <<console, saved>>
        PROVE  Keeps(c)
    <2>1. call = [d \in Calls |-> call[d]]  BY DEF SessionInv, TypeOK
    <2>2. /\ Others(c)
          /\ call'[c] = [call[c] EXCEPT !.at = "suggest",
                                        !.plan = [id |-> id, path |-> path, deps |-> deps]]
      BY <1>3, <2>1 DEF Others
    <2> HIDE DEF CreatePlan
    <2>3. /\ IsCall(call'[c]) /\ call'[c].at = "suggest"
          /\ call'[c].auto = call[c].auto /\ call'[c].list = call[c].list
          /\ call'[c].plan.id \in Components
      <3> DEFINE plan == [id |-> id, path |-> path, deps |-> deps]
      <3>1. plan \in [id : Components \union {None}, path : Paths, deps : SUBSET Components]
        OBVIOUS
      <3>2. call'[c] = [call[c] EXCEPT !.at = "suggest", !.plan = plan]  BY <2>2
      <3>3. plan.id \in Components  OBVIOUS
      <3> HIDE DEF plan
      <3> QED  BY <1>1, <3>1, <3>2, <3>3 DEF IsCall, Labels
    <2>4. Goes(c, "suggest")
      <3>1. /\ call'[c].tool = call[c].tool /\ call'[c].comp = call[c].comp
            /\ call'[c].dry = call[c].dry /\ call'[c].flag = call[c].flag
            /\ call'[c].intent = call[c].intent /\ call'[c].list = call[c].list
            /\ call'[c].nested = call[c].nested
        BY <1>1, <2>2 DEF IsCall
      <3> QED  BY <1>3, <2>2, <2>3, <3>1 DEF Goes
    <2> USE DEF CreatePlan
    <2>5. Known(call'[c]) /\ (Charged(call'[c]) => Charged(call[c]))
      <3>1. ~ Granted(call'[c])  BY <2>4 DEF Granted, Goes
      <3>2. Known(call'[c])
        BY <2>3, <2>4, <3>1, KnownCall, ArrivesKnown DEF Places, Fits
      <3> QED  BY <2>4, <3>1, <3>2 DEF Charged, Goes
    <2>6. CallsKept(c)  BY <1>1, <2>4, <2>5, GoingKeeps DEF Labels
    <2> QED  BY <2>5, <2>6 DEF Keeps, Accounts
  <1> QED  BY <1>2, <1>3

LEMMA CreateApproveKeeps ==
  ASSUME SessionInv, NEW c \in Calls, CreateApprove(c)
  PROVE  Keeps(c)
  <1> USE DEF CreateApprove, At
  <1>1. Open(c) /\ alone' = alone  BY DEF Open
  <1>2. CASE call[c].dry /\ Finish(c) /\ Worked  BY <1>1, <1>2, FinishAlone DEF Charged
  <1>3. CASE Finish(c) /\ UNCHANGED budget  BY <1>1, <1>3, FinishAlone
  <1>4. CASE ~ call[c].dry /\ Gate(c, "scaffold")
    <2>1. call[c].plan.id \in Components  BY KnownCall DEF Fits
    <2> QED  BY <1>1, <1>4, <2>1, GateKeeps DEF Places, Labels
  <1> QED  BY <1>2, <1>3, <1>4 DEF HandsOnDry

LEMMA ScaffoldKeeps ==
  ASSUME SessionInv, NEW c \in Calls, Scaffold(c) \/ Register(c)
  PROVE  Keeps(c)
  <1> USE DEF At
  <1>1. Open(c) /\ alone' = alone /\ Granted(call[c])  BY DEF Open, Granted, Scaffold, Register
  <1>2. CASE Finish(c) /\ (UNCHANGED budget \/ Worked)
    BY <1>1, <1>2, FinishAlone DEF Charged
  <1>3. CASE Scaffold(c) /\ Goto(c, "register")
    <2>1. /\ approve /\ ~ call[c].dry /\ call[c].tool = "create" /\ call[c].at = "scaffold"
          /\ call[c].plan.id \in Components
      BY <1>1, <1>3, KnownCall DEF Fits, Scaffold
    <2>2. CallsKept(c)  BY <1>1, <2>1, <1>3, GotoKeeps DEF Places, Labels
    <2> QED  BY <1>1, <1>3, <2>2 DEF Keeps, Accounts, Scaffold, Charged
  <1> QED  BY <1>2, <1>3 DEF Scaffold, Register

LEMMA ModifyKeeps ==
  ASSUME SessionInv, NEW c \in Calls, ModifyStart(c) \/ ModifyWork(c)
  PROVE  Keeps(c)
  <1> USE DEF At
  <1>1. Open(c) /\ alone' = alone  BY DEF Open, ModifyStart, ModifyWork
  <1>2. CASE ModifyStart(c)
    <2>1. CASE Finish(c) /\ UNCHANGED budget  BY <1>1, <2>1, FinishAlone
    <2>2. CASE call[c].dry /\ Preview(c, "read")
      BY <1>1, <1>2, <2>2, PreviewKeeps DEF Places, ModifyStart
    <2>3. CASE ~ call[c].dry /\ Gate(c, "read")
      BY <1>1, <1>2, <2>3, GateKeeps DEF Places, Labels, ModifyStart
    <2> QED  BY <1>2, <2>1, <2>2, <2>3 DEF ModifyStart, HandsOnDry
  <1>3. CASE ModifyWork(c)
    <2>1. Charged(call[c])  BY <1>3 DEF ModifyWork, Charged, Granted
    <2>2. CASE Finish(c) /\ (UNCHANGED budget \/ Worked)  BY <1>1, <2>1, <2>2, FinishAlone
    <2>3. CASE ~ call[c].dry /\ Goto(c, "commit") /\ UNCHANGED budget
      <3>1. Granted(call[c])  BY <1>3, <2>3 DEF ModifyWork, Granted
      <3>2. CallsKept(c)
        BY <1>1, <1>3, <2>3, <3>1, KnownCall, GotoKeeps DEF Places, Labels, ModifyWork
      <3> QED  BY <2>1, <2>3, <3>2 DEF Keeps, Accounts
    <2> QED  BY <1>3, <2>2, <2>3 DEF ModifyWork, HandsOnDry
  <1> QED  BY <1>2, <1>3

LEMMA IngestKeeps ==
  ASSUME SessionInv, NEW c \in Calls, IngestStart(c) \/ IngestWork(c)
  PROVE  Keeps(c)
  <1> USE DEF At
  <1>1. Open(c) /\ alone' = alone /\ IsCall(call[c]) /\ call[c].tool = "ingest" /\ ~ call[c].dry
    BY KnownCall DEF Open, IngestStart, IngestWork, Fits
  <1>2. CASE IngestStart(c)
    <2>1. CASE Finish(c) /\ UNCHANGED budget  BY <1>1, <2>1, FinishAlone
    <2>2. CASE Goto(c, "ingest") /\ UNCHANGED budget
      <3> DEFINE r == [call[c] EXCEPT !.at = "ingest"]
      <3>1. ~ Granted(r) /\ ~ Charged(r)  BY <1>1 DEF Granted, Charged, IsCall
      <3>2. CallsKept(c) /\ ~ Charged(call'[c])
        BY <1>1, <1>2, <2>2, <3>1, GotoKeeps DEF Places, Labels, IngestStart
      <3> QED  BY <2>2, <3>2 DEF Keeps, Accounts
    <2> QED  BY <1>2, <2>1, <2>2 DEF IngestStart
  <1>3. CASE IngestWork(c) /\ Gate(c, "commit")
    BY <1>1, <1>3, GateKeeps DEF Places, Labels, IngestWork
  <1>4. ASSUME IngestWork(c), UNCHANGED <<console, saved, budget>>,
               call' = [call EXCEPT ![c].at = "commit", ![c].auto = TRUE]
        PROVE  Keeps(c)
    <2>1. call = [d \in Calls |-> call[d]]  BY DEF SessionInv, TypeOK
    <2>2. Others(c) /\ call'[c] = [call[c] EXCEPT !.at = "commit", !.auto = TRUE]
      BY <1>4, <2>1 DEF Others
    <2>3. /\ IsCall(call'[c]) /\ call'[c].at = "commit"
          /\ call'[c].auto /\ call'[c].list = call[c].list
      BY <1>1, <2>2 DEF IsCall, Labels
    <2>4. Goes(c, "commit")
      <3>1. /\ call'[c].tool = call[c].tool /\ call'[c].comp = call[c].comp
            /\ call'[c].dry = call[c].dry /\ call'[c].flag = call[c].flag
            /\ call'[c].intent = call[c].intent /\ call'[c].list = call[c].list
            /\ call'[c].nested = call[c].nested
        BY <1>1, <2>2 DEF IsCall
      <3> QED  BY <1>4, <2>2, <2>3, <3>1 DEF Goes
    <2>5. ~ Granted(call'[c]) /\ ~ Charged(call'[c])
      BY <1>1, <2>3, <2>4 DEF Granted, Charged, Goes
    <2>6. Known(call'[c])  BY <1>1, <2>3, <2>4, <2>5, ArrivesKnown DEF Places
    <2>7. CallsKept(c)  BY <1>1, <1>4, <2>4, <2>6, GoingKeeps DEF Labels, IngestWork
    <2> QED  BY <1>4, <2>5, <2>7 DEF Keeps, Accounts
  <1> QED  BY <1>2, <1>3, <1>4 DEF IngestWork, AskForDiff

LEMMA CommitKeeps ==
  ASSUME SessionInv, NEW c \in Calls, Commit(c)
  PROVE  Keeps(c)
  <1>1. Open(c) /\ alone' = alone /\ Finish(c) /\ call[c].at = "commit"  BY DEF Open, Commit
  <1>2. call[c].tool \in {"modify", "ingest"} /\ (call[c].tool = "modify" => ~ call[c].dry)
    BY <1>1, KnownCall DEF Fits, Places, Plain, OnComponent
  <1>3. UNCHANGED budget \/ (Worked /\ ~ call[c].auto)  BY DEF Commit, budget
  <1>4. ~ call[c].auto => Charged(call[c])  BY <1>1, <1>2 DEF Charged, Granted
  <1> QED  BY <1>1, <1>3, <1>4, FinishAlone

\* More mentions find more, and never more than the components there are.
LEMMA CandidatesGrow ==
  ASSUME NEW list, NEW some, NEW more, some \subseteq more
  PROVE  Candidates(list, some) \subseteq Candidates(list, more)
BY DEF Candidates, ById, ByPath, BySymbol

LEMMA CandidatesExist ==
  ASSUME NEW list, NEW mentions, IsFiniteSet(DOMAIN list)
  PROVE  Candidates(list, mentions) \subseteq DOMAIN list /\ IsFiniteSet(Candidates(list, mentions))
  <1>1. BySymbol(list, mentions) \subseteq DOMAIN list
    BY DEF BySymbol, Targets
  <1>2. Candidates(list, mentions) \subseteq DOMAIN list
    BY <1>1 DEF Candidates, ById, ByPath, Targets
  <1> QED  BY <1>2, FS_Subset

LEMMA SingleIsTheOnly ==
  ASSUME NEW found, IsFiniteSet(found), Outcome(found) = "single"
  PROVE  found = {The(found)}
  <1>1. Cardinality(found) = 1  BY DEF Outcome
  <1>2. PICK x : found = {x}  BY <1>1, FS_Singleton
  <1> QED  BY <1>2 DEF The

LEMMA OtherwiseNone ==
  ASSUME NEW found, Outcome(found) # "single", Outcome(found) # "multiple"
  PROVE  found = {}
BY DEF Outcome

LEMMA CalledKnown ==
  ASSUME SessionInv, NEW c \in Calls, call[c].tool = "change",
         NEW tool \in {"create", "modify"}, CallsItself(c, tool),
         IsFiniteSet(DOMAIN call'[c].list), Mentioned(call'[c])
  PROVE  Known(call'[c])
  <1>1. ~ call'[c].auto  BY KnownCall DEF Fits, CallsItself
  <1>2. Fits(call'[c])  BY <1>1 DEF Fits, CallsItself, Places, OnComponent
  <1>3. ~ Granted(call'[c])  BY <1>1 DEF Granted, CallsItself
  <1> QED  BY <1>2, <1>3 DEF Known

LEMMA ChangeStartKeeps ==
  ASSUME SessionInv, NEW c \in Calls, ChangeStart(c)
  PROVE  Keeps(c)
  <1> DEFINE found == Candidates(rows, call[c].intent.exact)
  <1> HIDE DEF found
  <1>1. /\ Open(c) /\ alone' = alone
        /\ IsCall(call[c]) /\ call[c].tool = "change" /\ call[c].at = "start"
    BY KnownCall DEF Open, ChangeStart, At
  <1>2. TypeOK /\ IsListing(rows) /\ IsFiniteSet(DOMAIN rows) /\ DOMAIN rows \subseteq Components
    BY DEF SessionInv, TypeOK, IsListing, CallsKnown
  <1>3. found \subseteq DOMAIN rows /\ IsFiniteSet(found)  BY <1>2, CandidatesExist DEF found
  <1>4. CASE Finish(c) /\ UNCHANGED budget  BY <1>1, <1>4, FinishAlone
  <1>5. CASE Finish(c) /\ Spent /\ UNCHANGED worked
    BY <1>1, <1>5, FinishAlone DEF Spent, budget
  <1>6. ASSUME NEW x \in DOMAIN rows, Nested(c, "modify", x, rows), UNCHANGED budget,
               \/ call[c].comp # None
               \/ found = {x}
        PROVE  Keeps(c)
    <2>1. CallsItself(c, "modify") /\ call'[c].comp = x /\ call'[c].list = rows
      BY <1>2, <1>6, NestedCalls DEF Tools
    <2>2. call[c].comp # None => call[c].intent = NoIntent  BY <1>1, KnownCall DEF Fits
    <2>3. Mentioned(call'[c])
      BY <1>6, <2>1, <2>2 DEF Mentioned, CallsItself, found
    <2>4. CallsKept(c) /\ ~ Charged(call'[c])
      BY <1>1, <1>2, <2>1, <2>3, CalledKnown, CallingKeeps
    <2> QED  BY <1>6, <2>4 DEF Keeps, Accounts
  <1>7. ASSUME found = {}, TryConsume, UNCHANGED <<worked, console, saved>>,
               call' = [call EXCEPT ![c].at = "match", ![c].list = rows]
        PROVE  Keeps(c)
    <2>1. call = [d \in Calls |-> call[d]]  BY <1>2 DEF TypeOK
    <2>2. Others(c) /\ call'[c] = [call[c] EXCEPT !.at = "match", !.list = rows]
      BY <1>7, <2>1 DEF Others
    <2> DEFINE s == call'[c]
    <2>3. IsCall(s) /\ s.at = "match" /\ s.list = rows
      BY <1>1, <1>2, <2>2 DEF IsCall, Labels
    <2>4. /\ s.tool = call[c].tool /\ s.comp = call[c].comp /\ s.dry = call[c].dry
          /\ s.flag = call[c].flag /\ s.intent = call[c].intent
          /\ s.nested = call[c].nested /\ s.auto = call[c].auto
      BY <1>1, <2>2 DEF IsCall
    <2>5. Fits(s) /\ ~ Granted(s)
      BY <1>1, <2>3, <2>4, KnownCall DEF Fits, Granted, Places
    <2>6. Mentioned(s)
      BY <1>1, <1>7, <2>3, <2>4 DEF Mentioned, found
    <2>7. Known(s)  BY <1>2, <2>3, <2>5, <2>6 DEF Known
    <2>8. Goes(c, "match")  BY <1>7, <2>2, <2>3, <2>4 DEF Goes
    <2>9. CallsKept(c)  BY <1>1, <2>7, <2>8, GoingKeeps DEF Labels
    <2> QED  BY <1>7, <2>9 DEF Keeps, Accounts, TryConsume, Attempts
  <1>8. CASE call[c].comp # None
    <2>1. CASE call[c].comp \in Targets(rows)
      <3>1. call[c].comp \in DOMAIN rows  BY <2>1 DEF Targets
      <3>2. Nested(c, "modify", call[c].comp, rows) /\ UNCHANGED budget
        BY <1>8, <2>1 DEF ChangeStart
      <3> QED  BY <1>6, <1>8, <3>1, <3>2
    <2>2. CASE call[c].comp \notin Targets(rows)  BY <1>4, <1>8, <2>2 DEF ChangeStart
    <2> QED  BY <2>1, <2>2
  <1>9. CASE call[c].comp = None /\ Outcome(found) = "single"
    <2>1. Nested(c, "modify", The(found), rows) /\ UNCHANGED budget
      BY <1>9 DEF ChangeStart, found
    <2>2. found = {The(found)}  BY <1>3, <1>9, SingleIsTheOnly
    <2> QED  BY <1>3, <1>6, <2>1, <2>2
  <1>10. CASE call[c].comp = None /\ Outcome(found) = "multiple"
    <2>1. Finish(c) /\ UNCHANGED budget  BY <1>10 DEF ChangeStart, found
    <2> QED  BY <1>4, <2>1
  <1>11. CASE call[c].comp = None /\ Outcome(found) \notin {"single", "multiple"}
    <2>1. found = {}  BY <1>11, OtherwiseNone
    <2>2. \/ Spent /\ Finish(c) /\ UNCHANGED worked
          \/ /\ TryConsume /\ UNCHANGED <<worked, console, saved>>
             /\ call' = [call EXCEPT ![c].at = "match", ![c].list = rows]
      BY <1>11 DEF ChangeStart, found
    <2> QED  BY <1>5, <1>7, <2>1, <2>2
  <1> QED  BY <1>8, <1>9, <1>10, <1>11

LEMMA ChangeMatchKeeps ==
  ASSUME SessionInv, NEW c \in Calls, ChangeMatch(c)
  PROVE  Keeps(c)
  <1> DEFINE r == call[c]
  <1>1. /\ Open(c) /\ alone' = alone /\ r.tool = "change" /\ r.at = "match"
        /\ Worked /\ Charged(r)
    BY DEF Open, ChangeMatch, At, Charged
  <1>2. TypeOK /\ IsListing(r.list) /\ IsFiniteSet(DOMAIN r.list) /\ Mentioned(r)
    BY DEF SessionInv, TypeOK, IsCall, CallsKnown, Known
  <1>3. CASE Finish(c)  BY <1>1, <1>3, FinishAlone
  <1>4. ASSUME NEW tool \in {"create", "modify"}, NEW x \in Components, Nested(c, tool, x, r.list),
               tool = "modify" => x \in Candidates(r.list, r.intent.words)
        PROVE  Keeps(c)
    <2>1. CallsItself(c, tool) /\ call'[c].comp = x /\ call'[c].list = r.list
      BY <1>2, <1>4, NestedCalls DEF Tools
    <2>2. Mentioned(call'[c])  BY <1>1, <1>2, <1>4, <2>1 DEF Mentioned, CallsItself
    <2>3. CallsKept(c) /\ ~ Charged(call'[c])
      BY <1>1, <1>2, <2>1, <2>2, CalledKnown, CallingKeeps
    <2> QED  BY <1>1, <2>3 DEF Keeps, Accounts, Worked
  <1>5. PICK proposed \in SUBSET UNION {i.words : i \in Intents} :
            LET found == Candidates(r.list, Verbatim(proposed, r.intent.words)) IN
            CASE Outcome(found) = "single" -> Nested(c, "modify", The(found), r.list)
              [] Outcome(found) = "multiple" -> Finish(c)
              [] OTHER -> \E name \in Components : Nested(c, "create", name, r.list)
    BY DEF ChangeMatch
  <1> DEFINE found == Candidates(r.list, Verbatim(proposed, r.intent.words))
  <1>6. CASE Outcome(found) = "single"
    <2>1. Nested(c, "modify", The(found), r.list)  BY <1>5, <1>6
    <2>2. found \subseteq DOMAIN r.list /\ IsFiniteSet(found)  BY <1>2, CandidatesExist
    <2>3. The(found) \in found  BY <1>6, <2>2, SingleIsTheOnly
    <2>4. found \subseteq Candidates(r.list, r.intent.words)
      BY CandidatesGrow DEF Verbatim
    <2>5. The(found) \in Components  BY <1>2, <2>2, <2>3 DEF IsListing
    <2> HIDE DEF found
    <2> QED  BY <1>4, <2>1, <2>3, <2>4, <2>5
  <1>7. CASE Outcome(found) = "multiple"
    <2>1. Outcome(found) # "single"  BY <1>7
    <2>2. Finish(c)  BY <1>5, <1>7, <2>1
    <2> QED  BY <1>3, <2>2
  <1>8. CASE Outcome(found) \notin {"single", "multiple"}
    <2>1. \E name \in Components : Nested(c, "create", name, r.list)  BY <1>5, <1>8
    <2> QED  BY <1>4, <2>1
  <1> QED  BY <1>6, <1>7, <1>8

LEMMA GatedStartsKeep ==
  ASSUME SessionInv, NEW c \in Calls,
         DeleteStart(c) \/ AcceptStart(c) \/ ActivateStart(c) \/ RollbackStart(c)
  PROVE  Keeps(c)
  <1> USE DEF At
  <1>1. Open(c) /\ alone' = alone /\ call[c].at = "start"
    BY DEF Open, DeleteStart, AcceptStart, ActivateStart, RollbackStart
  <1>2. CASE Finish(c) /\ UNCHANGED budget  BY <1>1, <1>2, FinishAlone
  <1>3. CASE DeleteStart(c) /\ Gate(c, "delete")
    BY <1>1, <1>3, GateKeeps DEF Places, Labels, DeleteStart
  <1>4. CASE AcceptStart(c) /\ Gate(c, "accept")
    BY <1>1, <1>4, GateKeeps DEF Places, Labels, AcceptStart
  <1>5. CASE (ActivateStart(c) \/ RollbackStart(c)) /\ Gate(c, "migrate")
    BY <1>1, <1>5, GateKeeps DEF Places, Labels, ActivateStart, RollbackStart
  <1> QED
    BY <1>2, <1>3, <1>4, <1>5 DEF DeleteStart, AcceptStart, ActivateStart, RollbackStart

LEMMA GatedWorkKeeps ==
  ASSUME SessionInv, NEW c \in Calls, Delete(c) \/ Accept(c) \/ Migrate(c)
  PROVE  Keeps(c)
  <1>1. /\ Open(c) /\ alone' = alone /\ Finish(c) /\ Charged(call[c])
        /\ UNCHANGED budget \/ Worked
    BY DEF Open, Delete, Accept, Migrate, At, Charged, Granted, budget
  <1> QED  BY <1>1, FinishAlone

LEMMA IndexKeeps ==
  ASSUME SessionInv, NEW c \in Calls, IndexStart(c) \/ IndexScan(c) \/ IndexWrite(c)
  PROVE  Keeps(c)
  <1> USE DEF At
  <1>1. Open(c) /\ alone' = alone /\ IsCall(call[c]) /\ call[c].tool = "index" /\ ~ call[c].dry
    BY KnownCall DEF Open, IndexStart, IndexScan, IndexWrite, Fits
  <1>2. CASE IndexStart(c)
    <2>1. CASE Gate(c, "index")
      BY <1>1, <1>2, <2>1, GateKeeps DEF Places, Labels, IndexStart
    <2>2. CASE ~ call[c].flag /\ Goto(c, "index") /\ UNCHANGED budget
      <3> DEFINE r == [call[c] EXCEPT !.at = "index"]
      <3>1. ~ Granted(r) /\ ~ Charged(r)  BY <1>1, <2>2 DEF Granted, Charged, IsCall
      <3>2. CallsKept(c) /\ ~ Charged(call'[c])
        BY <1>1, <1>2, <2>2, <3>1, GotoKeeps DEF Places, Labels, IndexStart
      <3> QED  BY <2>2, <3>2 DEF Keeps, Accounts
    <2> QED  BY <1>2, <2>1, <2>2 DEF IndexStart
  <1>3. CASE IndexScan(c) /\ Finish(c)  BY <1>1, <1>3, FinishAlone DEF IndexScan
  <1>4. ASSUME NEW files \in SUBSET disk, NEW seen \in Row, IndexScan(c),
               UNCHANGED <<console, saved>>,
               call' = [call EXCEPT ![c].at = "write", ![c].files = files, ![c].seen = seen]
        PROVE  Keeps(c)
    <2>1. TypeOK /\ call = [d \in Calls |-> call[d]] /\ files \in SUBSET Paths
      BY DEF SessionInv, TypeOK
    <2>2. Others(c) /\ call'[c] = [call[c] EXCEPT !.at = "write", !.files = files, !.seen = seen]
      BY <1>4, <2>1 DEF Others
    <2>3. /\ IsCall(call'[c]) /\ call'[c].at = "write"
          /\ call'[c].auto = call[c].auto /\ call'[c].list = call[c].list
      BY <1>1, <1>4, <2>1, <2>2 DEF IsCall, Labels
    <2>4. Goes(c, "write")
      <3>1. /\ call'[c].tool = call[c].tool /\ call'[c].comp = call[c].comp
            /\ call'[c].dry = call[c].dry /\ call'[c].flag = call[c].flag
            /\ call'[c].intent = call[c].intent /\ call'[c].nested = call[c].nested
        BY <1>1, <2>2 DEF IsCall
      <3> QED  BY <1>4, <2>2, <2>3, <3>1 DEF Goes
    <2>5. (Granted(call'[c]) <=> Granted(call[c])) /\ (Charged(call'[c]) <=> Charged(call[c]))
      BY <1>1, <1>4, <2>4 DEF Granted, Charged, Goes, IndexScan
    <2>6. Known(call'[c])
      BY <1>1, <2>3, <2>4, <2>5, KnownCall, ArrivesKnown DEF Places, Fits
    <2>7. CallsKept(c)  BY <1>1, <1>4, <2>4, <2>6, GoingKeeps DEF Labels, IndexScan
    <2> QED  BY <1>4, <2>5, <2>7 DEF Keeps, Accounts, IndexScan
  <1>5. CASE IndexScan(c)
    <2> DEFINE seen == IF IndexId \in DOMAIN rows THEN rows[IndexId]
                       ELSE [NoRow EXCEPT !.version = 1]
    <2>1. seen \in Row
      BY DEF SessionInv, TypeOK, IsListing, Row, NoRow
    <2>2. \/ Finish(c)
          \/ \E files \in SUBSET disk :
                /\ call' = [call EXCEPT ![c].at = "write", ![c].files = files, ![c].seen = seen]
                /\ UNCHANGED <<console, saved>>
      BY <1>5 DEF IndexScan
    <2> HIDE DEF seen
    <2> QED  BY <1>3, <1>4, <1>5, <2>1, <2>2
  <1>6. CASE IndexWrite(c)
    <2>1. UNCHANGED budget \/ (Worked /\ Charged(call[c]))
      BY <1>6 DEF IndexWrite, Charged, Granted
    <2> QED  BY <1>1, <1>6, <2>1, FinishAlone DEF IndexWrite
  <1> QED  BY <1>2, <1>5, <1>6

LEMMA ReconcileKeeps ==
  ASSUME SessionInv, NEW c \in Calls, ReconcileStart(c) \/ Reconcile(c)
  PROVE  Keeps(c)
  <1>1. /\ Open(c) /\ alone' = alone /\ UNCHANGED budget
        /\ IsCall(call[c]) /\ call[c].tool = "reconcile" /\ ~ call[c].dry
        /\ call[c].at \in {"start", "repair"}
    BY KnownCall DEF Open, ReconcileStart, Reconcile, At, Fits
  <1>2. CASE Finish(c)  BY <1>1, <1>2, FinishAlone
  <1>3. CASE ReconcileStart(c) /\ ~ Finish(c)
    <2> DEFINE seen == [NoRow EXCEPT !.version = journal.version, !.files = journal.files]
    <2>1. TypeOK /\ call = [d \in Calls |-> call[d]] /\ journal \in Operation
      BY <1>3 DEF SessionInv, TypeOK, ReconcileStart
    <2>2. seen \in Row  BY <2>1 DEF Operation, NoRow, Row
    <2>3. /\ UNCHANGED <<console, saved>>
          /\ call' = [call EXCEPT ![c].at = "repair", ![c].plan.id = journal.of, ![c].seen = seen]
      BY <1>3 DEF ReconcileStart
    <2> HIDE DEF seen
    <2>4. Others(c) /\ call'[c] = [call[c] EXCEPT !.at = "repair", !.plan.id = journal.of,
                                                 !.seen = seen]
      BY <2>1, <2>3 DEF Others
    <2>5. /\ IsCall(call'[c]) /\ call'[c].at = "repair" /\ call'[c].plan.id \in Components
          /\ call'[c].auto = call[c].auto /\ call'[c].list = call[c].list
      <3> DEFINE plan == [call[c].plan EXCEPT !.id = journal.of]
      <3>1. journal.of \in Components  BY <2>1 DEF Operation
      <3>2. /\ plan \in [id : Components \union {None}, path : Paths, deps : SUBSET Components]
            /\ plan.id = journal.of
        BY <1>1, <3>1 DEF IsCall
      <3>3. call'[c] = [call[c] EXCEPT !.at = "repair", !.plan = plan, !.seen = seen]
        BY <1>1, <2>4 DEF IsCall
      <3> HIDE DEF plan
      <3> QED  BY <1>1, <2>2, <3>1, <3>2, <3>3 DEF IsCall, Labels
    <2>6. Goes(c, "repair")
      <3>1. /\ call'[c].tool = call[c].tool /\ call'[c].comp = call[c].comp
            /\ call'[c].dry = call[c].dry /\ call'[c].flag = call[c].flag
            /\ call'[c].intent = call[c].intent /\ call'[c].nested = call[c].nested
        BY <1>1, <2>4 DEF IsCall
      <3> QED  BY <2>3, <2>4, <2>5, <3>1 DEF Goes
    <2>7. ~ Granted(call'[c]) /\ ~ Charged(call'[c])
      BY <1>1, <2>5, <2>6 DEF Granted, Charged, Goes
    <2>8. Known(call'[c])
      BY <1>1, <2>5, <2>6, <2>7, KnownCall, ArrivesKnown DEF Places, Fits
    <2>9. CallsKept(c)  BY <1>1, <1>3, <2>6, <2>8, GoingKeeps DEF Labels, ReconcileStart, At
    <2> QED  BY <1>1, <2>7, <2>9 DEF Keeps, Accounts
  <1> QED  BY <1>2, <1>3 DEF Reconcile

LEMMA StepKeepsCalls ==
  ASSUME SessionInv, NEW c \in Calls, Step(c)
  PROVE  Keeps(c)
BY OuterKeeps, CreateStartKeeps, CreatePlanKeeps, CreateApproveKeeps, ScaffoldKeeps,
   ModifyKeeps, IngestKeeps, CommitKeeps, ChangeStartKeeps, ChangeMatchKeeps,
   GatedStartsKeep, GatedWorkKeeps, IndexKeeps, ReconcileKeeps DEF Step

-----------------------------------------------------------------------------
(* The project.                                                            *)

TablesKept ==
    /\ IsListing(rows') /\ IsFiniteSet(DOMAIN rows')
    /\ disk' \subseteq Paths /\ drifted' \subseteq Components
    /\ records' \in [Components -> [status : {"none", "staged", "active", "rolled_back"},
                                    files : SUBSET Paths]]
    /\ journal' \in Operation \union {NoOperation}
    /\ approve' = approve /\ alone' = alone /\ received' = received

LEMMA StepKeepsTables ==
  ASSUME SessionInv, NEW c \in Calls, Step(c)
  PROVE  TablesKept
  <1> DEFINE r == call[c]
  <1>1. /\ IsListing(rows) /\ IsFiniteSet(DOMAIN rows) /\ DOMAIN rows \subseteq Components
        /\ disk \subseteq Paths /\ drifted \subseteq Components
        /\ records \in [Components -> [status : {"none", "staged", "active", "rolled_back"},
                                       files : SUBSET Paths]]
        /\ journal \in Operation \union {NoOperation}
    BY DEF SessionInv, TypeOK, CallsKnown, IsListing
  <1>0. IsFiniteSet(DOMAIN rows)  BY <1>1
  <1>2. IsCall(r)  BY KnownCall
  <1>3. CASE UNCHANGED project /\ UNCHANGED <<approve, alone, received>>
    BY <1>1, <1>3 DEF TablesKept, project
  <1>4. CASE Scaffold(c)
    BY <1>1, <1>2, <1>4 DEF TablesKept, Scaffold, IsCall
  <1>5. CASE Register(c)
    <2> DEFINE plan == r.plan
               row == [NoRow EXCEPT !.version = 1, !.files = {plan.path}, !.deps = plan.deps]
               table == [x \in DOMAIN rows \union {plan.id} |->
                            IF x = plan.id THEN row ELSE rows[x]]
    <2>1. plan.id \in Components  BY <1>5, KnownCall DEF Fits, Register, At
    <2>2. row \in Row  BY <1>2 DEF IsCall, Row, NoRow
    <2>3. IsListing(table) /\ DOMAIN table = DOMAIN rows \union {plan.id}
      <3> HIDE DEF row, plan
      <3> QED  BY <1>1, <2>1, <2>2 DEF IsListing
    <2>4. IsFiniteSet(DOMAIN table)  BY <1>0, <2>3, FS_AddElement
    <2>5. rows' \in {rows, Linked(table, plan.id, plan.deps)}
      BY <1>5 DEF Register
    <2> HIDE DEF table
    <2>6. /\ IsListing(Linked(table, plan.id, plan.deps))
          /\ DOMAIN Linked(table, plan.id, plan.deps) = DOMAIN table
      BY <2>1, <2>3 DEF Linked, IsListing, Row
    <2>7. IsListing(rows') /\ IsFiniteSet(DOMAIN rows')  BY <1>1, <2>4, <2>5, <2>6
    <2> QED  BY <1>1, <1>5, <2>7 DEF TablesKept, Register
  <1>6. CASE Commit(c)
    <2>1. r.seen \in Row  BY <1>2 DEF IsCall
    <2>2. CASE Swapped(c) /\ rows' = [rows EXCEPT ![r.comp] = [r.seen EXCEPT !.version = @ + 1]]
      <3>1. r.comp \in DOMAIN rows  BY <2>2 DEF Swapped
      <3>2. [r.seen EXCEPT !.version = @ + 1] \in Row  BY <2>1 DEF Row
      <3>3. IsListing(rows') /\ DOMAIN rows' = DOMAIN rows  BY <1>1, <2>2, <3>1, <3>2 DEF IsListing
      <3>4. r.seen.files \subseteq Paths  BY <2>1 DEF Row
      <3> QED  BY <1>1, <1>6, <3>1, <3>3, <3>4 DEF TablesKept, Commit, Sharing
    <2> QED  BY <1>1, <1>6, <2>2 DEF TablesKept, Commit
  <1>7. CASE Delete(c)
    <2>1. r.seen.files \subseteq Paths  BY <1>2 DEF IsCall, Row
    <2>2. IsListing(rows') /\ DOMAIN rows' = DOMAIN rows \ {r.comp}
      <3> DEFINE left(x) == [rows[x] EXCEPT
                    !.dependents = IF x \in r.seen.deps THEN @ \ {r.comp} ELSE @,
                    !.deps = IF x \in r.seen.dependents THEN @ \ {r.comp} ELSE @]
      <3>1. rows' = [x \in DOMAIN rows \ {r.comp} |-> left(x)]  BY <1>7 DEF Delete
      <3>2. ASSUME NEW x \in DOMAIN rows PROVE left(x) \in Row
        <4>1. rows[x] \in Row  BY <1>1 DEF IsListing
        <4> QED  BY <4>1 DEF Row
      <3> HIDE DEF left
      <3> QED  BY <1>1, <3>1, <3>2 DEF IsListing
    <2>3. IsFiniteSet(DOMAIN rows')  BY <1>0, <2>2, FS_RemoveElement
    <2> QED  BY <1>1, <1>7, <2>1, <2>2, <2>3 DEF TablesKept, Delete, Sharing
  <1>8. CASE Accept(c)
    <2>1. r.comp \in Components
      BY <1>2, <1>8, KnownCall DEF Fits, Accept, At, OnComponent, IsCall
    <2>2. [r.seen EXCEPT !.version = @ + 1] \in Row  BY <1>2 DEF IsCall, Row
    <2>3. CASE UNCHANGED rows  BY <1>1, <1>8, <2>3 DEF TablesKept, Accept
    <2>4. CASE rows' = [x \in DOMAIN rows \union {r.comp} |->
                        IF x = r.comp THEN [r.seen EXCEPT !.version = @ + 1] ELSE rows[x]]
      <3>1. IsListing(rows') /\ DOMAIN rows' = DOMAIN rows \union {r.comp}
        BY <1>1, <2>1, <2>2, <2>4 DEF IsListing
      <3>2. IsFiniteSet(DOMAIN rows')  BY <1>0, <3>1, FS_AddElement
      <3> QED  BY <1>1, <1>8, <3>1, <3>2 DEF TablesKept, Accept
    <2> QED  BY <1>8, <2>3, <2>4 DEF Accept
  <1>9. CASE Migrate(c)
    <2>1. r.comp \in Components
      BY <1>2, <1>9, KnownCall DEF Fits, Migrate, Places, OnComponent, Plain, IsCall
    <2>2. records[r.comp].files \subseteq Paths  BY <1>1, <2>1
    <2> QED  BY <1>1, <1>9, <2>1, <2>2 DEF TablesKept, Migrate, Sharing
  <1>10. CASE IndexWrite(c)
    <2>1. [r.seen EXCEPT !.version = @ + 1, !.files = r.files] \in Row
      <3>1. r.seen \in Row /\ r.files \subseteq Paths  BY <1>2 DEF IsCall
      <3>2. [r.seen EXCEPT !.version = @ + 1] \in Row  BY <3>1 DEF Row
      <3> DEFINE next == [r.seen EXCEPT !.version = @ + 1]
      <3>3. [r.seen EXCEPT !.version = @ + 1, !.files = r.files] = [next EXCEPT !.files = r.files]
        BY <3>1 DEF Row
      <3> HIDE DEF next, r
      <3>4. [next EXCEPT !.files = r.files] \in Row  BY <3>1, <3>2 DEF Row, next
      <3> QED  BY <3>3, <3>4
    <2>2. IsListing(rows') /\ DOMAIN rows' = DOMAIN rows \union {IndexId}
      BY <1>1, <1>10, <2>1 DEF IndexWrite, IsListing
    <2>3. IsFiniteSet(DOMAIN rows')  BY <1>0, <2>2, FS_AddElement
    <2> QED  BY <1>1, <1>10, <2>2, <2>3 DEF TablesKept, IndexWrite
  <1>11. CASE Backup(c)  BY <1>1, <1>11 DEF TablesKept, Backup
  <1>12. CASE Reconcile(c)
    <2> DEFINE x == r.plan.id
               op == r.seen
    <2>1. x \in Components /\ op \in Row /\ op.files \subseteq Paths /\ op.version \in Nat
      BY <1>2, <1>12, KnownCall DEF Reconcile, At, Fits, IsCall, Row
    <2>2. Completes(x, op) \/ Rejects(x, op) \/ Leaves
      BY <1>12 DEF Reconcile
    <2>3. UNCHANGED <<records, approve, alone, received>>  BY <1>12 DEF Reconcile
    <2> HIDE DEF x, op
    <2>4. CASE Completes(x, op)
      <3>1. x \in DOMAIN rows /\ rows' = [rows EXCEPT ![x].version = op.version]
        BY <2>4 DEF Completes
      <3>2. [rows[x] EXCEPT !.version = op.version] \in Row
        BY <1>1, <2>1, <3>1 DEF IsListing, Row
      <3>3. IsListing(rows') /\ DOMAIN rows' = DOMAIN rows  BY <1>1, <3>1, <3>2 DEF IsListing
      <3> QED  BY <1>1, <2>1, <2>3, <2>4, <3>3 DEF TablesKept, Completes
    <2>5. CASE Rejects(x, op)
      BY <1>1, <2>1, <2>3, <2>5 DEF TablesKept, Rejects, Sharing
    <2>6. CASE Leaves  BY <1>1, <2>3, <2>6 DEF TablesKept, Leaves
    <2> QED  BY <2>2, <2>4, <2>5, <2>6
  <1> QED
    <2> USE <1>3
    <2>1. CASE Outer(c) \/ GiveUp(c) \/ Inspect(c) \/ CreateStart(c) \/ CreatePlan(c)
               \/ CreateApprove(c) \/ ModifyStart(c) \/ ModifyWork(c)
      BY <2>1 DEF Outer, GiveUp, Inspect, CreateStart, CreatePlan, CreateApprove, ModifyStart,
                  ModifyWork
    <2>2. CASE IngestStart(c) \/ IngestWork(c) \/ ChangeStart(c) \/ ChangeMatch(c)
      BY <2>2 DEF IngestStart, IngestWork, ChangeStart, ChangeMatch
    <2>3. CASE DeleteStart(c) \/ AcceptStart(c) \/ ActivateStart(c) \/ RollbackStart(c)
               \/ IndexStart(c) \/ IndexScan(c) \/ ReconcileStart(c)
      BY <2>3 DEF DeleteStart, AcceptStart, ActivateStart, RollbackStart, IndexStart, IndexScan,
                  ReconcileStart
    <2> QED
      BY <1>4, <1>5, <1>6, <1>7, <1>8, <1>9, <1>10, <1>11, <1>12, <2>1, <2>2, <2>3 DEF Step

-----------------------------------------------------------------------------
(* The session.                                                            *)

LEMMA RequestsAreKnown ==
  ASSUME NEW r \in Requests
  PROVE  /\ IsCall(r) /\ Known(r) /\ ~ Charged(r)
         /\ r.at = "start" /\ ~ r.nested
  <1> DEFINE Shape == [tool : Tools, at : {"start"}, comp : Components \union {None},
                       dry : BOOLEAN, flag : BOOLEAN, purge : BOOLEAN,
                       intent : Intents \union {NoIntent}, list : {NoList}, files : {{}},
                       seen : {NoRow}, plan : {NoPlan}, nested : {FALSE}, auto : {FALSE}]
             Fit == /\ r \in Shape
                    /\ <<r.tool, "start">> \in Places
                    /\ r.dry => r.tool \in {"create", "modify", "change"}
                    /\ r.tool = "change" /\ r.comp # None => r.intent = NoIntent
                    /\ r.tool \in OnComponent => r.comp # None
  <1>1. /\ Opened \in Shape /\ Opened.tool = "none" /\ Opened.at = "start" /\ ~ Opened.dry
        /\ Opened.comp = None /\ Opened.intent = NoIntent /\ None \notin Components
    BY DEF Opened, Request, Tools
  <1>2. Fit
    <2> USE <1>1 DEF Tools, Places, Plain, OnComponent
    <2>1. ASSUME NEW t \in Plain, r = Asking(t) PROVE Fit  BY <2>1 DEF Asking
    <2>2. ASSUME NEW t \in OnComponent, NEW x \in Components, r = Serving(t, x) PROVE Fit
      BY <2>2 DEF Serving
    <2>3. ASSUME NEW t \in {"create", "modify", "change"}, NEW x \in Components, NEW d \in BOOLEAN,
                 r = Naming(t, x, d) PROVE Fit
      BY <2>3 DEF Naming
    <2>4. ASSUME NEW i \in Intents, NEW d \in BOOLEAN, r = Telling(i, d) PROVE Fit
      BY <2>4 DEF Telling
    <2>5. ASSUME NEW x \in Components, NEW f \in BOOLEAN, NEW p \in BOOLEAN, r = Removing(x, f, p)
          PROVE Fit
      BY <2>5 DEF Removing
    <2>6. ASSUME NEW f \in BOOLEAN, r = Indexing(f) PROVE Fit  BY <2>6 DEF Indexing
    <2> HIDE DEF Fit, Tools, Places, Plain, OnComponent
    <2>7. CASE r \in {Asking(t) : t \in Plain}  BY <2>1, <2>7
    <2>8. CASE r \in {Serving(t, x) : t \in OnComponent, x \in Components}
      BY <2>2, <2>8
    <2>9. CASE r \in {Naming(t, x, d) :
                  t \in {"create", "modify", "change"}, x \in Components, d \in BOOLEAN}
      BY <2>3, <2>9
    <2>10. CASE r \in {Telling(i, d) : i \in Intents, d \in BOOLEAN}  BY <2>4, <2>10
    <2>11. CASE r \in {Removing(x, f, p) : x \in Components, f \in BOOLEAN, p \in BOOLEAN}
      BY <2>5, <2>11
    <2>12. CASE r \in {Indexing(f) : f \in BOOLEAN}  BY <2>6, <2>12
    <2> QED  BY <2>7, <2>8, <2>9, <2>10, <2>11, <2>12 DEF Requests
  <1>3. r.at = "start" /\ ~ r.nested /\ ~ r.auto /\ r.list = NoList  BY <1>2
  <1>4. IsCall(r)
    <2>1. NoRow \in Row  BY DEF NoRow, Row
    <2>2. NoPlan \in [id : Components \union {None}, path : Paths, deps : SUBSET Components]
      BY DEF NoPlan
    <2>3. {"start"} \subseteq Labels  BY DEF Labels
    <2> QED  BY <1>2, <1>3, <2>1, <2>2, <2>3, NothingListed DEF IsCall
  <1>5. Fits(r)  BY <1>2, <1>3 DEF Fits
  <1>6. ~ Granted(r) /\ ~ Charged(r)  BY <1>3 DEF Granted, Charged
  <1>7. Mentioned(r) /\ IsFiniteSet(DOMAIN r.list)
    BY <1>3, NothingListed, FS_EmptySet DEF Mentioned
  <1> QED  BY <1>3, <1>4, <1>5, <1>6, <1>7 DEF Known

LEMMA ReceiveKeeps ==
  ASSUME SessionInv, NEW c \in Calls, Receive(c)
  PROVE  SessionInv'
  <1> USE DEF SessionInv
  <1>1. PICK r \in Requests : call' = [call EXCEPT ![c] = r]  BY DEF Receive
  <1>2. /\ IsCall(r) /\ Known(r) /\ ~ Charged(r) /\ r.at = "start" /\ ~ r.nested
    BY RequestsAreKnown
  <1>3. /\ TypeOK /\ call = [d \in Calls |-> call[d]] /\ ~ Open(c)
        /\ UNCHANGED <<project, approve, budget>> /\ console' = "stderr"
        /\ saved' = [saved EXCEPT ![c] = <<console>>]
    BY DEF TypeOK, Receive
  <1>4. Others(c) /\ call'[c] = r  BY <1>1, <1>3 DEF Others
  <1>5. \A d \in Calls : IsCall(call'[d]) /\ Known(call'[d])
    BY <1>2, <1>4 DEF TypeOK, CallsKnown, Others
  <1>6. alone' \in [Calls -> BOOLEAN] /\ received' \in 0..MaxCalls
    <2>1. received' \in 0..MaxCalls  BY DEF TypeOK, Receive
    <2>2. alone' = [d \in Calls |-> IF d = c THEN ~ \E e \in Calls : Open(e)
                                             ELSE alone[d] /\ ~ Open(d)]
      BY DEF Receive
    <2> HIDE DEF SessionInv
    <2>3. ASSUME NEW d \in Calls
          PROVE  (IF d = c THEN ~ \E e \in Calls : Open(e)
                           ELSE alone[d] /\ ~ Open(d)) \in BOOLEAN
      OBVIOUS
    <2> QED  BY <2>1, <2>2, <2>3, Zenon
  <1>7. saved' \in [Calls -> Seq({"stdout", "stderr"})] /\ Len(saved'[c]) = 1
        /\ \A d \in Calls \ {c} : saved'[d] = saved[d]
    <2>1. <<console>> \in Seq({"stdout", "stderr"}) /\ Len(<<console>>) = 1
      BY <1>3 DEF TypeOK
    <2>2. saved \in [Calls -> Seq({"stdout", "stderr"})]  BY <1>3 DEF TypeOK
    <2> HIDE DEF SessionInv
    <2> QED  BY <1>3, <2>1, <2>2
  <1>8. TypeOK'
    <2>1. /\ IsListing(rows') /\ disk' \subseteq Paths /\ drifted' \subseteq Components
          /\ records' \in [Components -> [status : {"none", "staged", "active", "rolled_back"},
                                          files : SUBSET Paths]]
          /\ journal' \in Operation \union {NoOperation}
          /\ approve' \in BOOLEAN /\ used' \in Nat /\ worked' \in Nat
          /\ console' \in {"stdout", "stderr"}
      BY <1>3 DEF TypeOK, project, budget
    <2>2. call' = [d \in Calls |-> call'[d]]  BY <1>4 DEF Others
    <2> HIDE DEF SessionInv
    <2> QED  BY <1>5, <1>6, <1>7, <2>1, <2>2 DEF TypeOK
  <1>9. CallsKnown'
    BY <1>3, <1>5 DEF CallsKnown, project, Known
  <1>10. AttemptsSuffice'
    <2>1. ~ Charged(call'[c]) /\ UNCHANGED budget  BY <1>2, <1>3, <1>4
    <2> QED  BY <1>4, <2>1, AccountingSuffices DEF Accounts
  <1>11. ConsolesNested'
    <2> SUFFICES ASSUME NEW d \in Calls
                 PROVE  Len(saved'[d]) = IF ~ call'[d].at # "idle" THEN 0
                                         ELSE IF Within(call'[d]) THEN 2 ELSE 1
      BY DEF ConsolesNested, Open
    <2>1. CASE d = c  BY <1>2, <1>4, <1>7, <2>1 DEF Within
    <2>2. CASE d # c  BY <1>4, <1>7, <2>2 DEF ConsolesNested, Open, Others
    <2> QED  BY <2>1, <2>2
  <1>12. LoneKeepStderr'
    <2> SUFFICES ASSUME NEW d \in Calls, call'[d].at # "idle", alone'[d]
                 PROVE  /\ console' = "stderr"
                        /\ Within(call'[d]) => saved'[d][2] = "stderr"
                        /\ \A e \in Calls : call'[e].at # "idle" => e = d
      BY DEF LoneKeepStderr, Open
    <2>1. alone' = [e \in Calls |-> IF e = c THEN ~ \E f \in Calls : Open(f)
                                             ELSE alone[e] /\ ~ Open(e)]
      BY DEF Receive
    <2>2. d = c  BY <1>4, <2>1 DEF Others, Open
    <2>3. \A e \in Calls : ~ Open(e)  BY <2>1, <2>2
    <2>4. \A e \in Calls : call'[e].at # "idle" => e = d
      BY <1>4, <2>2, <2>3 DEF Others, Open
    <2> QED  BY <1>2, <1>3, <1>4, <2>2, <2>4 DEF Within
  <1> QED  BY <1>8, <1>9, <1>10, <1>11, <1>12

LEMMA StepKeepsSession ==
  ASSUME SessionInv, NEW c \in Calls, Step(c)
  PROVE  SessionInv'
  <1>1. Keeps(c) /\ TablesKept  BY StepKeepsCalls, StepKeepsTables
  <1>2. Others(c)
    BY <1>1 DEF Keeps, CallsKept
  <1>3. AttemptsSuffice' /\ used' \in Nat /\ worked' \in Nat
    BY <1>1, <1>2, AccountingSuffices DEF Keeps
  <1>4. TypeOK'
    BY <1>1, <1>3 DEF Keeps, CallsKept, TablesKept, TypeOK, SessionInv, Others
  <1>5. CallsKnown'
    BY <1>1 DEF Keeps, CallsKept, TablesKept, CallsKnown, Known
  <1> QED  BY <1>1, <1>3, <1>4, <1>5 DEF SessionInv, Keeps, CallsKept

LEMMA SessionInit == Init => SessionInv
  <1> SUFFICES ASSUME Init PROVE SessionInv  OBVIOUS
  <1> USE DEF Init
  <1>1. IsListing(rows) /\ IsFiniteSet(DOMAIN rows)
    <2>1. PICK v \in {1, journal.version} :
                rows = [x \in {Tracked} |-> [NoRow EXCEPT !.version = v, !.files = {Owned}]]
      OBVIOUS
    <2>2. [NoRow EXCEPT !.version = v, !.files = {Owned}] \in Row
      <3>1. v \in Nat
        BY <2>1 DEF NoOperation, InterruptedChange
      <3> QED  BY <3>1, SessionAssumption DEF NoRow, Row
    <2> DEFINE row == [NoRow EXCEPT !.version = v, !.files = {Owned}]
    <2> HIDE DEF row
    <2>3. rows = [x \in {Tracked} |-> row] /\ row \in Row  BY <2>1, <2>2 DEF row
    <2> QED  BY <2>3, FS_Singleton, SessionAssumption DEF IsListing
  <1>2. \A c \in Calls : call[c] = Request  OBVIOUS
  <1>3. \A c \in Calls : ~ Open(c) /\ ~ Charged(call[c])
    BY <1>2 DEF Open, Charged, Granted, Request
  <1>4. saved \in [Calls -> Seq({"stdout", "stderr"})] /\ \A c \in Calls : Len(saved[c]) = 0
    OBVIOUS
  <1>5. call = [c \in Calls |-> call[c]]  OBVIOUS
  <1>6. TypeOK
    <2>1. journal \in Operation \union {NoOperation}
      BY SessionAssumption DEF Operation, InterruptedChange
    <2>2. disk \subseteq Paths
      BY <2>1, SessionAssumption DEF Operation, NoOperation
    <2> QED  BY <1>1, <1>2, <1>4, <1>5, <2>1, <2>2, RequestIsCall, SessionAssumption DEF TypeOK
  <1>7. CallsKnown  BY <1>1, <1>2, RequestIsKnown DEF CallsKnown
  <1>8. AttemptsSuffice
    <2>1. ChargedCalls = {}  BY <1>3 DEF ChargedCalls
    <2> QED  BY <2>1, FS_EmptySet DEF AttemptsSuffice
  <1> QED  BY <1>3, <1>4, <1>6, <1>7, <1>8 DEF SessionInv, ConsolesNested, LoneKeepStderr

LEMMA SessionStep == SessionInv /\ [Next]_vars => SessionInv'
  <1> SUFFICES ASSUME SessionInv, [Next]_vars PROVE SessionInv'  OBVIOUS
  <1>1. CASE UNCHANGED vars
    BY <1>1 DEF vars, project, budget, SessionInv, TypeOK, CallsKnown, Known, AttemptsSuffice,
                ChargedCalls, ConsolesNested, LoneKeepStderr, Open
  <1>2. CASE Over  BY <1>1, <1>2 DEF Over
  <1>3. ASSUME NEW c \in Calls, Receive(c) PROVE SessionInv'  BY <1>3, ReceiveKeeps
  <1>4. ASSUME NEW c \in Calls, Step(c) PROVE SessionInv'  BY <1>4, StepKeepsSession
  <1> QED  BY <1>1, <1>2, <1>3, <1>4 DEF Next

\* The strengthened invariant of a session holds in every reachable state: what every
\* call knows where it stands, one counted attempt for each piece of gated work, the
\* nesting of consoles (handleToolCall), for any calls, intents, budget and limits.
THEOREM SessionInductive == Spec => []SessionInv
BY SessionInit, SessionStep, PTL DEF Spec

\* The manifest, the console and every open call keep their types, whichever handlers
\* of handleToolCall overlap.
THEOREM SessionTyped == Spec => []TypeOK
<1>1. SessionInv => TypeOK  BY DEF SessionInv
<1> QED  BY <1>1, SessionInductive, PTL

\* Whatever calls overlap, gated work never outnumbers the attempts counted, nor
\* these the limit of the session (createGatedActionBudget, requireGatedApproval).
THEOREM WorkIsPaidFor == Spec => []GatedWorkIsCounted
<1>1. SessionInv => GatedWorkIsCounted
  <2> SUFFICES ASSUME SessionInv PROVE GatedWorkIsCounted  OBVIOUS
  <2>1. Cardinality(ChargedCalls) \in Nat
    BY FS_CardinalityType DEF SessionInv, AttemptsSuffice
  <2> QED  BY <2>1 DEF SessionInv, AttemptsSuffice, TypeOK, GatedWorkIsCounted
<1> QED  BY <1>1, SessionInductive, PTL

\* A purix_change modifies what its text mentions, and the only component exact
\* matching found, where it found any (resolveChangeTarget, filterVerbatimMentions).
THEOREM MentionsAreHit == Spec => []ChangesHitTheirMention
<1>1. SessionInv => ChangesHitTheirMention
  BY DEF SessionInv, CallsKnown, Known, Mentioned, ChangesHitTheirMention
<1> QED  BY <1>1, SessionInductive, PTL

\* A call that overlaps with no other keeps the console off stdout, also across the
\* calls it makes itself (the finally of handleToolCall).
THEOREM ProtocolStaysClean == Spec => []LoneCallsLogToStderr
<1>1. SessionInv => LoneCallsLogToStderr
  BY DEF SessionInv, LoneKeepStderr, LoneCallsLogToStderr
<1> QED  BY <1>1, SessionInductive, PTL

-----------------------------------------------------------------------------
(* What steps may not do.                                                  *)

LEMMA MovesOnlyOwn ==
  ASSUME SessionInv, NEW c \in Calls, NEW d \in Calls, Step(c), Moves(d)
  PROVE  d = c
  <1>1. Others(c)  BY StepKeepsCalls DEF Keeps, CallsKept
  <1> QED  BY <1>1 DEF Others, Moves

LEMMA EndIsMove ==
  ASSUME SessionInv, NEW c \in Calls, Open(c), call[c].at # "outer", Finish(c), alone' = alone
  PROVE  Moves(c)
  <1>1. Ends(c) /\ IsCall(call[c])  BY FinishEnds, KnownCall
  <1>2. call'[c].at \in {"outer", "idle"}  BY <1>1 DEF Ends, Request, IsCall
  <1> QED  BY <1>2 DEF Moves, Open

\* Reconciliation writes the row of the operation it read.
LEMMA RepairsOnlyItsOwn ==
  ASSUME SessionInv, NEW c \in Calls, Reconcile(c), rows' # rows
  PROVE  Moves(c) /\ At(c, "reconcile", "repair")
         /\ \A x \in DOMAIN rows \ {call[c].plan.id} : rows'[x] = rows[x]
  <1>1. Open(c) /\ call[c].at # "outer" /\ Finish(c) /\ alone' = alone
    BY DEF Reconcile, At, Open
  <1>2. Completes(call[c].plan.id, call[c].seen)  BY DEF Reconcile, Rejects, Leaves
  <1>3. rows = [x \in DOMAIN rows |-> rows[x]]  BY DEF SessionInv, TypeOK, IsListing
  <1> QED  BY <1>1, <1>2, <1>3, EndIsMove DEF Completes, Reconcile

\* Without approval only a diff that the gate lets pass is ingested, only an index
\* that was not asked to be full is written, and only the journal's operation ended.
LEMMA UnapprovedStep ==
  ASSUME SessionInv, NEW c \in Calls, Step(c), ~ approve, rows' # rows
  PROVE  /\ Moves(c)
         /\ \/ At(c, "ingest", "commit") /\ call[c].auto
            \/ At(c, "index", "write") /\ ~ call[c].flag
            \/ /\ At(c, "reconcile", "repair")
               /\ \A x \in DOMAIN rows \ {call[c].plan.id} : rows'[x] = rows[x]
  <1>1. IsCall(call[c]) /\ Fits(call[c]) /\ ~ Granted(call[c])  BY KnownCall
  <1>2. Commit(c) \/ IndexWrite(c) \/ Reconcile(c)
    <2>1. ~ Register(c) /\ ~ Delete(c) /\ ~ Accept(c)
      BY <1>1 DEF Register, Delete, Accept, Granted, At
    <2> QED
      BY <2>1 DEF Step, Outer, GiveUp, Inspect, CreateStart, CreatePlan, CreateApprove, Scaffold,
         ModifyStart, ModifyWork, IngestStart, IngestWork, ChangeStart, ChangeMatch, DeleteStart,
         AcceptStart, ActivateStart, RollbackStart, Migrate, IndexStart, IndexScan, Backup,
         ReconcileStart, project
  <1>3. Open(c) /\ call[c].at # "outer" /\ Finish(c) /\ alone' = alone
    BY <1>2 DEF Commit, IndexWrite, Reconcile, At, Open
  <1>4. Moves(c)  BY <1>3, EndIsMove
  <1>5. CASE Commit(c)
    <2>1. call[c].at = "commit"  BY <1>5 DEF Commit
    <2>2. call[c].tool \in {"modify", "ingest"}
      BY <1>1, <2>1 DEF Fits, Places, Plain, OnComponent
    <2> QED  BY <1>1, <1>4, <2>1, <2>2 DEF Fits, Granted, At
  <1>6. CASE IndexWrite(c)  BY <1>1, <1>4, <1>6 DEF IndexWrite, Granted, At
  <1>7. CASE Reconcile(c)  BY <1>7, RepairsOnlyItsOwn
  <1> QED  BY <1>2, <1>5, <1>6, <1>7

\* Without an approval nothing changes the manifest but an ingest that the TrustGate
\* lets pass, the index's own row, and reconciliation the row of the operation it found
\* in the journal (requireGatedApproval before each other write).
THEOREM NothingUnapproved == Spec => UnapprovedOnlyIngests
<1> DEFINE A == ~ approve /\ rows' # rows =>
            \E c \in Calls :
                /\ Moves(c)
                /\ \/ At(c, "ingest", "commit") /\ call[c].auto
                   \/ At(c, "index", "write") /\ ~ call[c].flag
                   \/ /\ At(c, "reconcile", "repair")
                      /\ \A x \in DOMAIN rows \ {call[c].plan.id} : rows'[x] = rows[x]
<1>1. SessionInv /\ [Next]_vars => [A]_vars
  <2> SUFFICES ASSUME SessionInv, Next, ~ approve, rows' # rows
               PROVE  \E c \in Calls :
                        /\ Moves(c)
                        /\ \/ At(c, "ingest", "commit") /\ call[c].auto
                           \/ At(c, "index", "write") /\ ~ call[c].flag
                           \/ /\ At(c, "reconcile", "repair")
                              /\ \A x \in DOMAIN rows \ {call[c].plan.id} : rows'[x] = rows[x]
    BY DEF vars
  <2>1. PICK c \in Calls : Step(c)
    BY DEF Next, Over, Receive, vars, project
  <2> QED  BY <2>1, UnapprovedStep
<1> QED  BY <1>1, SessionInductive, PTL DEF Spec, UnapprovedOnlyIngests

\* A dry call is nowhere near an action that writes.
LEMMA DryStep ==
  ASSUME SessionInv, NEW c \in Calls, Step(c), call[c].dry
  PROVE  UNCHANGED project
  <1>1. IsCall(call[c]) /\ Fits(call[c])  BY KnownCall
  <1>2. /\ ~ Scaffold(c) /\ ~ Register(c) /\ ~ Commit(c) /\ ~ Delete(c) /\ ~ Accept(c)
        /\ ~ Migrate(c) /\ ~ IndexWrite(c) /\ ~ Backup(c) /\ ~ Reconcile(c)
    <2>1. call[c].at # "migrate"  BY <1>1 DEF Fits, Places, Plain, OnComponent
    <2> QED
      BY <1>1, <2>1 DEF Fits, Scaffold, Register, Commit, Delete, Accept, Migrate, IndexWrite,
                        Backup, Reconcile, At
  <1> QED
    BY <1>2 DEF Step, Outer, GiveUp, Inspect, CreateStart, CreatePlan, CreateApprove,
       ModifyStart, ModifyWork, IngestStart, IngestWork, ChangeStart, ChangeMatch, DeleteStart,
       AcceptStart, ActivateStart, RollbackStart, IndexStart, IndexScan, ReconcileStart, project

\* A dry run, and whatever it calls, writes nothing (the dryRun returns of
\* handleToolCall, and the flag purix_change hands on).
THEOREM DryMeansDry == Spec => DryRunsWriteNothing
<1> DEFINE A == \A c \in Calls : Moves(c) /\ call[c].dry => UNCHANGED project
<1>1. SessionInv /\ [Next]_vars => [A]_vars
  <2> SUFFICES ASSUME SessionInv, Next, NEW d \in Calls, Moves(d), call[d].dry
               PROVE  UNCHANGED project
    BY DEF vars
  <2>1. CASE Over  BY <2>1 DEF Over, vars
  <2>2. ASSUME NEW c \in Calls, Receive(c) PROVE UNCHANGED project
    BY <2>2 DEF Receive
  <2>3. ASSUME NEW c \in Calls, Step(c) PROVE UNCHANGED project
    BY <2>3, MovesOnlyOwn, DryStep
  <2> QED  BY <2>1, <2>2, <2>3 DEF Next
<1> QED  BY <1>1, SessionInductive, PTL DEF Spec, DryRunsWriteNothing

-----------------------------------------------------------------------------
(* The lock: its invariant.  Two of its parts need that no two processes   *)
(* were inside the lock functions at once, and three that no holder was    *)
(* late as well.                                                           *)

LockTyped ==
    /\ file \in Locks \union {NoFile, Torn}
    /\ pid \in [Procs -> Pids \union {NoPid}]
    /\ pc \in [Procs -> {"gone", "bystander", "acquire", "refused", "held", "beating", "exit"}
                        \union Acquiring \union Releasing]
    /\ DOMAIN timer \subseteq Procs
    /\ timer \in [DOMAIN timer -> 0..Old]
    /\ incidents \subseteq {"overlap", "late"}

\* No two processes have the same id, and whoever runs has one.
PidsDiffer ==
    /\ \A p, q \in Procs : pid[p] = pid[q] /\ pid[p] # NoPid => p = q
    /\ \A p \in Procs : pc[p] # "gone" => pid[p] # NoPid

OneIsInside == \A p, q \in Procs : Inside(p) /\ Inside(q) => p = q

\* Who is about to remove the file at its end found it its own, or nobody's.
OwnIsReleased ==
    \A q \in Procs : pc[q] = "release_unlink" /\ file \in Locks => file.pid = pid[q]

\* A holder's timer runs and is not late; the file is its own and no older than its
\* timer, or just being rewritten.
HoldersBeat ==
    \A p \in Procs :
        /\ Holds(p) => p \in DOMAIN timer /\ timer[p] <= StaleAfter
        /\ pc[p] = "held" => file \in Locks /\ file.pid = pid[p] /\ file.age <= timer[p]

OneHolds == \A p, q \in Procs : Holds(p) /\ Holds(q) => p = q

\* Who is about to remove or replace the file has found that nobody holds it.
NobodyIsRobbed ==
    \A q \in Procs : pc[q] \in {"remove", "write", "fill", "release_unlink"} =>
        \A p \in Procs : ~ Holds(p)

InTurns == OneIsInside /\ OwnIsReleased
Protected == HoldersBeat /\ OneHolds /\ NobodyIsRobbed

LInv == /\ LockTyped /\ PidsDiffer
        /\ "overlap" \notin incidents => InTurns
        /\ incidents = {} => Protected

-----------------------------------------------------------------------------
(* Every step keeps the invariant.                                         *)

HIDE SessionAssumption
USE NameAssumption, TimeAssumption
USE DEF Locks, Old, Enter, Acquiring, Releasing, Inside, Holds
USE DEF LInv, LockTyped, PidsDiffer, InTurns, Protected, OneIsInside, HoldersBeat, OneHolds,
        NobodyIsRobbed, OwnIsReleased

LEMMA InvariantAtStart == LockInit => LInv
BY DEF LockInit

\* Processes come and go: the file stays, and a killed holder's timer stops.
LEMMA SpawnKeeps ==
  ASSUME LInv, NEW p \in Procs, Spawn(p)
  PROVE  LInv'
BY DEF Spawn, IsAlive

LEMMA ExitKeeps ==
  ASSUME LInv, NEW p \in Procs, Exit(p)
  PROVE  LInv'
BY DEF Exit

LEMMA CrashKeeps ==
  ASSUME LInv, NEW p \in Procs, Crash(p)
  PROVE  LInv'
BY DEF Crash, ClearTimer

\* Acquiring: who finds a file that nobody holds is the only one inside.
LEMMA CheckExistsKeeps ==
  ASSUME LInv, NEW p \in Procs, CheckExists(p)
  PROVE  LInv'
BY DEF CheckExists, NoteOverlap

LEMMA ReadLockKeeps ==
  ASSUME LInv, NEW p \in Procs, ReadLock(p)
  PROVE  LInv'
BY DEF ReadLock, Abandoned, IsAlive

LEMMA RemoveKeeps ==
  ASSUME LInv, NEW p \in Procs, RemoveFile(p)
  PROVE  LInv'
BY DEF RemoveFile

LEMMA TruncateKeeps ==
  ASSUME LInv, NEW p \in Procs, Truncate(p)
  PROVE  LInv'
BY DEF Truncate

LEMMA WriteLockKeeps ==
  ASSUME LInv, NEW p \in Procs, WriteLock(p)
  PROVE  LInv'
BY DEF WriteLock, Fresh, SetTimer

\* The heartbeat.
LEMMA BeatKeeps ==
  ASSUME LInv, NEW p \in Procs, Beat(p)
  PROVE  LInv'
BY DEF Beat, HeartbeatDue, NoteOverlap, SetTimer

LEMMA FinishBeatKeeps ==
  ASSUME LInv, NEW p \in Procs, FinishBeat(p)
  PROVE  LInv'
BY DEF FinishBeat, Fresh

\* Releasing.
LEMMA ReleaseCheckKeeps ==
  ASSUME LInv, NEW p \in Procs, ReleaseCheck(p)
  PROVE  LInv'
BY DEF ReleaseCheck, ClearTimer, NoteOverlap

LEMMA ReleaseReadKeeps ==
  ASSUME LInv, NEW p \in Procs, ReleaseRead(p)
  PROVE  LInv'
BY DEF ReleaseRead, MayUnlink

LEMMA ReleaseUnlinkKeeps ==
  ASSUME LInv, NEW p \in Procs, ReleaseUnlink(p)
  PROVE  LInv'
BY DEF ReleaseUnlink

\* Time passes: the file of a holder gets older no faster than its timer runs, and a
\* timer that passes STALE_MS is an incident.
LEMMA TickKeeps ==
  ASSUME LInv, Tick
  PROVE  LInv'
<1>1. /\ file' \in Locks \union {NoFile, Torn}
      /\ file' \in Locks => file \in Locks /\ file'.pid = file.pid
      /\ file \in Locks => /\ file' \in Locks /\ file'.pid = file.pid
                           /\ file'.age <= file.age + 1 /\ file'.age <= Old
  BY DEF Tick
<1>2. /\ DOMAIN timer' = DOMAIN timer
      /\ \A p \in DOMAIN timer : /\ timer[p] \in 0..Old /\ timer'[p] \in 0..Old
                                 /\ timer[p] < Old => timer'[p] = timer[p] + 1
  BY DEF Tick
<1>3. LockTyped'
  BY <1>1, <1>2 DEF Tick
<1>4. /\ incidents \subseteq incidents'
      /\ incidents' = {} => \A p \in DOMAIN timer : timer[p] < StaleAfter
  BY <1>2 DEF Tick
<1>5. PidsDiffer' /\ ("overlap" \notin incidents' => InTurns')
  BY <1>1, <1>4 DEF Tick
<1>6. ASSUME incidents' = {}
      PROVE  Protected'
  <2>1. incidents = {}
    BY <1>4, <1>6
  <2>2. HoldersBeat'
    BY <1>1, <1>2, <1>4, <1>6, <2>1 DEF Tick
  <2>3. OneHolds' /\ NobodyIsRobbed'
    BY <2>1 DEF Tick
  <2> QED
    BY <2>2, <2>3
<1> QED
  BY <1>3, <1>5, <1>6

LEMMA InvariantKept ==
  ASSUME LInv, [LockNext]_lockVars
  PROVE  LInv'
<1>1. CASE Tick
  BY <1>1, TickKeeps
<1>2. CASE UNCHANGED lockVars
  BY <1>2 DEF lockVars
<1>3. ASSUME NEW p \in Procs, Spawn(p) \/ Crash(p) \/ LockStep(p)
      PROVE  LInv'
  BY <1>3, SpawnKeeps, ExitKeeps, CrashKeeps, CheckExistsKeeps, ReadLockKeeps, RemoveKeeps,
     TruncateKeeps, WriteLockKeeps, BeatKeeps, FinishBeatKeeps, ReleaseCheckKeeps,
     ReleaseReadKeeps, ReleaseUnlinkKeeps DEF LockStep
<1> QED
  BY <1>1, <1>2, <1>3 DEF LockNext

-----------------------------------------------------------------------------
(* The theorems.                                                           *)

\* The strengthened invariant of the lock holds in every reachable state, of every
\* behaviour (acquireRepoLock, its heartbeat and releaseRepoLock).
THEOREM LockInductive == LockSpec => []LInv
<1>1. LInv /\ [LockNext]_lockVars => LInv'
  BY InvariantKept
<1> QED
  BY <1>1, InvariantAtStart, PTL DEF LockSpec

LEMMA LInvProtects == LInv => HolderIsProtected
BY DEF HolderIsProtected

\* Until two processes meet inside the lock functions or a heartbeat is late by more
\* than STALE_MS, one command at a time holds the repository, and whoever tries while
\* it works is refused, however often holders were killed and process ids reused.
THEOREM HoldersAreProtected == LockSpec => []HolderIsProtected
BY LockInductive, LInvProtects, PTL

\* A release removes no lock but the one its own process wrote, be the holder late and
\* its lock taken by another: until two processes meet inside the lock functions,
\* nothing happens to the file between the look at its process id and the unlink
\* (releaseRepoLock).
THEOREM ReleasesAreOwn == LockSpec => ReleasesOwnLock
<1>1. LInv => [\A p \in Procs :
                  "overlap" \notin incidents /\ ReleaseUnlink(p) /\ file \in Locks
                      => file.pid = pid[p]]_lockVars
  BY DEF ReleaseUnlink
<1> QED
  BY <1>1, LockInductive, PTL DEF ReleasesOwnLock

\* The scheduler of a server, which looks at the lock and takes none, changes nothing
\* about that (schedulerTick).
THEOREM SchedulerLeavesTheLock == MSpec => LockSpec
<1>1. MInit => LockInit
  BY DEF MInit
<1>2. [MNext]_allVars => [LockNext]_lockVars
  BY DEF MNext, LockNext, MTick, Poll, RunTask, EndTask, allVars, lockVars
<1> QED
  BY <1>1, <1>2, PTL DEF MSpec, LockSpec
=============================================================================
