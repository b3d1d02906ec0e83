-------------------------- MODULE Dashboard_proofs --------------------------
(***************************************************************************)
(* Theorems about Dashboard, for any scenarios, any number of clicks and   *)
(* any verdicts.                                                           *)
(***************************************************************************)
EXTENDS Dashboard, SequenceTheorems, FiniteSetTheorems, TLAPS

-----------------------------------------------------------------------------
(* The records of the functions.                                           *)

(* A suspended function is the record with the fields given. *)
LEMMA SuspendedFields ==
    ASSUME NEW at \in Waiting, NEW token \in Nat, NEW name \in Scenario, NEW next \in Nat
    PROVE  /\ Suspended(at, token, name, next) \in Function
           /\ Suspended(at, token, name, next).at = at
           /\ Suspended(at, token, name, next).token = token
           /\ Suspended(at, token, name, next).name = name
           /\ Suspended(at, token, name, next).next = next
BY DEF Suspended, Function

(* An ended function waits for nothing. *)
LEMMA DoneFields == Done \in Function /\ Done.at = "done"
BY ScenarioAssumption DEF Done, Suspended, Function

(* What changes when one function of the page is replaced. *)
LEMMA OneFunction ==
    ASSUME task \in [Task -> Function], NEW t \in Task, NEW f \in Function,
           task' = [task EXCEPT ![t] = f]
    PROVE  /\ task' \in [Task -> Function]
           /\ task'[t] = f
           /\ \A u \in Task : u # t => task'[u] = task[u]
OBVIOUS

(* An answer changes neither where a function is nor what it works on. *)
LEMMA AnswerFields ==
    ASSUME TypeOK, NEW t \in Task, Answer(t)
    PROVE  /\ task' \in [Task -> Function]
           /\ \A u \in Task : /\ task'[u].at = task[u].at
                              /\ task'[u].token = task[u].token
                              /\ task'[u].name = task[u].name
                              /\ task'[u].next = task[u].next
<1>1. PICK reply \in {"ok", "failed"}, code \in Codes :
        task' = [task EXCEPT ![t].reply = reply, ![t].code = code]
  BY DEF Answer
<1>2. task \in [Task -> Function] /\ code \in 0 .. 5
  BY CodesAssumption DEF TypeOK
<1>3. \A u \in Task :
        task'[u] = IF u = t THEN [task[t] EXCEPT !.reply = reply, !.code = code] ELSE task[u]
  BY <1>1, <1>2
<1>4. task[t] \in Function
  BY <1>2
<1>5. /\ [task[t] EXCEPT !.reply = reply, !.code = code] \in Function
      /\ [task[t] EXCEPT !.reply = reply, !.code = code].at = task[t].at
      /\ [task[t] EXCEPT !.reply = reply, !.code = code].token = task[t].token
      /\ [task[t] EXCEPT !.reply = reply, !.code = code].name = task[t].name
      /\ [task[t] EXCEPT !.reply = reply, !.code = code].next = task[t].next
  BY <1>2, <1>4 DEF Function
<1>6. DOMAIN task' = Task /\ task' = [u \in Task |-> task'[u]]
  BY <1>1, <1>2
<1>7. \A u \in Task : task'[u] \in Function
  BY <1>2, <1>3, <1>5
<1> QED
  BY <1>3, <1>5, <1>6, <1>7

-----------------------------------------------------------------------------
(* Which function carries the current token.                               *)

RunAt == {"reset", "frame", "sleep"}
Current(t) == task[t].at \in RunAt /\ task[t].token = runToken

(* The inductive form of RunButtonNeverStuck: tokens of runs are never     *)
(* ahead of runToken, so the next click on RUN gets one nobody has.        *)
TokenInv ==
    /\ \A t \in Task : task[t].at \in RunAt => task[t].token <= runToken
    /\ \A t, u \in Task : Current(t) /\ Current(u) => t = u
    /\ running => \E t \in Task : Current(t)
    /\ ~running => \A t \in Task : ~Current(t)

(* The inductive form says what RunButtonNeverStuck says. *)
LEMMA TokenInvIsEnough == TokenInv => RunButtonNeverStuck
<1> SUFFICES ASSUME TokenInv
             PROVE  RunButtonNeverStuck
  OBVIOUS
<1> DEFINE current == {t \in Runs : task[t].token = runToken}
<1>1. \A t : t \in current <=> t \in Task /\ Current(t)
  BY DEF Runs, Current, RunAt
<1>2. CASE running
  <2>1. PICK t \in Task : Current(t)
    BY <1>2 DEF TokenInv
  <2>2. current = {t}
    BY <1>1, <2>1 DEF TokenInv
  <2> QED
    BY <1>2, <2>1, <2>2 DEF RunButtonNeverStuck, Runs, Current, RunAt
<1>3. CASE ~running
  <2>1. current = {}
    BY <1>1, <1>3 DEF TokenInv
  <2> QED
    BY <1>3, <2>1 DEF RunButtonNeverStuck
<1> QED
  BY <1>2, <1>3

(* Stopping makes every token an old one. *)
LEMMA StopKeepsTokens ==
    ASSUME TokenInv, runToken \in Nat, \A u \in Task : task[u].token \in Nat,
           running' = FALSE, runToken' = runToken + 1,
           \A u \in Task : task'[u].at \in RunAt => task'[u] = task[u]
    PROVE  TokenInv'
BY DEF TokenInv, Current

(* A function that goes on, or was none, leaves the tokens as they are. *)
LEMMA SameKeepsTokens ==
    ASSUME TokenInv, UNCHANGED <<running, runToken>>,
           \A u \in Task : /\ task'[u].at \in RunAt <=> task[u].at \in RunAt
                           /\ task[u].at \in RunAt => task'[u].token = task[u].token
    PROVE  TokenInv'
BY DEF TokenInv, Current

(* A run that ends switches the page off exactly when it is the current one. *)
LEMMA EndKeepsTokens ==
    ASSUME TokenInv, NEW t \in Task, task[t].at \in RunAt, task'[t].at = "done",
           \A u \in Task : u # t => task'[u] = task[u],
           runToken' = runToken, running \in BOOLEAN,
           running' = (running /\ task[t].token # runToken)
    PROVE  TokenInv'
<1>1. \A u \in Task : Current(u)' <=> u # t /\ Current(u)
  BY DEF Current, RunAt
<1>2. ~ (task'[t].at \in RunAt)
  BY DEF RunAt
<1>3. CASE Current(t)
  BY <1>1, <1>2, <1>3 DEF TokenInv, Current
<1>4. CASE ~Current(t)
  <2>1. running' = running
    BY <1>4 DEF Current
  <2> QED
    BY <1>1, <1>2, <1>4, <2>1 DEF TokenInv
<1> QED
  BY <1>3, <1>4

(* A new run is the only one with the new token. *)
LEMMA StartKeepsTokens ==
    ASSUME TokenInv, runToken \in Nat, \A u \in Task : task[u].token \in Nat,
           NEW t \in Task, task'[t].at \in RunAt, task'[t].token = runToken + 1,
           \A u \in Task : u # t => task'[u] = task[u],
           runToken' = runToken + 1, running' = TRUE
    PROVE  TokenInv'
<1>1. \A u \in Task : Current(u)' <=> u = t
  BY DEF TokenInv, Current
<1> QED
  BY <1>1 DEF TokenInv

-----------------------------------------------------------------------------
(* The inductive invariant.                                                *)

(* A run begins only when a scenario is loaded, and none is ever unloaded. *)
RunHasScenario == \A t \in Task : task[t].at = "reset" => loaded # "null"

TypeInv == TypeOK /\ RunHasScenario

Adds(counters) ==
    counters["processed"] = counters["normal"] + counters["known"]
                              + counters["unknown"] + counters["unsupported"]

Inv == TypeInv /\ TokenInv /\ Adds(count)

(* What a step must provide that replaces one function. *)
LEMMA TypedStep ==
    ASSUME TypeInv, NEW t \in Task, NEW f \in Function, task' = [task EXCEPT ![t] = f],
           running' \in BOOLEAN, runToken' \in Nat,
           loaded' \in Scenario \cup {"null"}, count' \in [Counters -> Nat],
           clicks' \in 0 .. MaxClicks, t <= clicks', clicks <= clicks',
           f.at \in {"frame", "sleep"} => f.next \in 1 .. Len(Frames[f.name]),
           loaded # "null" \/ f.at = "reset" => loaded' # "null"
    PROVE  TypeInv'
<1>1. /\ task' \in [Task -> Function]
      /\ task'[t] = f
      /\ \A u \in Task : u # t => task'[u] = task[u]
  BY OneFunction DEF TypeInv, TypeOK
<1>2. clicks \in Nat /\ MaxClicks \in Nat
  BY ClicksAssumption DEF TypeInv, TypeOK
<1>3. \A u \in Task : u > clicks' => task'[u].at = "none"
  BY <1>1, <1>2, ClicksAssumption DEF TypeInv, TypeOK, Task
<1>4. \A u \in Task : task'[u].at \in {"frame", "sleep"}
                        => task'[u].next \in 1 .. Len(Frames[task'[u].name])
  BY <1>1 DEF TypeInv, TypeOK
<1>5. RunHasScenario'
  BY <1>1 DEF TypeInv, RunHasScenario
<1> QED
  BY <1>1, <1>3, <1>4, <1>5 DEF TypeInv, TypeOK

(* A function that is suspended was started by a click that came. *)
LEMMA StartedByClick ==
    ASSUME TypeInv, NEW t \in Task, task[t].at # "none"
    PROVE  t <= clicks
BY ClicksAssumption DEF TypeInv, TypeOK, Task

(* Counting one frame under one verdict keeps the sum. *)
LEMMA CountedAdds ==
    ASSUME NEW counters \in [Counters -> Nat], Adds(counters),
           NEW kind \in {"normal", "known", "unknown", "unsupported"}
    PROVE  /\ Counted(counters, {"processed", kind}) \in [Counters -> Nat]
           /\ Adds(Counted(counters, {"processed", kind}))
<1>1. \A c \in Counters : counters[c] \in Nat
  OBVIOUS
<1>2. \A c \in Counters :
        Counted(counters, {"processed", kind})[c]
          = counters[c] + (IF c \in {"processed", kind} THEN 1 ELSE 0)
  BY DEF Counted
<1>3. Counted(counters, {"processed", kind}) \in [Counters -> Nat]
  BY <1>1 DEF Counted
<1>4. Adds(Counted(counters, {"processed", kind}))
  BY <1>1, <1>2 DEF Adds, Counters
<1> QED
  BY <1>3, <1>4

(* Counters that start again add up. *)
LEMMA NoCountsAdd == NoCounts \in [Counters -> Nat] /\ Adds(NoCounts)
BY DEF NoCounts, Adds, Counters

(* The back end touches neither the page nor the tokens. *)
LEMMA AnswerKeeps ==
    ASSUME Inv, NEW t \in Task, Answer(t)
    PROVE  Inv'
<1>1. UNCHANGED <<pageVars, clicks>>
  BY DEF Answer
<1>2. /\ task' \in [Task -> Function]
      /\ \A u \in Task : /\ task'[u].at = task[u].at
                         /\ task'[u].token = task[u].token
                         /\ task'[u].name = task[u].name
                         /\ task'[u].next = task[u].next
  BY AnswerFields DEF Inv, TypeInv
<1>3. TypeInv'
  BY <1>1, <1>2 DEF Inv, TypeInv, TypeOK, RunHasScenario, pageVars
<1>4. TokenInv'
  BY <1>1, <1>2, SameKeepsTokens DEF Inv, pageVars
<1> QED
  BY <1>1, <1>3, <1>4 DEF Inv, pageVars

(* A click takes the place of a function that was not there. *)
LEMMA ClickPlace ==
    ASSUME TypeInv, NEW f \in Function, Click(f)
    PROVE  /\ clicks + 1 \in Task /\ clicks' \in 0 .. MaxClicks
           /\ clicks + 1 <= clicks' /\ clicks <= clicks'
           /\ task' = [task EXCEPT ![clicks + 1] = f]
           /\ task[clicks + 1].at = "none"
BY ClicksAssumption DEF TypeInv, TypeOK, Click, Task

(* A click that stops the page and starts anything but a run. *)
LEMMA StopClickKeeps ==
    ASSUME Inv, NEW f \in Function, Click(f), stopDemo, UNCHANGED <<loaded, count>>,
           f.at \notin {"reset", "frame", "sleep"}
    PROVE  Inv'
<1>1. /\ running' = FALSE /\ runToken' = runToken + 1
      /\ runToken \in Nat /\ task \in [Task -> Function]
      /\ loaded \in Scenario \cup {"null"} /\ count \in [Counters -> Nat]
  BY DEF stopDemo, Inv, TypeInv, TypeOK
<1>a. /\ clicks + 1 \in Task /\ clicks' \in 0 .. MaxClicks
      /\ clicks + 1 <= clicks' /\ clicks <= clicks'
      /\ task' = [task EXCEPT ![clicks + 1] = f]
  BY ClickPlace DEF Inv
<1>b. running' \in BOOLEAN
  BY <1>1
<1>e. runToken' \in Nat
  BY <1>1
<1>c. loaded' \in Scenario \cup {"null"} /\ count' \in [Counters -> Nat]
  BY <1>1
<1>d. /\ f.at \in {"frame", "sleep"} => f.next \in 1 .. Len(Frames[f.name])
      /\ loaded # "null" \/ f.at = "reset" => loaded' # "null"
  OBVIOUS
<1>2. TypeInv'
  BY <1>a, <1>b, <1>c, <1>d, <1>e, TypedStep DEF Inv
<1>3. TokenInv'
  <2>1. \A u \in Task : task[u].token \in Nat
    BY <1>1 DEF Function
  <2>2. \A u \in Task : task'[u].at \in RunAt => task'[u] = task[u]
    BY <1>1, ClickPlace DEF Inv, RunAt
  <2> QED
    BY <1>1, <2>1, <2>2, StopKeepsTokens DEF Inv
<1> QED
  BY <1>2, <1>3 DEF Inv

(* Every click keeps the invariant. *)
LEMMA ClicksKeep ==
    ASSUME Inv, Clicks
    PROVE  Inv'
<1>1. CASE ClickStop
  BY <1>1, StopClickKeeps, DoneFields DEF ClickStop
<1>2. CASE ClickReset
  <2> DEFINE f == Suspended("clear", 0, First, 0)
  <2>1. f \in Function /\ f.at = "clear"
    BY SuspendedFields, ScenarioAssumption DEF Waiting, Requests
  <2>2. Click(f) /\ stopDemo /\ UNCHANGED <<loaded, count>>
    BY <1>2 DEF ClickReset
  <2> HIDE DEF f
  <2> QED
    BY <2>1, <2>2, StopClickKeeps
<1>3. CASE \E name \in Scenario : ClickScenario(name)
  <2>0. PICK name \in Scenario : ClickScenario(name)
    BY <1>3
  <2> DEFINE f == Suspended("load", 0, name, 0)
  <2>1. f \in Function /\ f.at = "load"
    BY SuspendedFields DEF Waiting, Requests
  <2>2. Click(f) /\ stopDemo /\ UNCHANGED <<loaded, count>>
    BY <2>0 DEF ClickScenario
  <2> HIDE DEF f
  <2> QED
    BY <2>1, <2>2, StopClickKeeps
<1>4. CASE ClickRun
  <2> DEFINE f == Suspended("reset", runToken + 1, First, 0)
  <2>1. /\ running' = TRUE /\ runToken' = runToken + 1 /\ loaded # "null"
        /\ Click(f) /\ UNCHANGED <<loaded, count>>
    BY <1>4 DEF ClickRun
  <2>2. /\ runToken \in Nat /\ task \in [Task -> Function]
        /\ loaded \in Scenario \cup {"null"} /\ count \in [Counters -> Nat]
    BY DEF Inv, TypeInv, TypeOK
  <2>3. f \in Function /\ f.at = "reset" /\ f.token = runToken + 1
    BY <2>2, SuspendedFields, ScenarioAssumption DEF Waiting, Requests
  <2> HIDE DEF f
  <2>4. /\ clicks + 1 \in Task /\ clicks' \in 0 .. MaxClicks
        /\ clicks + 1 <= clicks' /\ clicks <= clicks'
        /\ task' = [task EXCEPT ![clicks + 1] = f]
    BY <2>1, <2>3, ClickPlace DEF Inv
  <2>5. TypeInv'
    <3>1. /\ running' \in BOOLEAN /\ runToken' \in Nat
          /\ loaded' \in Scenario \cup {"null"} /\ count' \in [Counters -> Nat]
      BY <2>1, <2>2
    <3>2. /\ f.at \in {"frame", "sleep"} => f.next \in 1 .. Len(Frames[f.name])
          /\ loaded # "null" \/ f.at = "reset" => loaded' # "null"
      BY <2>1, <2>3
    <3> QED
      BY <2>3, <2>4, <3>1, <3>2, TypedStep DEF Inv
  <2>6. TokenInv'
    <3>1. \A u \in Task : task[u].token \in Nat
      BY <2>2 DEF Function
    <3>2. /\ task'[clicks + 1].at \in RunAt /\ task'[clicks + 1].token = runToken + 1
          /\ \A u \in Task : u # clicks + 1 => task'[u] = task[u]
      BY <2>2, <2>3, <2>4 DEF RunAt
    <3> QED
      BY <2>1, <2>2, <2>4, <3>1, <3>2, StartKeepsTokens DEF Inv
  <2> QED
    BY <2>1, <2>5, <2>6 DEF Inv
<1> QED
  BY <1>1, <1>2, <1>3, <1>4 DEF Clicks

-----------------------------------------------------------------------------
(* The functions that are not runs.                                        *)

(* What the invariant says of the state before a step. *)
LEMMA InvFacts ==
    ASSUME Inv
    PROVE  /\ running \in BOOLEAN
           /\ runToken \in Nat
           /\ loaded \in Scenario \cup {"null"}
           /\ count \in [Counters -> Nat]
           /\ clicks \in 0 .. MaxClicks /\ clicks <= clicks
           /\ task \in [Task -> Function]
           /\ \A u \in Task : /\ task[u].token \in Nat /\ task[u].name \in Scenario
                              /\ task[u].next \in Nat
<1>1. clicks \in 0 .. MaxClicks /\ clicks <= clicks
  BY ClicksAssumption DEF Inv, TypeInv, TypeOK
<1>2. task \in [Task -> Function]
  BY DEF Inv, TypeInv, TypeOK
<1>3. \A u \in Task : task[u].token \in Nat /\ task[u].name \in Scenario /\ task[u].next \in Nat
  BY <1>2 DEF Function
<1> QED
  BY <1>1, <1>2, <1>3 DEF Inv, TypeInv, TypeOK

(* Loading and resetting end without touching a run. *)
LEMMA AsideEndKeeps ==
    ASSUME Inv, NEW t \in Task, task[t].at \in {"load", "clear"}, Becomes(t, Done), Aside,
           UNCHANGED <<running, runToken>>, loaded' \in Scenario \cup {"null"},
           loaded # "null" => loaded' # "null",
           count' \in [Counters -> Nat], Adds(count')
    PROVE  Inv'
<1>1. clicks' = clicks /\ task' = [task EXCEPT ![t] = Done]
  BY DEF Aside, Becomes
<1>2. t <= clicks
  BY StartedByClick DEF Inv
<1>3. /\ Done.at \in {"frame", "sleep"} => Done.next \in 1 .. Len(Frames[Done.name])
      /\ loaded # "null" \/ Done.at = "reset" => loaded' # "null"
  BY DoneFields
<1>4. TypeInv'
  BY <1>1, <1>2, <1>3, InvFacts, DoneFields, TypedStep DEF Inv
<1>5. TokenInv'
  <2>1. task'[t] = Done /\ \A u \in Task : u # t => task'[u] = task[u]
    BY <1>1, InvFacts
  <2>2. \A u \in Task : /\ task'[u].at \in RunAt <=> task[u].at \in RunAt
                        /\ task[u].at \in RunAt => task'[u].token = task[u].token
    BY <2>1, DoneFields DEF RunAt
  <2> QED
    BY <2>2, SameKeepsTokens DEF Inv
<1> QED
  BY <1>4, <1>5 DEF Inv, Adds

(* The initialisation of the page stops what the user may have started. *)
LEMMA HealthKeeps ==
    ASSUME Inv, HealthChecked
    PROVE  Inv'
<1> DEFINE f == Suspended("load", 0, First, 0)
<1>1. f \in Function /\ f.at = "load"
  BY SuspendedFields, ScenarioAssumption DEF Waiting, Requests
<1>2. task[0].at = "health" /\ task' = [task EXCEPT ![0] = f]
  BY DEF HealthChecked, Becomes
<1> HIDE DEF f
<1>3. /\ running' = FALSE /\ runToken' = runToken + 1
      /\ loaded' = loaded /\ count' = count /\ clicks' = clicks
  BY DEF HealthChecked, stopDemo, Aside
<1>4. 0 \in Task /\ 0 <= clicks
  BY InvFacts, ClicksAssumption DEF Task
<1>5. /\ f.at \in {"frame", "sleep"} => f.next \in 1 .. Len(Frames[f.name])
      /\ loaded # "null" \/ f.at = "reset" => loaded' # "null"
  BY <1>1, <1>3
<1>6. running' \in BOOLEAN
  BY <1>3
<1>7. runToken' \in Nat
  BY <1>3, InvFacts
<1>8. TypeInv'
  BY <1>1, <1>2, <1>3, <1>4, <1>5, <1>6, <1>7, InvFacts, TypedStep DEF Inv
<1>9. TokenInv'
  <2>1. \A u \in Task : task'[u].at \in RunAt => task'[u] = task[u]
    BY <1>1, <1>2, <1>4, InvFacts DEF RunAt
  <2> QED
    BY <1>3, <2>1, InvFacts, StopKeepsTokens DEF Inv
<1> QED
  BY <1>3, <1>8, <1>9 DEF Inv

-----------------------------------------------------------------------------
(* The steps of a run.                                                     *)

(* A run that goes on keeps its token. *)
LEMMA GoOnKeeps ==
    ASSUME Inv, NEW t \in Task, task[t].at \in RunAt,
           NEW f \in Function, task' = [task EXCEPT ![t] = f],
           f.at \in {"frame", "sleep"}, f.token = task[t].token,
           f.next \in 1 .. Len(Frames[f.name]),
           UNCHANGED <<running, runToken, loaded, clicks>>,
           count' \in [Counters -> Nat], Adds(count')
    PROVE  Inv'
<1>1. t <= clicks
  BY StartedByClick DEF Inv, RunAt
<1>2. loaded # "null" \/ f.at = "reset" => loaded' # "null"
  OBVIOUS
<1>3. TypeInv'
  BY <1>1, <1>2, InvFacts, TypedStep DEF Inv
<1>4. task'[t] = f /\ \A u \in Task : u # t => task'[u] = task[u]
  BY InvFacts
<1>5. \A u \in Task : /\ task'[u].at \in RunAt <=> task[u].at \in RunAt
                      /\ task[u].at \in RunAt => task'[u].token = task[u].token
  BY <1>4 DEF RunAt
<1>6. TokenInv'
  BY <1>5, SameKeepsTokens DEF Inv
<1> QED
  BY <1>3, <1>6 DEF Inv, Adds

(* A run that ends, complete, given up or failed. *)
LEMMA RunEndKeeps ==
    ASSUME Inv, NEW t \in Task, task[t].at \in RunAt, Becomes(t, Done),
           running' = (running /\ task[t].token # runToken),
           UNCHANGED <<runToken, loaded, clicks>>,
           count' \in [Counters -> Nat], Adds(count')
    PROVE  Inv'
<1>1. task' = [task EXCEPT ![t] = Done]
  BY DEF Becomes
<1>2. t <= clicks
  BY StartedByClick DEF Inv, RunAt
<1>3. running' \in BOOLEAN
  BY InvFacts
<1>4. /\ Done.at \in {"frame", "sleep"} => Done.next \in 1 .. Len(Frames[Done.name])
      /\ loaded # "null" \/ Done.at = "reset" => loaded' # "null"
  BY DoneFields
<1>5. TypeInv'
  BY <1>1, <1>2, <1>3, <1>4, InvFacts, DoneFields, TypedStep DEF Inv
<1>6. task'[t].at = "done" /\ \A u \in Task : u # t => task'[u] = task[u]
  BY <1>1, InvFacts, DoneFields
<1>7. TokenInv'
  BY <1>6, InvFacts, EndKeepsTokens DEF Inv
<1> QED
  BY <1>5, <1>7 DEF Inv, Adds

(* The loop of a run, wherever it is entered, ends or goes on. *)
LEMMA LoopKeeps ==
    ASSUME Inv, NEW t \in Task, task[t].at \in RunAt,
           NEW name \in Scenario, NEW i \in Nat, i <= Len(Frames[name]),
           NEW counters \in [Counters -> Nat], Adds(counters), NEW text,
           Loop(t, name, i, counters, text)
    PROVE  Inv'
<1>1. UNCHANGED <<runToken, loaded, clicks>>
  BY DEF Loop, Aside
<1>2. task[t].token \in Nat /\ i + 1 \in Nat
  BY InvFacts
<1>3. Len(Frames[name]) \in Nat
  BY FramesAssumption
<1>4. CASE SendFrame(t, name, i, counters, text)
  <2> DEFINE f == Suspended("frame", task[t].token, name, i + 1)
   <2>0. "frame" \in Waiting
    BY DEF Waiting, Requests
  <2>1. /\ f \in Function /\ f.at = "frame" /\ f.token = task[t].token
        /\ f.name = name /\ f.next = i + 1
    BY <1>2, <2>0, SuspendedFields
  <2>2. task' = [task EXCEPT ![t] = f] /\ running' = running /\ count' = counters
    BY <1>4 DEF SendFrame, Becomes
  <2> HIDE DEF f
  <2>3. i < Len(Frames[name])
    BY <1>4 DEF SendFrame
  <2>4. f.next \in 1 .. Len(Frames[f.name])
    BY <1>3, <2>1, <2>3
  <2> QED
    BY <1>1, <2>1, <2>2, <2>4, GoOnKeeps
<1>5. CASE SkipFrame(t, name, i, counters, text)
  <2> DEFINE f == Suspended("sleep", task[t].token, name, i + 1)
   <2>0. "sleep" \in Waiting
    BY DEF Waiting, Requests
  <2>1. /\ f \in Function /\ f.at = "sleep" /\ f.token = task[t].token
        /\ f.name = name /\ f.next = i + 1
    BY <1>2, <2>0, SuspendedFields
  <2>2. /\ task' = [task EXCEPT ![t] = f] /\ running' = running
        /\ count' = Counted(counters, {"processed", "unsupported"})
    BY <1>5 DEF SkipFrame, Becomes
  <2> HIDE DEF f
  <2>3. i < Len(Frames[name])
    BY <1>5 DEF SkipFrame
  <2>4. f.next \in 1 .. Len(Frames[f.name])
    BY <1>3, <2>1, <2>3
  <2>5. count' \in [Counters -> Nat] /\ Adds(count')
    BY <2>2, CountedAdds
  <2> QED
    BY <1>1, <2>1, <2>2, <2>4, <2>5, GoOnKeeps
<1>6. CASE Finish(t, name, i, counters)
  <2>1. Becomes(t, Done) /\ count' = counters
    BY <1>6 DEF Finish
  <2>2. running' = (running /\ task[t].token # runToken)
    BY <1>6 DEF Finish, Live
  <2> QED
    BY <1>1, <2>1, <2>2, RunEndKeeps
<1>7. CASE Abandon(t, counters, text)
  <2>1. /\ Becomes(t, Done) /\ count' = counters
        /\ running' = (running /\ task[t].token # runToken)
    BY <1>7 DEF Abandon
  <2> QED
    BY <1>1, <2>1, RunEndKeeps
<1> QED
  BY <1>4, <1>5, <1>6, <1>7 DEF Loop

(* Every function that is resumed keeps the invariant. *)
LEMMA ResumeKeeps ==
    ASSUME Inv, NEW t \in Task, Resume(t)
    PROVE  Inv'
<1>1. CASE ScenarioLoaded(t)
  <2>1. /\ task[t].at \in {"load", "clear"} /\ Becomes(t, Done) /\ Aside
        /\ UNCHANGED <<running, runToken>> /\ loaded' = task[t].name /\ count' = NoCounts
    BY <1>1 DEF ScenarioLoaded, Answered
  <2>2. loaded' \in Scenario \cup {"null"} /\ (loaded # "null" => loaded' # "null")
    BY <2>1, InvFacts, ScenarioAssumption
  <2> QED
    BY <2>1, <2>2, NoCountsAdd, AsideEndKeeps
<1>2. CASE LoadFailed(t)
  <2>1. /\ task[t].at \in {"load", "clear"} /\ Becomes(t, Done) /\ Aside
        /\ UNCHANGED <<running, runToken>> /\ loaded' = loaded /\ count' = count
    BY <1>2 DEF LoadFailed, Answered
  <2> QED
    BY <2>1, InvFacts, AsideEndKeeps DEF Inv
<1>3. CASE FullReset(t)
  <2>1. /\ task[t].at \in {"load", "clear"} /\ Becomes(t, Done) /\ Aside
        /\ UNCHANGED <<running, runToken>> /\ loaded' = loaded /\ count' = NoCounts
    BY <1>3 DEF FullReset
  <2> QED
    BY <2>1, InvFacts, NoCountsAdd, AsideEndKeeps
<1>4. CASE BeginLoop(t)
  <2>1. task[t].at = "reset" /\ Loop(t, loaded, 0, NoCounts, "IDLE")
    BY <1>4 DEF BeginLoop, Answered
  <2>2. loaded \in Scenario
    BY <2>1, InvFacts DEF Inv, TypeInv, RunHasScenario
  <2>3. 0 <= Len(Frames[loaded])
    BY <2>2, FramesAssumption
  <2>4. task[t].at \in RunAt
    BY <2>1 DEF RunAt
  <2> QED
    BY <2>1, <2>2, <2>3, <2>4, NoCountsAdd, LoopKeeps
<1>5. CASE ContinueLoop(t)
  <2>1. task[t].at = "sleep" /\ Loop(t, task[t].name, task[t].next, count, shown)
    BY <1>5 DEF ContinueLoop
  <2>2. task[t].next \in 1 .. Len(Frames[task[t].name])
    BY <2>1 DEF Inv, TypeInv, TypeOK
  <2>3. task[t].name \in Scenario /\ task[t].next \in Nat
    BY InvFacts
  <2>4. task[t].next <= Len(Frames[task[t].name])
    BY <2>2, <2>3, FramesAssumption
  <2>5. task[t].at \in RunAt
    BY <2>1 DEF RunAt
  <2>6. count \in [Counters -> Nat] /\ Adds(count)
    BY InvFacts DEF Inv
  <2> QED
    BY <2>1, <2>3, <2>4, <2>5, <2>6, LoopKeeps
<1>6. CASE FrameDone(t)
  <2> DEFINE f == Suspended("sleep", task[t].token, task[t].name, task[t].next)
  <2>1. /\ task[t].at = "frame" /\ task' = [task EXCEPT ![t] = f]
        /\ count' = Counted(count, {"processed", Verdict(task[t].code)})
        /\ UNCHANGED <<running, runToken, loaded, clicks>>
    BY <1>6 DEF FrameDone, Answered, Becomes, Aside
  <2>2. /\ f \in Function /\ f.at = "sleep" /\ f.token = task[t].token
        /\ f.name = task[t].name /\ f.next = task[t].next
    <3>1. "sleep" \in Waiting
      BY DEF Waiting
    <3>2. task[t].token \in Nat /\ task[t].name \in Scenario /\ task[t].next \in Nat
      BY InvFacts
    <3> QED
      BY <3>1, <3>2, SuspendedFields
  <2> HIDE DEF f
  <2>3. f.next \in 1 .. Len(Frames[f.name])
    BY <2>1, <2>2 DEF Inv, TypeInv, TypeOK
  <2>4. count' \in [Counters -> Nat] /\ Adds(count')
    <3>1. Verdict(task[t].code) \in {"normal", "known", "unknown", "unsupported"}
      BY DEF Verdict
    <3>2. count \in [Counters -> Nat] /\ Adds(count)
      BY InvFacts DEF Inv
    <3> QED
      BY <2>1, <3>1, <3>2, CountedAdds
  <2>5. task[t].at \in RunAt
    BY <2>1 DEF RunAt
  <2> QED
    BY <2>1, <2>2, <2>3, <2>4, <2>5, GoOnKeeps
<1>7. CASE RunFails(t)
  <2>1. /\ task[t].at \in RunAt /\ Becomes(t, Done)
        /\ running' = (running /\ task[t].token # runToken)
        /\ UNCHANGED <<runToken, loaded, clicks, count>>
    BY <1>7 DEF RunFails, Aside, RunAt
  <2>2. count \in [Counters -> Nat] /\ Adds(count)
    BY InvFacts DEF Inv
  <2> QED
    BY <2>1, <2>2, RunEndKeeps
<1> QED
  BY <1>1, <1>2, <1>3, <1>4, <1>5, <1>6, <1>7 DEF Resume

-----------------------------------------------------------------------------
(* The theorems.                                                           *)

(* The page begins with no run, no scenario and no counts. *)
LEMMA InitInv == Init => Inv
<1> SUFFICES ASSUME Init
             PROVE  Inv
  OBVIOUS
<1> DEFINE f == Suspended("health", 0, First, 0)
<1>1. f \in Function /\ f.at = "health"
  BY SuspendedFields, ScenarioAssumption DEF Waiting, Requests
<1>2. Idle \in Function /\ Idle.at = "none"
  BY ScenarioAssumption DEF Idle, Suspended, Function
<1>3. task = [t \in Task |-> IF t = 0 THEN f ELSE Idle]
  BY DEF Init
<1> HIDE DEF f
<1>4. /\ task \in [Task -> Function]
      /\ \A t \in Task : task[t].at = IF t = 0 THEN "health" ELSE "none"
  BY <1>1, <1>2, <1>3
<1>5. /\ running = FALSE /\ runToken = 0 /\ loaded = "null" /\ count = NoCounts /\ clicks = 0
  BY DEF Init
<1>6. TypeOK
  <2>1. clicks \in 0 .. MaxClicks
    BY <1>5, ClicksAssumption
  <2>2. \A t \in Task : t > clicks => task[t].at = "none"
    BY <1>4, <1>5 DEF Task
  <2>3. \A t \in Task : task[t].at \notin {"frame", "sleep"}
    BY <1>4
  <2>4. running \in BOOLEAN
    BY <1>5
  <2>5. runToken \in Nat
    BY <1>5
  <2> QED
    BY <1>4, <1>5, <2>1, <2>2, <2>3, <2>4, <2>5, NoCountsAdd DEF TypeOK
<1>7. RunHasScenario
  BY <1>4 DEF RunHasScenario
<1>8. \A t \in Task : task[t].at \notin RunAt
  BY <1>4 DEF RunAt
<1>9. TokenInv
  BY <1>5, <1>8 DEF TokenInv, Current
<1> QED
  BY <1>5, <1>6, <1>7, <1>9, NoCountsAdd DEF Inv, TypeInv

(* The inductive invariant holds in every state of the page. *)
THEOREM Invariance == Spec => []Inv
<1>1. Inv /\ [Next]_vars => Inv'
  <2> SUFFICES ASSUME Inv, [Next]_vars
               PROVE  Inv'
    OBVIOUS
  <2>1. CASE Clicks
    BY <2>1, ClicksKeep
  <2>2. CASE HealthChecked
    BY <2>2, HealthKeeps
  <2>3. CASE \E t \in Task : Answer(t) \/ Resume(t)
    BY <2>3, AnswerKeeps, ResumeKeeps
  <2>4. CASE UNCHANGED vars
    BY <2>4 DEF Inv, TypeInv, TypeOK, RunHasScenario, TokenInv, Current, Adds, vars, pageVars
  <2> QED
    BY <2>1, <2>2, <2>3, <2>4 DEF Next
<1> QED
  BY <1>1, InitInv, PTL DEF Spec

(* The page's state keeps its shape and no run goes past the last frame of *)
(* its scenario, whatever the answers.                                     *)
THEOREM PageTyped == Spec => []TypeOK
<1>1. Inv => TypeOK
  BY DEF Inv, TypeInv
<1> QED
  BY <1>1, Invariance, PTL

(* Every frame the page counts as processed is in exactly one other        *)
(* counter, also when answers of stopped runs come in.                     *)
THEOREM EveryFrameCountedOnce == Spec => []CountersAdd
<1>1. Inv => CountersAdd
  BY DEF Inv, Adds, CountersAdd
<1> QED
  BY <1>1, Invariance, PTL

(* While RUN is disabled exactly one run can enable it again, and while it *)
(* is enabled no suspended run can come back to life.                      *)
THEOREM OneCurrentRun == Spec => []RunButtonNeverStuck
<1>1. Inv => RunButtonNeverStuck
  BY TokenInvIsEnough DEF Inv
<1> QED
  BY <1>1, Invariance, PTL

-----------------------------------------------------------------------------
(* A run that nothing overlaps.                                            *)

(* What the detector has seen and the page counted as not supported make   *)
(* up the first n frames of the scenario.                                  *)
Seen(t, n, counters) ==
    Streamed(t, loaded, n) /\ counters["unsupported"] + Len(window) = n

(* What holds of a function that is alone, wherever it is suspended.       *)
Undisturbed(t) ==
    /\ Active = {t}
    /\ task[t].at \in {"frame", "sleep"} => task[t].name = loaded /\ shown = "IDLE"
    /\ task[t].at = "reset" /\ task[t].reply = "ok" => window = <<>>
    /\ task[t].at = "sleep" =>
         /\ count["processed"] = task[t].next
         /\ Seen(t, task[t].next, count)
    /\ task[t].at = "frame" =>
         /\ Frames[loaded][task[t].next] = "std"
         /\ count["processed"] = task[t].next - 1
         /\ task[t].reply = "none" => Seen(t, task[t].next - 1, count)
         /\ task[t].reply = "ok" => Seen(t, task[t].next, count)

(* The inductive invariant behind CompleteIsWhole, and its action. *)
WindowTyped == window \in Seq(Task \X Nat)
AloneInv == \A t \in Active \ overlapped : Undisturbed(t)
WholeInv == WindowTyped /\ AloneInv

WholeStep ==
    \A t \in Task \ overlapped :
      task[t].at \in Waiting /\ task'[t].at = "done" /\ shown' = "COMPLETE"
        => /\ Streamed(t, loaded, Len(Frames[loaded]))
           /\ count'["processed"] = Len(Frames[loaded])
           /\ count'["unsupported"] = Len(Frames[loaded]) - Len(window)

(* Before the first frame nothing is to be seen. *)
LEMMA StreamedNone ==
    ASSUME NEW t \in Task, NEW name \in Scenario, window = <<>>
    PROVE  Streamed(t, name, 0) /\ Len(window) = 0
BY DEF Streamed, StdFrames

(* A frame that is not supported does not change what is to be seen. *)
LEMMA StreamedExt ==
    ASSUME NEW t \in Task, NEW name \in Scenario, NEW i \in Nat, Streamed(t, name, i),
           Frames[name][i + 1] = "ext"
    PROVE  Streamed(t, name, i + 1)
<1>1. \A k \in 1 .. i + 1 : k = i + 1 \/ k \in 1 .. i
  OBVIOUS
<1>2. 1 .. i \subseteq 1 .. i + 1
  OBVIOUS
<1>3. StdFrames(name, i + 1) = StdFrames(name, i)
  BY <1>1, <1>2 DEF StdFrames
<1> QED
  BY <1>3 DEF Streamed

(* The next supported frame comes last. *)
LEMMA StreamedStd ==
    ASSUME WindowTyped, NEW t \in Task, NEW name \in Scenario, NEW i \in Nat,
           Streamed(t, name, i), Frames[name][i + 1] = "std",
           window' = Append(window, <<t, i + 1>>)
    PROVE  Streamed(t, name, i + 1)' /\ Len(window') = Len(window) + 1
<1> DEFINE last == <<t, i + 1>>
<1>1. /\ Len(window) \in Nat /\ DOMAIN window = 1 .. Len(window)
      /\ Len(window') = Len(window) + 1 /\ DOMAIN window' = 1 .. Len(window) + 1
      /\ \A k \in 1 .. Len(window) : window'[k] = window[k]
      /\ window'[Len(window) + 1] = last
  BY DEF WindowTyped
<1>2. StdFrames(name, i + 1) = StdFrames(name, i) \cup {i + 1}
  <2>1. \A k \in 1 .. i + 1 : k = i + 1 \/ k \in 1 .. i
    OBVIOUS
  <2>2. 1 .. i \subseteq 1 .. i + 1 /\ i + 1 \in 1 .. i + 1
    OBVIOUS
  <2> QED
    BY <2>1, <2>2 DEF StdFrames
<1>3. {window'[k] : k \in DOMAIN window'} = {window[k] : k \in DOMAIN window} \cup {last}
  <2>1. \A k \in DOMAIN window' : k \in DOMAIN window \/ k = Len(window) + 1
    BY <1>1
  <2>2. DOMAIN window \subseteq DOMAIN window' /\ Len(window) + 1 \in DOMAIN window'
    BY <1>1
  <2> HIDE DEF last
  <2> QED
    BY <1>1, <2>1, <2>2
<1>4. {window'[k] : k \in DOMAIN window'} = {t} \X StdFrames(name, i + 1)
  BY <1>2, <1>3 DEF Streamed
<1>5. ASSUME NEW j \in DOMAIN window', NEW k \in DOMAIN window', j < k
      PROVE  window'[j][2] < window'[k][2]
  <2>1. j \in DOMAIN window /\ j \in 1 .. Len(window)
    BY <1>1, <1>5
  <2>2. CASE k \in DOMAIN window
    BY <1>1, <1>5, <2>1, <2>2 DEF Streamed
  <2>3. CASE k = Len(window) + 1
    <3>1. window[j] \in {t} \X StdFrames(name, i)
      BY <2>1 DEF Streamed
    <3>2. window[j][2] \in 1 .. i
      BY <3>1 DEF StdFrames
    <3> QED
      BY <1>1, <2>1, <2>3, <3>2
  <2> QED
    BY <1>1, <2>2, <2>3
<1> QED
  BY <1>1, <1>4, <1>5 DEF Streamed, StdFrames

(* A new function waits for its first answer. *)
LEMMA SuspendedReply ==
    ASSUME NEW at, NEW token, NEW name, NEW next
    PROVE  Suspended(at, token, name, next).reply = "none"
BY DEF Suspended

(* A function that acts while another is alone cannot be: it is that one.  *)
LEMMA AloneActs ==
    ASSUME Inv, AloneInv, NEW u \in Active, overlapped' = overlapped,
           \A w \in Task : w # u => task'[w] = task[w],
           NEW t \in Active' \ overlapped'
    PROVE  t = u /\ u \notin overlapped /\ Undisturbed(u) /\ Active' = {u}
<1>1. t = u
  <2>1. SUFFICES ASSUME t # u
                 PROVE  FALSE
    OBVIOUS
  <2>2. t \in Active
    BY <2>1 DEF Active
  <2>3. Active = {t}
    BY <2>2 DEF AloneInv, Undisturbed
  <2> QED
    BY <2>1, <2>3
<1>2. u \notin overlapped /\ Undisturbed(u)
  BY <1>1 DEF AloneInv
<1>3. \A w \in Active' : w = u \/ w \in Active
  BY DEF Active
<1> QED
  BY <1>1, <1>2, <1>3 DEF Undisturbed

(* When a function ends, none is alone. *)
LEMMA EndsAlone ==
    ASSUME Inv, AloneInv, NEW u \in Active, overlapped' = overlapped, Becomes(u, Done)
    PROVE  AloneInv'
<1>1. u \in Task /\ task'[u] = Done /\ \A w \in Task : w # u => task'[w] = task[w]
  BY InvFacts, DoneFields DEF Becomes, Active
<1>2. u \notin Active'
  BY <1>1, DoneFields DEF Active, Waiting, Requests
<1> QED
  BY <1>1, <1>2, AloneActs DEF AloneInv

(* A click that starts a function beside another leaves neither alone; one *)
(* that starts it on a quiet page leaves it before its first answer.       *)
LEMMA ClickAlone ==
    ASSUME Inv, WholeInv, NEW f \in Function, Click(f),
           f.at \notin {"frame", "sleep"}, f.reply = "none"
    PROVE  WholeInv' /\ WholeStep
<1> DEFINE c == clicks + 1
<1>1. /\ c \in Task /\ task' = [task EXCEPT ![c] = f] /\ task[c].at = "none"
  BY ClickPlace DEF Inv
<1>2. task'[c] = f /\ \A w \in Task : w # c => task'[w] = task[w]
  BY <1>1, InvFacts
<1>3. WindowTyped'
  BY DEF Click, WholeInv, WindowTyped
<1> HIDE DEF c
<1>4. ASSUME NEW t \in Active' \ overlapped'
      PROVE  Undisturbed(t)'
  <2>1. \A w \in Active' : w = c \/ w \in Active
    BY <1>2 DEF Active
  <2>2. Active = {}
    <3>1. SUFFICES ASSUME Active # {}
                   PROVE  FALSE
      OBVIOUS
    <3>2. overlapped' = overlapped \cup Active \cup {c}
      BY <3>1 DEF Click, c
    <3> QED
      BY <2>1, <3>2
  <2>3. t = c /\ Active' = {c}
    BY <2>1, <2>2
  <2> QED
    BY <1>2, <2>3 DEF Undisturbed
<1>5. ASSUME NEW t \in Task, task[t].at \in Waiting, task'[t].at = "done"
      PROVE  FALSE
  <2>1. t # c
    BY <1>1, <1>5 DEF Waiting, Requests
  <2> QED
    BY <1>2, <1>5, <2>1 DEF Waiting, Requests
<1>6. WholeStep
  BY <1>5 DEF WholeStep
<1> QED
  BY <1>3, <1>4, <1>6 DEF WholeInv, AloneInv

(* Every click keeps what holds of a function that is alone. *)
LEMMA ClicksAlone ==
    ASSUME Inv, WholeInv, Clicks
    PROVE  WholeInv' /\ WholeStep
<1>1. PICK f \in Function : Click(f) /\ f.at \notin {"frame", "sleep"} /\ f.reply = "none"
  <2>1. CASE ClickStop
    <3>1. Done.reply = "none"
      BY SuspendedReply DEF Done
    <3> QED
      BY <2>1, <3>1, DoneFields DEF ClickStop
  <2>2. CASE ClickReset
    <3>1. "clear" \in Waiting
      BY DEF Waiting, Requests
    <3> QED
      BY <2>2, <3>1, SuspendedFields, SuspendedReply, ScenarioAssumption DEF ClickReset
  <2>3. CASE ClickRun
    <3>1. "reset" \in Waiting /\ runToken + 1 \in Nat
      BY InvFacts DEF Waiting, Requests
    <3> QED
      BY <2>3, <3>1, SuspendedFields, SuspendedReply, ScenarioAssumption DEF ClickRun
  <2>4. CASE \E name \in Scenario : ClickScenario(name)
    <3>1. "load" \in Waiting
      BY DEF Waiting, Requests
    <3> QED
      BY <2>4, <3>1, SuspendedFields, SuspendedReply DEF ClickScenario
  <2> QED
    BY <2>1, <2>2, <2>3, <2>4 DEF Clicks
<1> QED
  BY <1>1, ClickAlone

(* The initialisation goes on to load a scenario. *)
LEMMA HealthAlone ==
    ASSUME Inv, WholeInv, HealthChecked
    PROVE  WholeInv' /\ WholeStep
<1> DEFINE f == Suspended("load", 0, First, 0)
<1>1. f \in Function /\ f.at = "load" /\ f.reply = "none"
  BY SuspendedFields, SuspendedReply, ScenarioAssumption DEF Waiting, Requests
<1>2. 0 \in Task /\ task' = [task EXCEPT ![0] = f] /\ task[0].at = "health"
  BY ClicksAssumption DEF HealthChecked, Becomes, Task
<1> HIDE DEF f
<1>3. task'[0] = f /\ \A w \in Task : w # 0 => task'[w] = task[w]
  BY <1>1, <1>2, InvFacts
<1>4. UNCHANGED <<window, overlapped>>
  BY DEF HealthChecked, Aside
<1>5. 0 \in Active
  BY <1>2 DEF Active, Waiting, Requests
<1>6. AloneInv'
  <2>1. ASSUME NEW t \in Active' \ overlapped'
        PROVE  Undisturbed(t)'
    <3>1. t = 0 /\ Active' = {0}
      BY <1>3, <1>4, <1>5, AloneActs DEF WholeInv
    <3> QED
      BY <1>1, <1>3, <3>1 DEF Undisturbed
  <2> QED
    BY <2>1 DEF AloneInv
<1>7. \A t \in Task : task[t].at \in Waiting => task'[t].at # "done"
  BY <1>1, <1>3 DEF Waiting, Requests
<1> QED
  BY <1>4, <1>6, <1>7 DEF WholeInv, WindowTyped, WholeStep

(* A function of the page that ends without a run being complete. *)
LEMMA OtherEndAlone ==
    ASSUME Inv, WholeInv, NEW u \in Task,
           ScenarioLoaded(u) \/ LoadFailed(u) \/ FullReset(u) \/ RunFails(u)
    PROVE  WholeInv' /\ WholeStep
<1>1. /\ task[u].at \in Waiting /\ Becomes(u, Done) /\ shown' # "COMPLETE"
      /\ UNCHANGED <<window, overlapped>>
  BY DEF ScenarioLoaded, LoadFailed, FullReset, RunFails, Answered, Aside, Waiting, Requests
<1>2. u \in Active
  BY <1>1 DEF Active
<1>3. AloneInv'
  BY <1>1, <1>2, EndsAlone DEF WholeInv
<1> QED
  BY <1>1, <1>3 DEF WholeInv, WindowTyped, WholeStep

(* The back end's answer to a function that is alone. *)
LEMMA AnswerAlone ==
    ASSUME Inv, WholeInv, NEW u \in Task, Answer(u)
    PROVE  WholeInv' /\ WholeStep
<1>0. /\ task[u].at \in Requests /\ task[u].reply = "none"
      /\ UNCHANGED <<pageVars, clicks, overlapped>>
  BY DEF Answer
<1>1. PICK reply \in {"ok", "failed"}, code \in Codes :
        /\ task' = [task EXCEPT ![u].reply = reply, ![u].code = code]
        /\ \/ reply = "failed" /\ UNCHANGED window
           \/ task[u].at \in {"health", "load"} /\ UNCHANGED window
           \/ task[u].at \in {"reset", "clear"} /\ window' = <<>>
           \/ task[u].at = "frame" /\ window' = Append(window, <<u, task[u].next>>)
  BY DEF Answer
<1>2. /\ task'[u].reply = reply
      /\ \A w \in Task : w # u => task'[w] = task[w]
  <2>1. task \in [Task -> Function] /\ task[u] \in Function
    BY InvFacts
  <2>2. task'[u] = [task[u] EXCEPT !.reply = reply, !.code = code]
    BY <1>1, <2>1
  <2>3. [task[u] EXCEPT !.reply = reply, !.code = code].reply = reply
    BY <2>1 DEF Function
  <2>4. \A w \in Task : w # u => task'[w] = task[w]
    BY <1>1, <2>1
  <2> QED
    BY <2>2, <2>3, <2>4
<1>3. \A w \in Task : /\ task'[w].at = task[w].at /\ task'[w].name = task[w].name
                       /\ task'[w].next = task[w].next
  BY AnswerFields DEF Inv, TypeInv
<1>4. WindowTyped'
  <2>1. <<u, task[u].next>> \in Task \X Nat
    BY InvFacts
  <2>2. window \in Seq(Task \X Nat)
    BY DEF WholeInv, WindowTyped
  <2> HIDE DEF Task
  <2>3. Append(window, <<u, task[u].next>>) \in Seq(Task \X Nat)
    BY <2>1, <2>2
  <2>4. <<>> \in Seq(Task \X Nat)
    OBVIOUS
  <2>5. window' \in {window, <<>>, Append(window, <<u, task[u].next>>)}
    BY <1>1
  <2>6. window' \in Seq(Task \X Nat)
    BY <2>2, <2>3, <2>4, <2>5
  <2> QED
    BY <2>6 DEF WindowTyped, Task
<1>5. ASSUME NEW t \in Active' \ overlapped'
      PROVE  Undisturbed(t)'
  <2>1. u \in Active
    BY <1>0 DEF Active, Waiting
  <2>2. t = u /\ Undisturbed(u) /\ Active' = {u}
    BY <1>0, <1>2, <2>1, AloneActs DEF WholeInv
  <2>3. UNCHANGED <<loaded, shown, count>>
    BY <1>0 DEF pageVars
  <2>4. task[u].at # "sleep"
    BY <1>0 DEF Requests
  <2>5. CASE task[u].at = "reset"
    <3>1. reply = "ok" => window' = <<>>
      BY <1>1, <2>5
    <3> QED
      BY <1>2, <1>3, <2>2, <2>5, <3>1 DEF Undisturbed
  <2>6. CASE task[u].at = "frame"
    <3> DEFINE i == task[u].next - 1
    <3>1. /\ Frames[loaded][task[u].next] = "std" /\ count["processed"] = i
          /\ Seen(u, i, count) /\ task[u].name = loaded /\ shown = "IDLE"
      BY <1>0, <2>2, <2>6 DEF Undisturbed
    <3>2. /\ loaded \in Scenario /\ i \in Nat /\ task[u].next = i + 1
      <4>1. task[u].next \in 1 .. Len(Frames[task[u].name]) /\ task[u].name \in Scenario
        BY <2>6, InvFacts DEF Inv, TypeInv, TypeOK
      <4>2. Len(Frames[task[u].name]) \in Nat
        BY <4>1, FramesAssumption
      <4> QED
        BY <3>1, <4>1, <4>2
    <3> HIDE DEF i
    <3>3. CASE reply = "failed"
      BY <1>2, <1>3, <2>2, <2>3, <2>6, <3>1, <3>2, <3>3 DEF Undisturbed, i
    <3>4. CASE reply = "ok"
      <4>1. PICK name \in Scenario : name = loaded
        BY <3>2
      <4>2. PICK n \in Nat : n = i
        BY <3>2
      <4>3. window' = Append(window, <<u, n + 1>>)
        BY <1>1, <2>6, <3>2, <3>4, <4>2
      <4>4. Streamed(u, name, n) /\ Frames[name][n + 1] = "std" /\ WindowTyped
        BY <3>1, <3>2, <4>1, <4>2 DEF Seen, WholeInv
      <4>5. Streamed(u, name, n + 1)' /\ Len(window') = Len(window) + 1
        BY <4>3, <4>4, StreamedStd
      <4>6. count["unsupported"] \in Nat /\ Len(window) \in Nat
        BY InvFacts DEF Counters, WholeInv, WindowTyped
      <4>7. count["unsupported"] + Len(window) = n
        BY <3>1, <4>2 DEF Seen
      <4>8. loaded' = name /\ task'[u].next = n + 1 /\ count' = count
        BY <1>3, <2>3, <3>2, <4>1, <4>2
      <4>9. count'["unsupported"] + Len(window') = n + 1
        BY <4>5, <4>6, <4>7, <4>8
      <4>10. Streamed(u, loaded, task[u].next)'
        BY <4>5, <4>8
      <4>11. Seen(u, task[u].next, count)'
        BY <4>8, <4>9, <4>10 DEF Seen
      <4> QED
        BY <1>2, <1>3, <2>2, <2>3, <2>6, <3>1, <3>2, <3>4, <4>11 DEF Undisturbed, i
    <3> QED
      BY <1>1, <3>3, <3>4
  <2>7. CASE task[u].at \notin {"reset", "frame"}
    BY <1>3, <2>2, <2>4, <2>7 DEF Undisturbed
  <2> QED
    BY <2>5, <2>6, <2>7
<1>6. WholeStep
  BY <1>3 DEF WholeStep, Waiting, Requests
<1> QED
  BY <1>4, <1>5, <1>6 DEF WholeInv, AloneInv

(* A run that goes on to its next await. *)
LEMMA GoOnAlone ==
    ASSUME Inv, WholeInv, NEW u \in Active, NEW f \in Function,
           task' = [task EXCEPT ![u] = f], UNCHANGED <<loaded, window, overlapped>>,
           f.at \in {"frame", "sleep"}, f.reply = "none",
           u \notin overlapped /\ Undisturbed(u) =>
             /\ f.name = loaded /\ shown' = "IDLE"
             /\ f.at = "sleep" => count'["processed"] = f.next /\ Seen(u, f.next, count')
             /\ f.at = "frame" => /\ Frames[loaded][f.next] = "std"
                                  /\ count'["processed"] = f.next - 1
                                  /\ Seen(u, f.next - 1, count')
    PROVE  WholeInv' /\ WholeStep
<1>1. u \in Task /\ task'[u] = f /\ \A w \in Task : w # u => task'[w] = task[w]
  BY InvFacts DEF Active
<1>2. ASSUME NEW t \in Active' \ overlapped'
      PROVE  Undisturbed(t)'
  <2>1. t = u /\ u \notin overlapped /\ Undisturbed(u) /\ Active' = {u}
    BY <1>1, AloneActs DEF WholeInv
  <2>2. \A n, c : Seen(u, n, c)
                  => Streamed(u, loaded, n)' /\ c["unsupported"] + Len(window') = n
    BY DEF Seen, Streamed
  <2>3. f.at = "sleep" => Seen(u, task[u].next, count)'
    BY <1>1, <2>1, <2>2 DEF Seen
  <2>4. f.at = "frame" => Seen(u, task[u].next - 1, count)'
    BY <1>1, <2>1, <2>2 DEF Seen
  <2> QED
    BY <1>1, <2>1, <2>3, <2>4 DEF Undisturbed
<1>3. WholeStep
  BY <1>1 DEF WholeStep, Waiting, Requests
<1> QED
  BY <1>2, <1>3 DEF WholeInv, WindowTyped, AloneInv

(* The answer to a frame is counted. *)
LEMMA FrameAlone ==
    ASSUME Inv, WholeInv, NEW u \in Task, FrameDone(u)
    PROVE  WholeInv' /\ WholeStep
<1> DEFINE f == Suspended("sleep", task[u].token, task[u].name, task[u].next)
<1>1. /\ task[u].at = "frame" /\ task[u].reply = "ok" /\ task' = [task EXCEPT ![u] = f]
      /\ count' = Counted(count, {"processed", Verdict(task[u].code)})
      /\ UNCHANGED <<loaded, shown, window, overlapped>>
  BY DEF FrameDone, Answered, Becomes, Aside
<1>2. /\ f \in Function /\ f.at = "sleep" /\ f.name = task[u].name
      /\ f.next = task[u].next /\ f.reply = "none"
  <2>1. "sleep" \in Waiting
    BY DEF Waiting
  <2>2. task[u].token \in Nat /\ task[u].name \in Scenario /\ task[u].next \in Nat
    BY InvFacts
  <2> QED
    BY <2>1, <2>2, SuspendedFields, SuspendedReply
<1> HIDE DEF f
<1>3. u \in Active
  BY <1>1 DEF Active, Waiting, Requests
<1>4. /\ count'["processed"] = count["processed"] + 1
      /\ count'["unsupported"] = count["unsupported"]
  <2>1. Verdict(task[u].code) # "unsupported"
    BY DEF Verdict
  <2>2. /\ count["processed"] \in Nat /\ count["unsupported"] \in Nat
        /\ "processed" \in Counters /\ "unsupported" \in Counters
    BY InvFacts DEF Counters
  <2> QED
    BY <1>1, <2>1, <2>2 DEF Counted
<1>5. ASSUME u \notin overlapped, Undisturbed(u)
      PROVE  /\ f.name = loaded /\ shown' = "IDLE"
             /\ count'["processed"] = f.next /\ Seen(u, f.next, count')
  <2>1. /\ task[u].name = loaded /\ shown = "IDLE"
        /\ count["processed"] = task[u].next - 1 /\ Seen(u, task[u].next, count)
    BY <1>1, <1>5 DEF Undisturbed
  <2>2. task[u].next \in Nat
    BY InvFacts
  <2> QED
    BY <1>1, <1>2, <1>4, <2>1, <2>2 DEF Seen
<1> QED
  BY <1>1, <1>2, <1>3, <1>5, GoOnAlone

(* The loop of a run that is alone. *)
LEMMA LoopAlone ==
    ASSUME Inv, WholeInv, NEW u \in Task, task[u].at \in RunAt,
           NEW name \in Scenario, NEW i \in Nat,
           NEW counters \in [Counters -> Nat], NEW text,
           u \notin overlapped =>
             /\ Undisturbed(u) /\ name = loaded /\ text = "IDLE"
             /\ counters["processed"] = i /\ Seen(u, i, counters),
           Loop(u, name, i, counters, text)
    PROVE  WholeInv' /\ WholeStep
<1>0. UNCHANGED <<loaded, window, overlapped>>
  BY DEF Loop, Aside
<1>1. u \in Active /\ task[u].token \in Nat
  BY InvFacts DEF Active, RunAt, Waiting, Requests
<1>2. i + 1 \in Nat /\ i + 1 - 1 = i
  OBVIOUS
<1>3. counters["processed"] \in Nat /\ counters["unsupported"] \in Nat
  BY DEF Counters
<1>4. Len(window) \in Nat
  BY DEF WholeInv, WindowTyped
<1>5. CASE SendFrame(u, name, i, counters, text)
  <2> DEFINE f == Suspended("frame", task[u].token, name, i + 1)
  <2>1. /\ f \in Function /\ f.at = "frame" /\ f.name = name /\ f.next = i + 1
        /\ f.reply = "none"
    <3>1. "frame" \in Waiting
      BY DEF Waiting, Requests
    <3> QED
      BY <1>1, <1>2, <3>1, SuspendedFields, SuspendedReply
  <2>2. /\ task' = [task EXCEPT ![u] = f] /\ count' = counters /\ shown' = text
        /\ Frames[name][i + 1] = "std"
    BY <1>5 DEF SendFrame, Becomes
  <2> HIDE DEF f
  <2>3. f.next - 1 = i
    BY <1>2, <2>1
  <2>4. u \notin overlapped =>
          /\ f.name = loaded /\ shown' = "IDLE" /\ Frames[loaded][f.next] = "std"
          /\ count'["processed"] = f.next - 1 /\ Seen(u, f.next - 1, count')
    BY <2>1, <2>2, <2>3
  <2> QED
    BY <1>0, <1>1, <2>1, <2>2, <2>4, GoOnAlone
<1>6. CASE SkipFrame(u, name, i, counters, text)
  <2> DEFINE f == Suspended("sleep", task[u].token, name, i + 1)
  <2>1. /\ f \in Function /\ f.at = "sleep" /\ f.name = name /\ f.next = i + 1
        /\ f.reply = "none"
    <3>1. "sleep" \in Waiting
      BY DEF Waiting
    <3> QED
      BY <1>1, <1>2, <3>1, SuspendedFields, SuspendedReply
  <2>2. /\ task' = [task EXCEPT ![u] = f] /\ shown' = text
        /\ count' = Counted(counters, {"processed", "unsupported"})
        /\ Frames[name][i + 1] = "ext"
    BY <1>6 DEF SkipFrame, Becomes
  <2> HIDE DEF f
  <2>3. /\ count'["processed"] = counters["processed"] + 1
        /\ count'["unsupported"] = counters["unsupported"] + 1
    BY <2>2 DEF Counted, Counters
  <2>4. u \notin overlapped => Seen(u, i + 1, count')
    <3>1. u \notin overlapped => Streamed(u, loaded, i + 1)
      BY <2>2, StreamedExt DEF Seen
    <3>2. u \notin overlapped => count'["unsupported"] + Len(window) = i + 1
      BY <1>3, <1>4, <2>3 DEF Seen
    <3> QED
      BY <3>1, <3>2 DEF Seen
  <2> QED
    BY <1>0, <1>1, <2>1, <2>2, <2>3, <2>4, GoOnAlone
<1>7. CASE Finish(u, name, i, counters) \/ Abandon(u, counters, text)
  <2>1. Becomes(u, Done)
    BY <1>7 DEF Finish, Abandon
  <2>2. AloneInv'
    BY <1>0, <1>1, <2>1, EndsAlone DEF WholeInv
  <2>3. ASSUME NEW t \in Task \ overlapped, task[t].at \in Waiting, task'[t].at = "done",
               shown' = "COMPLETE"
        PROVE  /\ Streamed(t, loaded, Len(Frames[loaded]))
               /\ count'["processed"] = Len(Frames[loaded])
               /\ count'["unsupported"] = Len(Frames[loaded]) - Len(window)
    <3>1. t = u
      BY <2>1, <2>3, InvFacts DEF Becomes, Waiting, Requests
    <3>2. ~Abandon(u, counters, text)
      BY <2>3, <3>1 DEF Abandon
    <3>3. i = Len(Frames[name]) /\ count' = counters
      BY <1>7, <3>2 DEF Finish
    <3>4. /\ name = loaded /\ counters["processed"] = i /\ Streamed(u, loaded, i)
          /\ counters["unsupported"] + Len(window) = i
      BY <2>3, <3>1 DEF Seen
    <3>5. counters["unsupported"] = i - Len(window)
      BY <1>3, <1>4, <3>4
    <3> QED
      BY <3>1, <3>3, <3>4, <3>5
  <2> QED
    BY <1>0, <2>2, <2>3 DEF WholeInv, WindowTyped, WholeStep
<1> QED
  BY <1>5, <1>6, <1>7 DEF Loop

(* A run begins its loop with nothing counted on a stream that was reset.  *)
LEMMA BeginAlone ==
    ASSUME Inv, WholeInv, NEW u \in Task, BeginLoop(u)
    PROVE  WholeInv' /\ WholeStep
<1>1. /\ task[u].at = "reset" /\ task[u].reply = "ok"
      /\ Loop(u, loaded, 0, NoCounts, "IDLE")
  BY DEF BeginLoop, Answered
<1>2. loaded \in Scenario /\ task[u].at \in RunAt
  BY <1>1, InvFacts DEF Inv, TypeInv, RunHasScenario, RunAt
<1>3. u \in Active
  BY <1>1 DEF Active, Waiting, Requests
<1>4. NoCounts["processed"] = 0 /\ NoCounts["unsupported"] = 0
  BY DEF NoCounts, Counters
<1>5. ASSUME u \notin overlapped
      PROVE  Undisturbed(u) /\ Seen(u, 0, NoCounts)
  <2>1. Undisturbed(u)
    BY <1>3, <1>5 DEF WholeInv, AloneInv
  <2>2. window = <<>>
    BY <1>1, <2>1 DEF Undisturbed
  <2> QED
    BY <1>2, <1>4, <2>1, <2>2, StreamedNone DEF Seen
<1> QED
  BY <1>1, <1>2, <1>4, <1>5, NoCountsAdd, LoopAlone

(* A run goes on with what it has counted. *)
LEMMA ContinueAlone ==
    ASSUME Inv, WholeInv, NEW u \in Task, ContinueLoop(u)
    PROVE  WholeInv' /\ WholeStep
<1>1. /\ task[u].at = "sleep"
      /\ Loop(u, task[u].name, task[u].next, count, shown)
  BY DEF ContinueLoop
<1>2. task[u].name \in Scenario /\ task[u].next \in Nat /\ count \in [Counters -> Nat]
  BY InvFacts
<1>3. task[u].at \in RunAt
  BY <1>1 DEF RunAt
<1>4. u \in Active
  BY <1>1 DEF Active, Waiting
<1>5. u \notin overlapped =>
        /\ Undisturbed(u) /\ task[u].name = loaded /\ shown = "IDLE"
        /\ count["processed"] = task[u].next /\ Seen(u, task[u].next, count)
  BY <1>1, <1>4 DEF WholeInv, AloneInv, Undisturbed
<1> QED
  BY <1>1, <1>2, <1>3, <1>5, LoopAlone

(* Before the first answer nothing has been streamed. *)
LEMMA WholeInit == Init => WholeInv
<1> SUFFICES ASSUME Init
             PROVE  WholeInv
  OBVIOUS
<1>1. WindowTyped
  BY DEF Init, WindowTyped
<1>2. task = [t \in Task |-> IF t = 0 THEN Suspended("health", 0, First, 0) ELSE Idle]
  BY DEF Init
<1>3. Suspended("health", 0, First, 0).at = "health" /\ Idle.at = "none"
  BY DEF Suspended, Idle
<1>4. 0 \in Task
  BY ClicksAssumption DEF Task
<1>5. Active = {0} /\ task[0].at = "health"
  BY <1>2, <1>3, <1>4 DEF Active, Waiting, Requests
<1>6. AloneInv
  BY <1>5 DEF AloneInv, Undisturbed
<1> QED
  BY <1>1, <1>6 DEF WholeInv

(* Every step keeps what is known of a function that is alone. *)
LEMMA WholeKeeps == Inv /\ WholeInv /\ [Next]_vars => WholeInv' /\ [WholeStep]_vars
<1> SUFFICES ASSUME Inv, WholeInv, [Next]_vars
             PROVE  WholeInv' /\ [WholeStep]_vars
  OBVIOUS
<1>1. CASE Clicks
  BY <1>1, ClicksAlone
<1>2. CASE HealthChecked
  BY <1>2, HealthAlone
<1>3. CASE \E t \in Task : Answer(t)
  BY <1>3, AnswerAlone
<1>4. CASE \E t \in Task : Resume(t)
  BY <1>4, OtherEndAlone, BeginAlone, ContinueAlone, FrameAlone DEF Resume
<1>5. CASE UNCHANGED vars
  BY <1>5 DEF vars, pageVars, WholeInv, WindowTyped, AloneInv, Undisturbed, Active, Seen,
              Streamed
<1> QED
  BY <1>1, <1>2, <1>3, <1>4, <1>5 DEF Next

(* A run that no other function of the page overlapped says COMPLETE only  *)
(* when the detector has seen the standard frames of its scenario, each    *)
(* once and in order, on a stream of its own, and each frame is counted.   *)
THEOREM CompleteRunIsWhole == Spec => CompleteIsWhole
<1>1. [WholeStep]_vars
        <=> [\A t \in Task \ overlapped :
               task[t].at \in Waiting /\ task'[t].at = "done" /\ shown' = "COMPLETE"
                 => /\ Streamed(t, loaded, Len(Frames[loaded]))
                    /\ count'["processed"] = Len(Frames[loaded])
                    /\ count'["unsupported"] = Len(Frames[loaded]) - Len(window)]_vars
  BY DEF WholeStep
<1> QED
  BY <1>1, WholeInit, WholeKeeps, Invariance, PTL DEF Spec, CompleteIsWhole

-----------------------------------------------------------------------------
(* What older runs leave in the current one.                               *)

(* The current run whose stream has been reset. *)
Begun(b) ==
    /\ Current(b)
    /\ task[b].at \in {"frame", "sleep"} \/ task[b].reply = "ok"

(* The frames a run may have in the stream. *)
Sent(t) ==
    IF task[t].at = "reset" THEN 0
    ELSE IF task[t].at = "frame" /\ task[t].reply = "none" THEN task[t].next - 1
    ELSE task[t].next

(* A function with a frame in the stream has none on the way, unless it is *)
(* the current run and the frame is a later one.                           *)
EntryOf(b, t, n) ==
    IF t = b THEN n <= Sent(b) ELSE ~(task[t].at = "frame" /\ task[t].reply = "none")

StreamOf(b) ==
    /\ \A k \in DOMAIN window : EntryOf(b, window[k][1], window[k][2])
    /\ \A j, k \in DOMAIN window :
         j < k /\ window[j][1] = window[k][1]
           => window[j][1] = b /\ window[j][2] < window[k][2]

Older(b) == {t \in 1 .. b - 1 : task[t].at # "frame"}

CountOf(b) ==
    task[b].at \in {"frame", "sleep"}
      => count["processed"] <= Through(b) + Cardinality(Older(b))

(* Every run was started by a click, and none after the current one. *)
NewestIsCurrent ==
    /\ \A t \in Task : task[t].at \in RunAt => t # 0
    /\ \A b, t \in Task : Current(b) /\ task[t].at \in RunAt => t <= b

StaleInv == NewestIsCurrent /\ \A b \in Task : Begun(b) => StreamOf(b) /\ CountOf(b)

(* What the stream consists of. *)
LEMMA Entries ==
    ASSUME WindowTyped
    PROVE  /\ Len(window) \in Nat /\ DOMAIN window = 1 .. Len(window)
           /\ \A k \in DOMAIN window : window[k][1] \in Task /\ window[k][2] \in Nat
<1>1. Len(window) \in Nat /\ DOMAIN window = 1 .. Len(window)
  BY DEF WindowTyped
<1>2. \A k \in DOMAIN window : window[k] \in Task \X Nat
  BY <1>1 DEF WindowTyped
<1> QED
  BY <1>1, <1>2

(* Functions older than the current run do not send again, so that those   *)
(* with no frame on the way only become more.                              *)
LEMMA OlderGrows ==
    ASSUME NEW b \in Task,
           \A t \in Task : t # b /\ task[t].at # "frame" => task'[t].at # "frame"
    PROVE  /\ Cardinality(Older(b)) \in Nat /\ Cardinality(Older(b)') \in Nat
           /\ Cardinality(Older(b)) <= Cardinality(Older(b)')
           /\ \A t \in 1 .. b - 1 : task[t].at = "frame" /\ task'[t].at # "frame"
                => Cardinality(Older(b)) + 1 <= Cardinality(Older(b)')
<1>1. /\ b \in Int /\ 1 \in Int /\ b - 1 \in Int
      /\ \A t \in 1 .. b - 1 : t \in Task /\ t # b
  BY ClicksAssumption DEF Task
<1>2. IsFiniteSet(1 .. b - 1)
  BY <1>1, FS_Interval
<1> DEFINE old == Older(b)
           new == Older(b)'
<1>3. old \in SUBSET (1 .. b - 1) /\ new \in SUBSET (1 .. b - 1) /\ old \subseteq new
  BY <1>1 DEF Older
<1>4. \A t \in 1 .. b - 1 : task[t].at = "frame" /\ task'[t].at # "frame"
        => t \notin old /\ t \in new
  BY DEF Older
<1> HIDE DEF old, new
<1>5. IsFiniteSet(old) /\ IsFiniteSet(new)
  BY <1>2, <1>3, FS_Subset
<1>6. /\ Cardinality(old) \in Nat /\ Cardinality(new) \in Nat
      /\ Cardinality(old) <= Cardinality(new)
  BY <1>3, <1>5, FS_CardinalityType, FS_Subset
<1>7. ASSUME NEW t \in 1 .. b - 1, task[t].at = "frame", task'[t].at # "frame"
      PROVE  Cardinality(old) + 1 <= Cardinality(new)
  <2>1. t \notin old /\ t \in new
    BY <1>4, <1>7
  <2>2. old \cup {t} \in SUBSET new
    BY <1>3, <2>1
  <2>3. Cardinality(old \cup {t}) = Cardinality(old) + 1
    BY <1>5, <2>1, FS_AddElement
  <2>4. Cardinality(old \cup {t}) <= Cardinality(new)
    BY <1>5, <2>2, FS_Subset
  <2> QED
    BY <2>3, <2>4
<1> QED
  BY <1>6, <1>7 DEF old, new

(* A function ends, whatever it was. *)
LEMMA EndStale ==
    ASSUME Inv, WindowTyped, StaleInv, NEW u \in Task, Becomes(u, Done),
           UNCHANGED <<runToken, window>>, count'["processed"] \in {0, count["processed"]},
           count["processed"] \in Nat
    PROVE  StaleInv'
<1>1. task'[u] = Done /\ \A w \in Task : w # u => task'[w] = task[w]
  BY InvFacts, DoneFields DEF Becomes
<1>2. ~(task'[u].at \in RunAt)
  BY <1>1, DoneFields DEF RunAt
<1>3. \A w \in Task : task'[w].at \in RunAt => w # u /\ task'[w] = task[w]
  BY <1>1, <1>2
<1>4. NewestIsCurrent'
  BY <1>3 DEF StaleInv, NewestIsCurrent, Current
<1>5. ASSUME NEW b \in Task, Begun(b)'
      PROVE  StreamOf(b)' /\ CountOf(b)'
  <2>1. b # u /\ task'[b] = task[b] /\ Begun(b)
    BY <1>3, <1>5 DEF Begun, Current
  <2>2. StreamOf(b) /\ CountOf(b)
    BY <2>1 DEF StaleInv
  <2>3. Sent(b)' = Sent(b) /\ Through(b)' = Through(b)
    BY <2>1 DEF Sent, Through
  <2>4. ASSUME NEW t \in Task, NEW n \in Nat, EntryOf(b, t, n)
        PROVE  EntryOf(b, t, n)'
    <3>1. CASE t = b
      BY <2>3, <2>4, <3>1 DEF EntryOf
    <3>2. CASE t # b /\ t # u
      <4>1. task'[t] = task[t]
        BY <1>1, <3>2
      <4> QED
        BY <2>4, <3>2, <4>1 DEF EntryOf
    <3>3. CASE t # b /\ t = u
      BY <1>2, <3>3 DEF EntryOf, RunAt
    <3> QED
      BY <3>1, <3>2, <3>3
  <2>5. StreamOf(b)'
    BY <2>2, <2>4, Entries DEF StreamOf
  <2>6. CountOf(b)'
    <3>1. \A t \in Task : t # b /\ task[t].at # "frame" => task'[t].at # "frame"
      BY <1>1, DoneFields
    <3>2. /\ Cardinality(Older(b)) \in Nat /\ Cardinality(Older(b)') \in Nat
          /\ Cardinality(Older(b)) <= Cardinality(Older(b)')
      BY <3>1, OlderGrows
    <3>3. task[b].at \in {"frame", "sleep"} => Through(b) \in Nat
      BY InvFacts, FramesAssumption DEF Through, Inv, TypeInv, TypeOK
    <3>4. task[b].at \in {"frame", "sleep"}
            => count'["processed"] <= Through(b) + Cardinality(Older(b)')
      BY <2>2, <3>2, <3>3 DEF CountOf
    <3> QED
      BY <2>1, <2>3, <3>4 DEF CountOf
  <2> QED
    BY <2>5, <2>6
<1> QED
  BY <1>4, <1>5 DEF StaleInv

(* The current run goes on to its next await. *)
LEMMA GoOnStale ==
    ASSUME Inv, WindowTyped, StaleInv, NEW u \in Task, Current(u), NEW f \in Function,
           task' = [task EXCEPT ![u] = f], f.at \in {"frame", "sleep"},
           f.token = task[u].token, f.reply = "none", UNCHANGED <<runToken, window>>,
           Begun(u), NEW i \in Nat, f.next = i + 1, Sent(u) = i,
           count'["processed"]
             <= (IF f.at = "frame" THEN i ELSE i + 1) + Cardinality(Older(u))
    PROVE  StaleInv'
<1>1. task'[u] = f /\ \A w \in Task : w # u => task'[w] = task[w]
  BY InvFacts
<1>2. \A w \in Task : /\ task'[w].at \in RunAt <=> task[w].at \in RunAt
                      /\ Current(w)' <=> Current(w)
  BY <1>1 DEF Current, RunAt
<1>3. NewestIsCurrent'
  BY <1>2 DEF StaleInv, NewestIsCurrent
<1>4. StreamOf(u)'
  <2>1. StreamOf(u)
    BY DEF StaleInv
  <2>2. Sent(u)' \in Nat /\ i <= Sent(u)'
    BY <1>1 DEF Sent
  <2>3. ASSUME NEW k \in DOMAIN window
        PROVE  EntryOf(u, window[k][1], window[k][2])'
    <3> DEFINE t == window[k][1]
               n == window[k][2]
    <3>1. EntryOf(u, t, n) /\ t \in Task /\ n \in Nat
      BY <2>1, Entries DEF StreamOf
    <3>2. CASE t = u
      <4>1. n <= i
        BY <3>1, <3>2 DEF EntryOf
      <4> QED
        BY <2>2, <3>1, <3>2, <4>1 DEF EntryOf
    <3>3. CASE t # u
      <4>1. task'[t] = task[t]
        BY <1>1, <3>1, <3>3
      <4> QED
        BY <3>1, <3>3, <4>1 DEF EntryOf
    <3> QED
      BY <3>2, <3>3
  <2> QED
    BY <2>1, <2>3 DEF StreamOf
<1>5. CountOf(u)'
  <2>1. Through(u)' = IF f.at = "frame" THEN i ELSE i + 1
    BY <1>1 DEF Through
  <2>2. Older(u)' = Older(u)
    <3>1. \A t \in 1 .. u - 1 : t \in Task /\ t # u
      BY ClicksAssumption DEF Task
    <3> QED
      BY <1>1, <3>1 DEF Older
  <2> QED
    BY <2>1, <2>2 DEF CountOf
<1>6. \A b \in Task : Begun(b)' => b = u
  BY <1>2 DEF Begun, Inv, TokenInv
<1> QED
  BY <1>3, <1>4, <1>5, <1>6 DEF StaleInv

(* The answer to a frame is counted, the current run's or an older one's.  *)
LEMMA FrameStale ==
    ASSUME Inv, WindowTyped, StaleInv, NEW u \in Task, FrameDone(u)
    PROVE  StaleInv'
<1> DEFINE f == Suspended("sleep", task[u].token, task[u].name, task[u].next)
<1>1. /\ task[u].at = "frame" /\ task[u].reply = "ok" /\ task' = [task EXCEPT ![u] = f]
      /\ count' = Counted(count, {"processed", Verdict(task[u].code)})
      /\ UNCHANGED <<runToken, window>>
  BY DEF FrameDone, Answered, Becomes, Aside
<1>2. /\ f \in Function /\ f.at = "sleep" /\ f.token = task[u].token
      /\ f.next = task[u].next /\ f.reply = "none"
  <2>1. "sleep" \in Waiting
    BY DEF Waiting
  <2>2. task[u].token \in Nat /\ task[u].name \in Scenario /\ task[u].next \in Nat
    BY InvFacts
  <2> QED
    BY <2>1, <2>2, SuspendedFields, SuspendedReply
<1> HIDE DEF f
<1>3. task'[u] = f /\ \A w \in Task : w # u => task'[w] = task[w]
  BY <1>1, InvFacts
<1>4. count'["processed"] = count["processed"] + 1 /\ count["processed"] \in Nat
  BY <1>1, InvFacts DEF Counted, Counters
<1>5. \A w \in Task : /\ task'[w].at \in RunAt <=> task[w].at \in RunAt
                      /\ Current(w)' <=> Current(w)
  BY <1>1, <1>2, <1>3 DEF Current, RunAt
<1>6. NewestIsCurrent'
  BY <1>5 DEF StaleInv, NewestIsCurrent
<1>7. ASSUME NEW b \in Task, Begun(b)'
      PROVE  StreamOf(b)' /\ CountOf(b)'
  <2>1. Begun(b)
    BY <1>1, <1>3, <1>5, <1>7 DEF Begun
  <2>2. StreamOf(b) /\ CountOf(b)
    BY <2>1 DEF StaleInv
  <2>3. Sent(b)' = Sent(b)
    BY <1>1, <1>2, <1>3 DEF Sent
  <2>4. ASSUME NEW t \in Task, NEW n \in Nat, EntryOf(b, t, n)
        PROVE  EntryOf(b, t, n)'
    <3>1. CASE t = b
      BY <2>3, <2>4, <3>1 DEF EntryOf
    <3>2. CASE t # b
      BY <1>2, <1>3, <2>4, <3>2 DEF EntryOf
    <3> QED
      BY <3>1, <3>2
  <2>5. StreamOf(b)'
    BY <1>1, <2>2, <2>4, Entries DEF StreamOf
  <2>6. /\ Cardinality(Older(b)) \in Nat /\ Cardinality(Older(b)') \in Nat
        /\ Cardinality(Older(b)) <= Cardinality(Older(b)')
        /\ \A t \in 1 .. b - 1 : task[t].at = "frame" /\ task'[t].at # "frame"
             => Cardinality(Older(b)) + 1 <= Cardinality(Older(b)')
    <3>1. \A t \in Task : t # b /\ task[t].at # "frame" => task'[t].at # "frame"
      BY <1>2, <1>3
    <3> QED
      BY <3>1, OlderGrows
  <2>7. task[b].next \in Nat
    BY InvFacts
  <2>8. CASE b = u
    <3>1. Through(b)' = task[u].next /\ Through(b) = task[u].next - 1
      BY <1>1, <1>2, <1>3, <2>8 DEF Through
    <3>2. count["processed"] <= Through(b) + Cardinality(Older(b))
      BY <1>1, <2>2, <2>8 DEF CountOf
    <3>3. count'["processed"] <= Through(b)' + Cardinality(Older(b)')
      BY <1>4, <2>6, <2>7, <2>8, <3>1, <3>2
    <3> QED
      BY <2>5, <3>3 DEF CountOf
  <2>9. CASE b # u
    <3>1. u \in 1 .. b - 1
      <4>1. u # 0 /\ u <= b
        BY <1>1, <2>1 DEF StaleInv, NewestIsCurrent, Begun, RunAt
      <4> QED
        BY <2>9, <4>1, ClicksAssumption DEF Task
    <3>2. Cardinality(Older(b)) + 1 <= Cardinality(Older(b)')
      BY <1>1, <1>2, <1>3, <2>6, <3>1
    <3>3. task'[b] = task[b] /\ Through(b)' = Through(b)
      BY <1>3, <2>9 DEF Through
    <3>4. ASSUME task[b].at \in {"frame", "sleep"}
          PROVE  count'["processed"] <= Through(b)' + Cardinality(Older(b)')
      <4>1. count["processed"] <= Through(b) + Cardinality(Older(b))
        BY <2>2, <3>4 DEF CountOf
      <4>2. Through(b) \in Int
        BY <2>7 DEF Through
      <4> QED
        BY <1>4, <2>6, <3>2, <3>3, <4>1, <4>2
    <3> QED
      BY <2>5, <3>3, <3>4 DEF CountOf
  <2> QED
    BY <2>8, <2>9
<1> QED
  BY <1>6, <1>7 DEF StaleInv

(* The loop of a run: the current one goes on, any other ends. *)
LEMMA LoopStale ==
    ASSUME Inv, WindowTyped, StaleInv, NEW u \in Task, task[u].at \in RunAt,
           NEW name \in Scenario, NEW i \in Nat, NEW counters \in [Counters -> Nat], NEW text,
           counters["processed"] \in {0, count["processed"]},
           Current(u) => /\ Begun(u) /\ Sent(u) = i
                         /\ counters["processed"] <= i + Cardinality(Older(u)),
           Loop(u, name, i, counters, text)
    PROVE  StaleInv'
<1>1. UNCHANGED <<runToken, window>>
  BY DEF Loop, Aside
<1>2. task[u].token \in Nat /\ i + 1 \in Nat
  BY InvFacts
<1>3. counters["processed"] \in Nat /\ count["processed"] \in Nat
  BY InvFacts DEF Counters
<1>4. ASSUME Live(u), NEW at \in {"frame", "sleep"},
             Becomes(u, Suspended(at, task[u].token, name, i + 1)),
             count'["processed"]
               = counters["processed"] + (IF at = "frame" THEN 0 ELSE 1)
      PROVE  StaleInv'
  <2> DEFINE f == Suspended(at, task[u].token, name, i + 1)
  <2>1. /\ f \in Function /\ f.at = at /\ f.token = task[u].token
        /\ f.next = i + 1 /\ f.reply = "none"
    <3>1. at \in Waiting
      BY DEF Waiting, Requests
    <3> QED
      BY <1>2, <3>1, SuspendedFields, SuspendedReply
  <2>2. task' = [task EXCEPT ![u] = f]
    BY <1>4 DEF Becomes
  <2> HIDE DEF f
  <2>3. Current(u)
    BY <1>4 DEF Live, Current
  <2>4. Cardinality(Older(u)) \in Nat
    <3>1. \A t \in Task : t # u /\ task[t].at # "frame" => task'[t].at # "frame"
      BY <2>2, InvFacts
    <3> QED
      BY <3>1, OlderGrows
  <2>5. count'["processed"]
          <= (IF f.at = "frame" THEN i ELSE i + 1) + Cardinality(Older(u))
    BY <1>3, <1>4, <2>1, <2>3, <2>4
  <2> QED
    BY <1>1, <1>4, <2>1, <2>2, <2>3, <2>5, GoOnStale
<1>5. CASE SendFrame(u, name, i, counters, text)
  BY <1>3, <1>4, <1>5 DEF SendFrame
<1>6. CASE SkipFrame(u, name, i, counters, text)
  <2>1. count'["processed"] = counters["processed"] + 1
    BY <1>6 DEF SkipFrame, Counted, Counters
  <2> QED
    BY <1>4, <1>6, <2>1 DEF SkipFrame
<1>7. CASE Finish(u, name, i, counters) \/ Abandon(u, counters, text)
  BY <1>1, <1>3, <1>7, EndStale DEF Finish, Abandon
<1> QED
  BY <1>5, <1>6, <1>7 DEF Loop

(* Whatever is resumed. *)
LEMMA ResumeStale ==
    ASSUME Inv, WindowTyped, StaleInv, NEW u \in Task, Resume(u)
    PROVE  StaleInv'
<1>1. count \in [Counters -> Nat] /\ count["processed"] \in Nat /\ NoCounts["processed"] = 0
  BY InvFacts DEF Counters, NoCounts
<1>2. CASE ScenarioLoaded(u) \/ LoadFailed(u) \/ FullReset(u) \/ RunFails(u)
  <2>1. /\ Becomes(u, Done) /\ UNCHANGED <<runToken, window>>
        /\ count' = NoCounts \/ count' = count
    BY <1>2 DEF ScenarioLoaded, LoadFailed, FullReset, RunFails, Aside
  <2> QED
    BY <1>1, <2>1, EndStale
<1>3. CASE BeginLoop(u)
  <2>1. /\ task[u].at = "reset" /\ task[u].reply = "ok"
        /\ Loop(u, loaded, 0, NoCounts, "IDLE")
    BY <1>3 DEF BeginLoop, Answered
  <2>2. loaded \in Scenario /\ task[u].at \in RunAt
    BY <2>1, InvFacts DEF Inv, TypeInv, RunHasScenario, RunAt
  <2>3. Current(u) => Begun(u) /\ Sent(u) = 0
    BY <2>1 DEF Begun, Sent
  <2>4. NoCounts["processed"] <= 0 + Cardinality(Older(u))
    <3>1. Cardinality(Older(u)) \in Nat
      <4>1. Older(u) \in SUBSET (1 .. u - 1) /\ IsFiniteSet(1 .. u - 1)
        <5>1. 1 \in Int /\ u - 1 \in Int
          BY DEF Task
        <5> QED
          BY <5>1, FS_Interval DEF Older
      <4> QED
        BY <4>1, FS_Subset, FS_CardinalityType
    <3> QED
      BY <1>1, <3>1
  <2> QED
    BY <1>1, <2>1, <2>2, <2>3, <2>4, NoCountsAdd, LoopStale
<1>4. CASE ContinueLoop(u)
  <2>1. /\ task[u].at = "sleep"
        /\ Loop(u, task[u].name, task[u].next, count, shown)
    BY <1>4 DEF ContinueLoop
  <2>2. task[u].name \in Scenario /\ task[u].next \in Nat /\ task[u].at \in RunAt
    BY <2>1, InvFacts DEF RunAt
  <2>3. Current(u) => Begun(u) /\ Sent(u) = task[u].next
    BY <2>1 DEF Begun, Sent
  <2>4. Current(u) => count["processed"] <= task[u].next + Cardinality(Older(u))
    BY <2>1, <2>3 DEF StaleInv, CountOf, Through
  <2> QED
    BY <1>1, <2>1, <2>2, <2>3, <2>4, LoopStale
<1>5. CASE FrameDone(u)
  BY <1>5, FrameStale
<1> QED
  BY <1>2, <1>3, <1>4, <1>5 DEF Resume

(* The back end answers: the current run's reset, a frame, or another.     *)
LEMMA AnswerStale ==
    ASSUME Inv, WindowTyped, StaleInv, NEW u \in Task, Answer(u)
    PROVE  StaleInv'
<1>1. PICK reply \in {"ok", "failed"}, code \in Codes :
        /\ task' = [task EXCEPT ![u].reply = reply, ![u].code = code]
        /\ \/ reply = "failed" /\ UNCHANGED window
           \/ task[u].at \in {"health", "load"} /\ UNCHANGED window
           \/ task[u].at \in {"reset", "clear"} /\ window' = <<>>
           \/ task[u].at = "frame" /\ window' = Append(window, <<u, task[u].next>>)
  BY DEF Answer
<1>0. task[u].reply = "none" /\ UNCHANGED <<runToken, count>>
  BY DEF Answer, pageVars
<1>2. /\ task'[u].reply = reply
      /\ \A w \in Task : w # u => task'[w] = task[w]
  <2>1. task \in [Task -> Function] /\ task[u] \in Function
    BY InvFacts
  <2>2. task'[u] = [task[u] EXCEPT !.reply = reply, !.code = code]
    BY <1>1, <2>1
  <2>3. [task[u] EXCEPT !.reply = reply, !.code = code].reply = reply
    BY <2>1 DEF Function
  <2>4. \A w \in Task : w # u => task'[w] = task[w]
    BY <1>1, <2>1
  <2> QED
    BY <2>2, <2>3, <2>4
<1>3. \A w \in Task : /\ task'[w].at = task[w].at /\ task'[w].token = task[w].token
                      /\ task'[w].next = task[w].next
  BY AnswerFields DEF Inv, TypeInv
<1>4. \A w \in Task : Current(w)' <=> Current(w)
  BY <1>0, <1>3 DEF Current
<1>5. NewestIsCurrent'
  BY <1>3, <1>4 DEF StaleInv, NewestIsCurrent
<1>6. ASSUME NEW b \in Task, Begun(b)'
      PROVE  StreamOf(b)' /\ CountOf(b)'
  <2>1. Current(b)
    BY <1>4, <1>6 DEF Begun
  <2>2. CountOf(b)'
    <3>1. Through(b)' = Through(b)
      BY <1>3 DEF Through
    <3>2. Older(b)' = Older(b)
      <4>1. \A t \in 1 .. b - 1 : t \in Task
        BY ClicksAssumption DEF Task
      <4> QED
        BY <1>3, <4>1 DEF Older
    <3>3. task[b].at \in {"frame", "sleep"} => CountOf(b)
      BY <2>1 DEF StaleInv, Begun
    <3> QED
      BY <1>0, <1>3, <3>1, <3>2, <3>3 DEF CountOf
  <2>3. CASE window' = <<>>
    BY <2>2, <2>3 DEF StreamOf
  <2>4. CASE window' # <<>>
    <3>1. Begun(b)
      <4>1. CASE b = u
        <5>1. task[u].at # "reset" \/ reply # "ok"
          BY <1>1, <2>4
        <5> QED
          BY <1>2, <1>3, <1>6, <2>1, <4>1, <5>1 DEF Begun, Current, RunAt
      <4>2. CASE b # u
        BY <1>2, <1>3, <1>6, <2>1, <4>2 DEF Begun
      <4> QED
        BY <4>1, <4>2
    <3>2. StreamOf(b)
      BY <3>1 DEF StaleInv
    <3>3. Sent(b) \in Int /\ Sent(b)' \in Int /\ Sent(b) <= Sent(b)'
      BY <1>2, <1>3, InvFacts DEF Sent
    <3>4. ASSUME NEW t \in Task, NEW n \in Nat, EntryOf(b, t, n)
          PROVE  EntryOf(b, t, n)'
      <4>1. CASE t = b
        BY <3>3, <3>4, <4>1 DEF EntryOf
      <4>2. CASE t # b
        BY <1>2, <1>3, <3>4, <4>2 DEF EntryOf
      <4> QED
        BY <4>1, <4>2
    <3>5. CASE window' = window
      BY <2>2, <3>2, <3>4, <3>5, Entries DEF StreamOf
    <3>6. CASE task[u].at = "frame" /\ window' = Append(window, <<u, task[u].next>>)
      <4> DEFINE new == Len(window) + 1
                 last == <<u, task[u].next>>
      <4>1. /\ Len(window) \in Nat /\ DOMAIN window = 1 .. Len(window)
            /\ DOMAIN window' = 1 .. new
            /\ \A k \in 1 .. Len(window) : window'[k] = window[k]
            /\ window'[new] = last
        BY <3>6 DEF WindowTyped
      <4>2. last[1] = u /\ last[2] = task[u].next /\ task[u].next \in Nat
        BY InvFacts
      <4> HIDE DEF last
      <4>3. \A k \in DOMAIN window' : k \in DOMAIN window \/ k = new
        BY <4>1
      <4>4. PICK n \in Nat : n = task[u].next /\ EntryOf(b, u, n)'
        <5>1. PICK n \in Nat : n = task[u].next
          BY <4>2
        <5>2. EntryOf(b, u, n)'
          BY <1>2, <1>3, <3>6, <5>1 DEF EntryOf, Sent
        <5> QED
          BY <5>1, <5>2
      <4>5. ASSUME NEW k \in DOMAIN window'
            PROVE  EntryOf(b, window[k][1], window[k][2])'
        <5>1. CASE k \in DOMAIN window
          <6>1. PICK t \in Task, m \in Nat : t = window[k][1] /\ m = window[k][2]
            BY <5>1, Entries
          <6>2. EntryOf(b, t, m)'
            BY <3>2, <3>4, <5>1, <6>1 DEF StreamOf
          <6>3. window'[k][1] = t /\ window'[k][2] = m
            BY <4>1, <5>1, <6>1
          <6> QED
            BY <6>2, <6>3 DEF EntryOf
        <5>2. CASE k = new
          BY <4>1, <4>2, <4>4, <5>2 DEF EntryOf
        <5> QED
          BY <4>3, <5>1, <5>2
      <4>6. ASSUME NEW j \in DOMAIN window', NEW k \in DOMAIN window', j < k,
                   window'[j][1] = window'[k][1]
            PROVE  window'[j][1] = b /\ window'[j][2] < window'[k][2]
        <5>1. j \in DOMAIN window
          BY <4>1, <4>6
        <5>2. CASE k \in DOMAIN window
          BY <3>2, <4>1, <4>6, <5>1, <5>2 DEF StreamOf
        <5>3. CASE k = new
          <6>1. window[j][1] = u /\ EntryOf(b, u, window[j][2]) /\ window[j][2] \in Nat
            BY <3>2, <4>1, <4>2, <4>6, <5>1, <5>3, Entries DEF StreamOf
          <6>2. u = b
            BY <1>0, <3>6, <6>1 DEF EntryOf
          <6>3. window[j][2] <= task[u].next - 1
            BY <1>0, <3>6, <6>1, <6>2 DEF EntryOf, Sent
          <6>4. window'[j] = window[j] /\ window'[k][2] = task[u].next
            BY <4>1, <4>2, <5>1, <5>3
          <6> QED
            BY <4>2, <6>1, <6>2, <6>3, <6>4
        <5> QED
          BY <4>3, <5>2, <5>3
      <4> QED
        BY <2>2, <4>5, <4>6 DEF StreamOf
    <3> QED
      BY <1>1, <2>4, <3>5, <3>6
  <2> QED
    BY <2>3, <2>4
<1> QED
  BY <1>5, <1>6 DEF StaleInv

(* A click stops the page, or starts the newest run. *)
LEMMA ClicksStale ==
    ASSUME Inv, StaleInv, Clicks
    PROVE  StaleInv'
<1>1. /\ running \in BOOLEAN /\ runToken \in Nat /\ task \in [Task -> Function]
      /\ \A u \in Task : task[u].token \in Nat
  BY InvFacts
<1>2. PICK f \in Function :
        /\ Click(f) /\ runToken' = runToken + 1
        /\ f.at \in RunAt => f.at = "reset" /\ f.reply = "none"
  <2>1. CASE ClickStop
    BY <2>1, DoneFields DEF ClickStop, stopDemo, RunAt
  <2>2. CASE ClickReset
    <3>1. "clear" \in Waiting
      BY DEF Waiting, Requests
    <3>2. /\ Suspended("clear", 0, First, 0) \in Function
          /\ Suspended("clear", 0, First, 0).at = "clear"
      BY <3>1, SuspendedFields, ScenarioAssumption
    <3> QED
      BY <2>2, <3>2 DEF ClickReset, stopDemo, RunAt
  <2>3. CASE \E name \in Scenario : ClickScenario(name)
    <3>0. PICK name \in Scenario : ClickScenario(name)
      BY <2>3
    <3>1. "load" \in Waiting
      BY DEF Waiting, Requests
    <3>2. /\ Suspended("load", 0, name, 0) \in Function
          /\ Suspended("load", 0, name, 0).at = "load"
      BY <3>1, SuspendedFields
    <3> QED
      BY <3>0, <3>2 DEF ClickScenario, stopDemo, RunAt
  <2>4. CASE ClickRun
    <3>1. "reset" \in Waiting /\ runToken + 1 \in Nat
      BY <1>1 DEF Waiting, Requests
    <3>2. /\ Suspended("reset", runToken + 1, First, 0) \in Function
          /\ Suspended("reset", runToken + 1, First, 0).at = "reset"
          /\ Suspended("reset", runToken + 1, First, 0).reply = "none"
      BY <3>1, SuspendedFields, SuspendedReply, ScenarioAssumption
    <3> QED
      BY <2>4, <3>2 DEF ClickRun
  <2> QED
    BY <2>1, <2>2, <2>3, <2>4 DEF Clicks
<1>3. /\ clicks + 1 \in Task /\ task' = [task EXCEPT ![clicks + 1] = f]
  BY <1>2, ClickPlace DEF Inv
<1>4. /\ task'[clicks + 1] = f
      /\ \A w \in Task : w # clicks + 1 => task'[w] = task[w]
  BY <1>1, <1>3
<1>5. \A w \in Task : Current(w)' => w = clicks + 1
  <2>1. \A w \in Task : task[w].at \in RunAt => task[w].token <= runToken
    BY DEF Inv, TokenInv
  <2> QED
    BY <1>1, <1>2, <1>4, <2>1 DEF Current
<1>6. NewestIsCurrent'
  <2>1. \A w \in Task : w <= clicks + 1 \/ ~(task[w].at \in RunAt)
    <3>1. \A w \in Task : w > clicks => ~(task[w].at \in RunAt)
      BY DEF Inv, TypeInv, TypeOK, RunAt
    <3>2. clicks \in Nat /\ \A w \in Task : w \in Nat
      BY InvFacts, ClicksAssumption DEF Task
    <3> QED
      BY <3>1, <3>2
  <2>2. clicks + 1 # 0 /\ clicks + 1 <= clicks + 1
    BY InvFacts, ClicksAssumption
  <2> QED
    BY <1>4, <1>5, <2>1, <2>2 DEF StaleInv, NewestIsCurrent
<1>7. \A b \in Task : ~Begun(b)'
  BY <1>2, <1>4, <1>5 DEF Begun, Current, RunAt
<1> QED
  BY <1>6, <1>7 DEF StaleInv

(* The initialisation of the page ends every run. *)
LEMMA HealthStale ==
    ASSUME Inv, StaleInv, HealthChecked
    PROVE  StaleInv'
<1> DEFINE f == Suspended("load", 0, First, 0)
<1>1. f \in Function /\ f.at = "load"
  BY SuspendedFields, ScenarioAssumption DEF Waiting, Requests
<1>2. task' = [task EXCEPT ![0] = f] /\ runToken' = runToken + 1
  BY DEF HealthChecked, Becomes, stopDemo
<1> HIDE DEF f
<1>3. \A w \in Task : task'[w].at \in RunAt => task'[w] = task[w]
  BY <1>1, <1>2, InvFacts DEF RunAt
<1>4. \A w \in Task : ~Current(w)'
  <2>1. \A w \in Task : task[w].at \in RunAt => task[w].token <= runToken
    BY DEF Inv, TokenInv
  <2>2. runToken \in Nat /\ \A w \in Task : task[w].token \in Nat
    BY InvFacts
  <2> QED
    BY <1>2, <1>3, <2>1, <2>2 DEF Current
<1> QED
  BY <1>3, <1>4 DEF StaleInv, NewestIsCurrent, Begun

(* Whatever answers and clicks come, an older function leaves at most one  *)
(* frame in the stream of the current run and one count on its counters.   *)
THEOREM StaleRunsStainOnce == Spec => []StaleAtMostOnce
<1>1. Init => StaleInv
  <2> SUFFICES ASSUME Init
               PROVE  StaleInv
    OBVIOUS
  <2>1. task = [t \in Task |-> IF t = 0 THEN Suspended("health", 0, First, 0) ELSE Idle]
    BY DEF Init
  <2>2. Suspended("health", 0, First, 0).at = "health" /\ Idle.at = "none"
    BY DEF Suspended, Idle
  <2>3. \A t \in Task : ~(task[t].at \in RunAt)
    BY <2>1, <2>2 DEF RunAt
  <2> QED
    BY <2>3 DEF StaleInv, NewestIsCurrent, Begun, Current
<1>2. Inv /\ WholeInv /\ StaleInv /\ [Next]_vars => StaleInv'
  <2> SUFFICES ASSUME Inv, WholeInv, StaleInv, [Next]_vars
               PROVE  StaleInv'
    OBVIOUS
  <2>0. WindowTyped
    BY DEF WholeInv
  <2>1. CASE Clicks
    BY <2>1, ClicksStale
  <2>2. CASE HealthChecked
    BY <2>2, HealthStale
  <2>3. CASE \E t \in Task : Answer(t) \/ Resume(t)
    BY <2>0, <2>3, AnswerStale, ResumeStale
  <2>4. CASE UNCHANGED vars
    <3>1. UNCHANGED <<task, runToken, window, count>>
      BY <2>4 DEF vars, pageVars
    <3>2. NewestIsCurrent'
      BY <3>1 DEF StaleInv, NewestIsCurrent, Current
    <3>3. \A b \in Task : Begun(b)' => Begun(b)
      BY <3>1 DEF Begun, Current
    <3>4. \A b \in Task : StreamOf(b) => StreamOf(b)'
      BY <3>1 DEF StreamOf, EntryOf, Sent
    <3>5. \A b \in Task : CountOf(b) => CountOf(b)'
      BY <3>1 DEF CountOf, Through, Older
    <3> QED
      BY <3>2, <3>3, <3>4, <3>5 DEF StaleInv
  <2> QED
    BY <2>1, <2>2, <2>3, <2>4 DEF Next
<1>3. StaleInv => StaleAtMostOnce
  BY DEF StaleInv, Begun, Current, RunAt, StreamOf, CountOf, Older, StaleAtMostOnce
<1> QED
  BY <1>1, <1>2, <1>3, WholeInit, WholeKeeps, Invariance, PTL DEF Spec
=============================================================================
