------------------------------ MODULE Dashboard ------------------------------
(***************************************************************************)
(* The replay dashboard: the page src/dashboard/static/app.js and the      *)
(* Flask back end src/dashboard/app.py with its one shared feature stream. *)
(*                                                                         *)
(* Every click starts an asynchronous function of the page, which runs     *)
(* without interruption up to its next await.  Several of them may be      *)
(* suspended at once, one waiting for each answer or timer, and they share *)
(* the page's state object; the threaded back end answers requests in any  *)
(* order.  Function 0 is the initialisation of the page, function n was    *)
(* started by click n.                                                     *)
(***************************************************************************)
EXTENDS Naturals, Sequences, FiniteSets

CONSTANTS
    Scenario,    \* names of the scenarios of the demo bundle
    First,       \* the scenario the page loads by itself
    Frames,      \* the frames of a scenario, "std" or "ext" by their ID
    Codes,       \* verdicts of hybrid_predict
    MaxClicks    \* bound: clicks of the user

ASSUME ScenarioAssumption == First \in Scenario /\ "null" \notin Scenario
ASSUME FramesAssumption == Frames \in [Scenario -> Seq({"std", "ext"})]
ASSUME CodesAssumption == Codes \subseteq 0 .. 5
ASSUME ClicksAssumption == MaxClicks \in Nat

VARIABLES
    running,      \* state.running
    runToken,     \* state.runToken
    loaded,       \* state.scenarioData, or "null"
    count,        \* state.processed, normal, known, unknown, unsupported
    shown,        \* the text of trafficState
    task,         \* the asynchronous functions of the page
    clicks,       \* clicks so far; bounds the model
    window,       \* frames the back end has processed since its last reset
    overlapped    \* functions that were not alone; only properties read it

pageVars == <<running, runToken, loaded, count, shown>>
vars == <<pageVars, task, clicks, window, overlapped>>

Counters == {"processed", "normal", "known", "unknown", "unsupported"}
NoCounts == [c \in Counters |-> 0]

Task == 0 .. MaxClicks

Requests == {"health", "load", "reset", "frame", "clear"}
Waiting == Requests \cup {"sleep"}

(* at: the await the function is suspended in; name: its scenario; next:   *)
(* the frames it has gone through; reply and code: the answer, once there. *)
Suspended(at, token, name, next) ==
    [at |-> at, token |-> token, name |-> name, next |-> next,
     reply |-> "none", code |-> 0]
Idle == Suspended("none", 0, First, 0)
Done == Suspended("done", 0, First, 0)

Function == [at : Waiting \cup {"none", "done"}, token : Nat, name : Scenario,
             next : Nat, reply : {"none", "ok", "failed"}, code : 0 .. 5]

Active == {t \in Task : task[t].at \in Waiting}

-----------------------------------------------------------------------------
Init ==
    /\ running = FALSE /\ runToken = 0 /\ loaded = "null"
    /\ count = NoCounts /\ shown = "IDLE"
    /\ task = [t \in Task |-> IF t = 0 THEN Suspended("health", 0, First, 0) ELSE Idle]
    /\ clicks = 0 /\ window = <<>> /\ overlapped = {}

-----------------------------------------------------------------------------
(* The back end.                                                           *)

(* A request may fail before or after it took effect: the network, or two  *)
(* threads inside the extractor at once.                                   *)
Answer(t) ==
    /\ task[t].at \in Requests
    /\ task[t].reply = "none"
    /\ \E reply \in {"ok", "failed"}, code \in Codes :
         /\ (task[t].at = "frame" /\ reply = "ok") \/ code = 0
         /\ task' = [task EXCEPT ![t].reply = reply, ![t].code = code]
         /\ \/ reply = "failed" /\ UNCHANGED window
            \/ task[t].at \in {"health", "load"} /\ UNCHANGED window
            \/ task[t].at \in {"reset", "clear"} /\ window' = <<>>
            \/ task[t].at = "frame" /\ window' = Append(window, <<t, task[t].next>>)
    /\ UNCHANGED <<pageVars, clicks, overlapped>>

-----------------------------------------------------------------------------
(* The clicks.                                                             *)

stopDemo ==
    /\ running' = FALSE
    /\ runToken' = runToken + 1
    /\ shown' = "STOPPED"

Click(function) ==
    /\ clicks < MaxClicks
    /\ clicks' = clicks + 1
    /\ task' = [task EXCEPT ![clicks + 1] = function]
    /\ overlapped' = IF Active = {} THEN overlapped
                     ELSE overlapped \cup Active \cup {clicks + 1}
    /\ UNCHANGED window

ClickStop ==
    /\ Click(Done)
    /\ stopDemo
    /\ UNCHANGED <<loaded, count>>

ClickReset ==
    /\ Click(Suspended("clear", 0, First, 0))
    /\ stopDemo
    /\ UNCHANGED <<loaded, count>>

ClickScenario(name) ==
    /\ Click(Suspended("load", 0, name, 0))
    /\ stopDemo
    /\ UNCHANGED <<loaded, count>>

(* A click on RUN while a run is on, or with nothing loaded, does nothing. *)
ClickRun ==
    /\ ~running
    /\ loaded # "null"
    /\ Click(Suspended("reset", runToken + 1, First, 0))
    /\ running' = TRUE
    /\ runToken' = runToken + 1
    /\ shown' = "STREAMING"
    /\ UNCHANGED <<loaded, count>>

-----------------------------------------------------------------------------
(* The functions of the page, from one await to the next.                  *)

Answered(t, at, reply) == task[t].at = at /\ task[t].reply = reply
Becomes(t, function) == task' = [task EXCEPT ![t] = function]
Aside == UNCHANGED <<clicks, window, overlapped>>

(* init awaits checkHealth, which catches its errors, and loads a scenario. *)
HealthChecked ==
    /\ task[0].at = "health" /\ task[0].reply # "none"
    /\ Becomes(0, Suspended("load", 0, First, 0))
    /\ stopDemo
    /\ Aside /\ UNCHANGED <<loaded, count>>

ScenarioLoaded(t) ==
    /\ Answered(t, "load", "ok")
    /\ Becomes(t, Done)
    /\ loaded' = task[t].name
    /\ count' = NoCounts
    /\ shown' = "IDLE"
    /\ Aside /\ UNCHANGED <<running, runToken>>

LoadFailed(t) ==
    /\ Answered(t, "load", "failed")
    /\ Becomes(t, Done)
    /\ shown' = "LOAD ERROR"
    /\ Aside /\ UNCHANGED <<running, runToken, loaded, count>>

(* fullReset ends the same way whether the back end was reset or not. *)
FullReset(t) ==
    /\ task[t].at = "clear" /\ task[t].reply # "none"
    /\ Becomes(t, Done)
    /\ count' = NoCounts
    /\ shown' = "IDLE"
    /\ Aside /\ UNCHANGED <<running, runToken, loaded>>

-----------------------------------------------------------------------------
(* A run: the loop over the frames of the scenario.                        *)

(* Fault: the loop looks at the flag only, which a newer run has set again. *)
LiveByFlag(t) == running

Live(t) == running /\ task[t].token = runToken

Counted(counters, kinds) ==
    [c \in Counters |-> counters[c] + (IF c \in kinds THEN 1 ELSE 0)]

Verdict(code) == IF code = 0 THEN "normal" ELSE IF code = 5 THEN "unknown" ELSE "known"

(* The loop from frame i + 1 of scenario name to the next await; the       *)
(* counters and the text are those at its start.                           *)
SendFrame(t, name, i, counters, text) ==
    /\ Live(t) /\ i < Len(Frames[name]) /\ Frames[name][i + 1] = "std"
    /\ Becomes(t, Suspended("frame", task[t].token, name, i + 1))
    /\ count' = counters /\ shown' = text
    /\ UNCHANGED running

(* Fault: a frame that is not supported is not counted as processed. *)
SkipFrameUncounted(t, name, i, counters, text) ==
    /\ Live(t) /\ i < Len(Frames[name]) /\ Frames[name][i + 1] = "ext"
    /\ Becomes(t, Suspended("sleep", task[t].token, name, i + 1))
    /\ count' = Counted(counters, {"unsupported"}) /\ shown' = text
    /\ UNCHANGED running

SkipFrame(t, name, i, counters, text) ==
    /\ Live(t) /\ i < Len(Frames[name]) /\ Frames[name][i + 1] = "ext"
    /\ Becomes(t, Suspended("sleep", task[t].token, name, i + 1))
    /\ count' = Counted(counters, {"processed", "unsupported"}) /\ shown' = text
    /\ UNCHANGED running

Finish(t, name, i, counters) ==
    /\ Live(t) /\ i = Len(Frames[name])
    /\ Becomes(t, Done)
    /\ running' = FALSE
    /\ count' = counters /\ shown' = "COMPLETE"

Abandon(t, counters, text) ==
    /\ ~Live(t)
    /\ Becomes(t, Done)
    /\ running' = (running /\ task[t].token # runToken)
    /\ count' = counters /\ shown' = text

Loop(t, name, i, counters, text) ==
    /\ \/ SendFrame(t, name, i, counters, text)
       \/ SkipFrame(t, name, i, counters, text)
       \/ Finish(t, name, i, counters)
       \/ Abandon(t, counters, text)
    /\ Aside /\ UNCHANGED <<runToken, loaded>>

(* Fault: the counters of the run before are kept. *)
BeginLoopCounting(t) ==
    /\ Answered(t, "reset", "ok")
    /\ Loop(t, loaded, 0, count, "IDLE")

(* Only now does the run read which scenario is loaded, and resetVisuals   *)
(* has just replaced "STREAMING" by "IDLE".                                *)
BeginLoop(t) ==
    /\ Answered(t, "reset", "ok")
    /\ Loop(t, loaded, 0, NoCounts, "IDLE")

ContinueLoop(t) ==
    /\ task[t].at = "sleep"
    /\ Loop(t, task[t].name, task[t].next, count, shown)

(* The answer is counted whether or not its run is still the current one.  *)
FrameDone(t) ==
    /\ Answered(t, "frame", "ok")
    /\ Becomes(t, Suspended("sleep", task[t].token, task[t].name, task[t].next))
    /\ count' = Counted(count, {"processed", Verdict(task[t].code)})
    /\ Aside /\ UNCHANGED <<running, runToken, loaded, shown>>

(* Fault: without the finally block a failed run stays on. *)
RunFailsOn(t) ==
    /\ task[t].at \in {"reset", "frame"} /\ task[t].reply = "failed"
    /\ Becomes(t, Done)
    /\ shown' = "ERROR"
    /\ Aside /\ UNCHANGED <<running, runToken, loaded, count>>

(* Fault: the finally block does not look at the token. *)
RunFailsAlways(t) ==
    /\ task[t].at \in {"reset", "frame"} /\ task[t].reply = "failed"
    /\ Becomes(t, Done)
    /\ shown' = "ERROR"
    /\ running' = FALSE
    /\ Aside /\ UNCHANGED <<runToken, loaded, count>>

RunFails(t) ==
    /\ task[t].at \in {"reset", "frame"} /\ task[t].reply = "failed"
    /\ Becomes(t, Done)
    /\ shown' = "ERROR"
    /\ running' = (running /\ task[t].token # runToken)
    /\ Aside /\ UNCHANGED <<runToken, loaded, count>>

-----------------------------------------------------------------------------
Clicks == ClickStop \/ ClickReset \/ ClickRun \/ \E name \in Scenario : ClickScenario(name)

Resume(t) ==
    \/ ScenarioLoaded(t) \/ LoadFailed(t) \/ FullReset(t)
    \/ BeginLoop(t) \/ ContinueLoop(t) \/ FrameDone(t) \/ RunFails(t)

Next == Clicks \/ HealthChecked \/ \E t \in Task : Answer(t) \/ Resume(t)

Spec == Init /\ [][Next]_vars

(* Every request is answered and every suspended function is resumed; the  *)
(* user need not click.                                                    *)
FairSpec ==
    /\ Spec
    /\ WF_vars(HealthChecked)
    /\ \A t \in Task : WF_vars(Answer(t)) /\ WF_vars(Resume(t))

-----------------------------------------------------------------------------
(* The page's state keeps its shape, and no function of the page goes past *)
(* the last frame of its scenario.                                         *)
TypeOK ==
    /\ running \in BOOLEAN /\ runToken \in Nat
    /\ loaded \in Scenario \cup {"null"}
    /\ count \in [Counters -> Nat]
    /\ clicks \in 0 .. MaxClicks
    /\ task \in [Task -> Function]
    /\ \A t \in Task :
         /\ t > clicks => task[t].at = "none"
         /\ task[t].at \in {"frame", "sleep"}
              => task[t].next \in 1 .. Len(Frames[task[t].name])

(* Whatever answers arrive, in whatever order, also those of runs that     *)
(* were stopped, every frame the page says it processed is in exactly one  *)
(* of the other four counters.                                             *)
CountersAdd ==
    count["processed"] =
        count["normal"] + count["known"] + count["unknown"] + count["unsupported"]

Runs == {t \in Task : task[t].at \in {"reset", "frame", "sleep"}}

(* While the page says a run is on, which disables the RUN button, exactly *)
(* one function carries the current token and will switch it off; while it *)
(* says none is on, no suspended function carries that token, so no old    *)
(* run comes back to life.                                                 *)
RunButtonNeverStuck ==
    LET current == {t \in Runs : task[t].token = runToken}
    IN  IF running THEN \E t \in Runs : current = {t} ELSE current = {}

(* The frames a run has behind it: sent and counted, or skipped. *)
Through(t) == IF task[t].at = "frame" THEN task[t].next - 1 ELSE task[t].next

(* What runs before it leave behind, whose last frame may be answered      *)
(* after the current run has begun, stains that run at most once each: the *)
(* stream the detector works on has at most one frame of every other       *)
(* function and the run's own in order, and the page has counted at most   *)
(* one frame for each older function besides the run's own.                *)
StaleAtMostOnce ==
    \A b \in Task : running /\ task[b].token = runToken /\ task[b].at \in {"frame", "sleep"} =>
        /\ \A j, k \in DOMAIN window :
             j < k /\ window[j][1] = window[k][1]
               => window[j][1] = b /\ window[j][2] < window[k][2]
        /\ count["processed"]
             <= Through(b) + Cardinality({t \in 1 .. b - 1 : task[t].at # "frame"})

(* The frames with a standard ID among the first n of a scenario. *)
StdFrames(name, n) == {i \in 1 .. n : Frames[name][i] = "std"}

(* The detector's stream holds these frames of run t, each once and in     *)
(* order, and nothing else.                                                *)
Streamed(t, name, n) ==
    /\ {window[k] : k \in DOMAIN window} = {t} \X StdFrames(name, n)
    /\ \A j, k \in DOMAIN window : j < k => window[j][2] < window[k][2]

(* A run that no other function of the page overlapped says COMPLETE only  *)
(* when the detector has seen all standard frames of the loaded scenario,  *)
(* each once, in order, on a stream that held nothing else, and the page   *)
(* counted each frame.                                                     *)
CompleteIsWhole ==
    [][\A t \in Task \ overlapped :
         task[t].at \in Waiting /\ task'[t].at = "done" /\ shown' = "COMPLETE"
           => /\ Streamed(t, loaded, Len(Frames[loaded]))
              /\ count'["processed"] = Len(Frames[loaded])
              /\ count'["unsupported"] = Len(Frames[loaded]) - Len(window)]_vars

(* A run ends by itself, by a click or by an error, and then RUN works     *)
(* again.                                                                  *)
EveryRunEnds == running ~> ~running

=============================================================================
