---------------------------- MODULE ReplayService ----------------------------
(***************************************************************************)
(* The simulation service, src/docker_sim/service.py, replaying a data     *)
(* set: the thread of main, the replay thread and the UART readers of the  *)
(* two simulated ECUs, which share PENDING under the condition variable    *)
(* MATCH, the event STOP and the event log.                                *)
(*                                                                         *)
(* External are the CAN bus and ECU B, which may lose a frame, the UART,   *)
(* which may garble a line, the signal that stops the service, and time:   *)
(* a wait may expire whenever it is waiting.  A row of the data set is     *)
(* known by its number; two rows may have the same content.                *)
(***************************************************************************)
EXTENDS Naturals, Sequences

CONSTANTS
    Content,   \* ID and data of the rows, a sequence
    Modes,     \* the operating states ECU A goes through
    MaxLines   \* bound: unread lines up to which application frames come

ASSUME ContentAssumption == Content \in Seq({Content[i] : i \in DOMAIN Content})
ASSUME ModesAssumption == Modes # {}
ASSUME LinesAssumption == MaxLines \in Nat

VARIABLES
    bus,       \* rows sent that ECU B has not processed
    uart,      \* rows ECU B has recorded that its reader has not read, and
               \* 0 for the frames ECU A sends it
    STOP,      \* the event
    signalled, \* SIGTERM or SIGINT has come; only properties and the bound use it
    ready,     \* READER_READY, by ECU
    gate,      \* STARTED and GATE: ECUs started, modes confirmed, errors
    MATCH,     \* the holder of the lock of MATCH
    PENDING,   \* the row submitted and not decided, 0 when None
    REPLAY_ABORT,
    log,       \* the events of the log about the replay
    main,      \* where main is
    outcome,   \* how it will end: "ok" or "failed"
    replay,    \* where the replay thread is
    row,       \* its current row
    expired    \* its wait has come to the end of its ten seconds

envVars == <<bus, uart, signalled>>
sharedVars == <<STOP, ready, gate, MATCH, PENDING, REPLAY_ABORT, log>>
mainVars == <<main, outcome>>
replayVars == <<replay, row, expired>>
vars == <<envVars, sharedVars, mainVars, replayVars>>

Row == DOMAIN Content
Ecu == {"A", "B"}

Event(kind, r, of) == [kind |-> kind, row |-> r, of |-> of]
emit(kind) == log' = Append(log, Event(kind, 0, 0))

Woken == IF replay = "waiting" THEN "woken" ELSE replay

-----------------------------------------------------------------------------
Init ==
    /\ bus = <<>> /\ uart = <<>> /\ signalled = FALSE
    /\ STOP = FALSE /\ ready = [e \in Ecu |-> TRUE]
    /\ gate = [started |-> {}, modes |-> {}, errors |-> FALSE]
    /\ MATCH = "free" /\ PENDING = 0 /\ REPLAY_ABORT = FALSE /\ log = <<>>
    /\ main = "loop" /\ outcome = "ok"
    /\ replay = "none" /\ row = 1 /\ expired = FALSE

-----------------------------------------------------------------------------
(* The world outside.                                                      *)

EcuRecords ==
    /\ bus # <<>>
    /\ bus' = Tail(bus) /\ uart' = Append(uart, Head(bus))
    /\ UNCHANGED <<signalled, sharedVars, mainVars, replayVars>>

EcuLoses ==
    /\ bus # <<>>
    /\ bus' = Tail(bus)
    /\ UNCHANGED <<uart, signalled, sharedVars, mainVars, replayVars>>

(* The identifiers of the application never occur in a data set: main has *)
(* refused such a data set before the start.                              *)
ApplicationFrame ==
    /\ Len(uart) < MaxLines
    /\ uart' = Append(uart, 0)
    /\ UNCHANGED <<bus, signalled, sharedVars, mainVars, replayVars>>

LineGarbled ==
    /\ uart # <<>>
    /\ uart' = Tail(uart)
    /\ UNCHANGED <<bus, signalled, sharedVars, mainVars, replayVars>>

Signal ==
    /\ ~signalled
    /\ signalled' = TRUE
    /\ STOP' = TRUE
    /\ UNCHANGED <<bus, uart, ready, gate, MATCH, PENDING, REPLAY_ABORT, log, mainVars, replayVars>>

-----------------------------------------------------------------------------
(* uart_reader.  A line of status changes the gate; a record of ECU B is   *)
(* compared with PENDING, logged and acknowledged in one critical section. *)

ReadStatus ==
    /\ \E e \in Ecu :
         /\ ready[e]
         /\ \/ gate' = [gate EXCEPT !.started = @ \cup {e}]
            \/ gate' = [gate EXCEPT !.errors = TRUE]
            \/ e = "A" /\ \E m \in Modes : gate' = [gate EXCEPT !.modes = @ \cup {m}]
    /\ UNCHANGED <<envVars, STOP, ready, MATCH, PENDING, REPLAY_ABORT, log, mainVars, replayVars>>

LineRead ==
    /\ uart # <<>> /\ ready["B"] /\ MATCH = "free" /\ main # "exited"
    /\ uart' = Tail(uart)
    /\ UNCHANGED <<bus, signalled, STOP, ready, gate, MATCH, REPLAY_ABORT, mainVars, row, expired>>

Matches(r) == r # 0 /\ PENDING # 0 /\ Content[r] = Content[PENDING]

ReadDecision ==
    /\ LineRead
    /\ Matches(Head(uart))
    /\ log' = Append(log, Event("decision", PENDING, Head(uart)))
    /\ PENDING' = 0
    /\ replay' = Woken

ReadOther ==
    /\ LineRead
    /\ ~Matches(Head(uart))
    /\ UNCHANGED <<log, PENDING, replay>>

ReaderEnds ==
    /\ \E e \in Ecu : ready[e] /\ ready' = [ready EXCEPT ![e] = FALSE]
    /\ UNCHANGED <<envVars, STOP, gate, MATCH, PENDING, REPLAY_ABORT, log, mainVars, replayVars>>

-----------------------------------------------------------------------------
(* replay_dataset.                                                         *)

(* raise: the handler notes the abort, and leaving the with block frees    *)
(* MATCH.  PENDING stays.                                                  *)
ReplayRaises ==
    /\ replay' = "done"
    /\ REPLAY_ABORT' = TRUE
    /\ emit("replay_failed")
    /\ MATCH' = IF MATCH = "replay" THEN "free" ELSE MATCH
    /\ UNCHANGED <<PENDING, row, expired>>

ReplayStopped ==
    /\ replay = "head" /\ row \in Row /\ STOP
    /\ ReplayRaises
    /\ UNCHANGED bus

ReplayLocks ==
    /\ replay = "head" /\ row \in Row /\ ~STOP
    /\ MATCH = "free"
    /\ MATCH' = "replay" /\ replay' = "submit"
    /\ UNCHANGED <<bus, PENDING, REPLAY_ABORT, log, row, expired>>

Submit ==
    /\ replay = "submit"
    /\ PENDING' = row
    /\ log' = Append(log, Event("submit", row, row))
    /\ bus' = Append(bus, row)
    /\ replay' = "test" /\ expired' = FALSE
    /\ UNCHANGED <<MATCH, REPLAY_ABORT, row>>

(* An error of the socket, with PENDING already set. *)
SubmitFails ==
    /\ replay = "submit"
    /\ PENDING' = row
    /\ log' = log \o <<Event("submit", row, row), Event("replay_failed", 0, 0)>>
    /\ replay' = "done" /\ REPLAY_ABORT' = TRUE /\ MATCH' = "free"
    /\ UNCHANGED <<bus, row, expired>>

(* wait_for: test, wait, and test again with the lock taken back, the last *)
(* time when the ten seconds are over.                                     *)
ReplayWaits ==
    /\ replay = "test" /\ PENDING # 0 /\ ~STOP /\ ~expired
    /\ MATCH' = "free" /\ replay' = "waiting"
    /\ UNCHANGED <<bus, PENDING, REPLAY_ABORT, log, row, expired>>

WaitExpires ==
    /\ replay = "waiting"
    /\ replay' = "woken" /\ expired' = TRUE
    /\ UNCHANGED <<bus, MATCH, PENDING, REPLAY_ABORT, log, row>>

(* Fault: the ten seconds start anew with every test. *)
ReplayRelocksAfresh ==
    /\ replay = "woken" /\ MATCH = "free"
    /\ MATCH' = "replay" /\ replay' = "test" /\ expired' = FALSE
    /\ UNCHANGED <<bus, PENDING, REPLAY_ABORT, log, row>>

ReplayRelocks ==
    /\ replay = "woken" /\ MATCH = "free"
    /\ MATCH' = "replay" /\ replay' = "test"
    /\ UNCHANGED <<bus, PENDING, REPLAY_ABORT, log, row, expired>>

(* Fault: a row that is not answered in time is skipped. *)
ReplaySkips ==
    /\ replay = "test" /\ (STOP \/ (PENDING # 0 /\ expired))
    /\ MATCH' = "free" /\ replay' = "head" /\ row' = row + 1
    /\ UNCHANGED <<bus, PENDING, REPLAY_ABORT, log, expired>>

ReplayGivesUp ==
    /\ replay = "test" /\ (STOP \/ (PENDING # 0 /\ expired))
    /\ ReplayRaises
    /\ UNCHANGED bus

ReplayAdvances ==
    /\ replay = "test" /\ PENDING = 0 /\ ~STOP
    /\ MATCH' = "free" /\ replay' = "head" /\ row' = row + 1
    /\ UNCHANGED <<bus, PENDING, REPLAY_ABORT, log, expired>>

ReplayComplete ==
    /\ replay = "head" /\ row \notin Row
    /\ replay' = "done"
    /\ emit("replay_complete")
    /\ UNCHANGED <<bus, MATCH, PENDING, REPLAY_ABORT, row, expired>>

replay_dataset ==
    /\ \/ ReplayStopped \/ ReplayLocks \/ Submit \/ SubmitFails \/ ReplayWaits
       \/ ReplayRelocks \/ ReplayGivesUp \/ ReplayAdvances \/ ReplayComplete
    /\ UNCHANGED <<uart, signalled, STOP, ready, gate, mainVars>>

Timeout ==
    /\ WaitExpires
    /\ UNCHANGED <<uart, signalled, STOP, ready, gate, mainVars>>

-----------------------------------------------------------------------------
(* main, from the readers' start on.                                       *)

AllReady == \A e \in Ecu : ready[e]

Leaves(as) ==
    /\ main' = "boundary" /\ outcome' = as
    /\ UNCHANGED <<STOP, log, replay>>

(* A signal ends the loop without an error. *)
MainStopped == main = "loop" /\ STOP /\ Leaves("ok")

(* Renode has ended, a reader is gone, a marker or a state is missing in   *)
(* time, or the duration is over.                                          *)
MainRaises == main = "loop" /\ ~STOP /\ Leaves("failed")

(* The gate copied under the lock is clean; then the replay starts.        *)
GateCopied ==
    /\ main = "loop" /\ ~STOP /\ AllReady /\ replay = "none"
    /\ gate.started = Ecu /\ gate.modes = Modes /\ ~gate.errors
    /\ main' = "gated"
    /\ UNCHANGED <<STOP, log, outcome, replay>>

ReplayStarted ==
    /\ main = "gated"
    /\ emit("normal_gate_pass")
    /\ replay' = "head" /\ main' = "check"
    /\ UNCHANGED <<STOP, outcome>>

LoopGoesOn ==
    /\ main = "loop" /\ ~STOP /\ AllReady /\ replay # "none"
    /\ main' = "check"
    /\ UNCHANGED <<STOP, log, outcome, replay>>

ReplayAlive ==
    /\ main = "check" /\ replay # "done"
    /\ main' = "loop"
    /\ UNCHANGED <<STOP, log, outcome, replay>>

(* Fault: an aborted replay ends the service without an error. *)
ReplayOverUnchecked ==
    /\ main = "check" /\ replay = "done"
    /\ Leaves("ok")

ReplayOver ==
    /\ main = "check" /\ replay = "done"
    /\ Leaves(IF REPLAY_ABORT THEN "failed" ELSE "ok")

Boundary ==
    /\ main = "boundary"
    /\ emit("shutdown_boundary")
    /\ main' = "stop"
    /\ UNCHANGED <<STOP, outcome, replay>>

StopSet ==
    /\ main = "stop"
    /\ STOP' = TRUE
    /\ main' = "notify"
    /\ UNCHANGED <<log, outcome, replay>>

(* Fault: nobody tells the waiting thread. *)
StopNotNotified ==
    /\ main = "notify"
    /\ main' = "join"
    /\ UNCHANGED <<STOP, log, outcome, replay>>

StopNotified ==
    /\ main = "notify" /\ MATCH = "free"
    /\ replay' = Woken
    /\ main' = "join"
    /\ UNCHANGED <<STOP, log, outcome>>

(* The replay has been joined and the log is closed. *)
Exited ==
    /\ main = "join" /\ replay \in {"none", "done"}
    /\ main' = "exited"
    /\ UNCHANGED <<STOP, log, outcome, replay>>

Main ==
    /\ \/ MainStopped \/ MainRaises \/ GateCopied \/ ReplayStarted \/ LoopGoesOn
       \/ ReplayAlive \/ ReplayOver \/ Boundary \/ StopSet \/ StopNotified \/ Exited
    /\ UNCHANGED <<envVars, ready, gate, MATCH, PENDING, REPLAY_ABORT, row, expired>>

-----------------------------------------------------------------------------
Next ==
    \/ EcuRecords \/ EcuLoses \/ ApplicationFrame \/ LineGarbled \/ Signal
    \/ ReadStatus \/ ReadDecision \/ ReadOther \/ ReaderEnds
    \/ replay_dataset \/ Timeout \/ Main

Spec == Init /\ [][Next]_vars

(* The threads of the service run; nobody need send, record or answer, and *)
(* no wait need expire.                                                    *)
ThreadsRun == WF_vars(replay_dataset) /\ WF_vars(Main)
FairSpec == Spec /\ ThreadsRun

-----------------------------------------------------------------------------
(* The shared variables keep their ranges, and the replay thread holds     *)
(* MATCH exactly in its critical sections, whichever way it leaves them.   *)
TypeOK ==
    /\ bus \in Seq(Row) /\ uart \in Seq(Row \cup {0})
    /\ STOP \in BOOLEAN /\ signalled \in BOOLEAN /\ ready \in [Ecu -> BOOLEAN]
    /\ gate.started \subseteq Ecu /\ gate.modes \subseteq Modes /\ gate.errors \in BOOLEAN
    /\ MATCH = IF replay \in {"submit", "test"} THEN "replay" ELSE "free"
    /\ PENDING \in Row \cup {0} /\ REPLAY_ABORT \in BOOLEAN
    /\ main \in {"loop", "gated", "check", "boundary", "stop", "notify", "join", "exited"}
    /\ outcome \in {"ok", "failed"}
    /\ replay \in {"none", "head", "submit", "test", "waiting", "woken", "done"}
    /\ row \in 1 .. Len(Content) + 1 /\ expired \in BOOLEAN

Logged(kind) == {i \in DOMAIN log : log[i].kind = kind}

(* A decision of ECU B is attributed to the very row whose frame it is     *)
(* about, even where rows have equal contents, frames and lines are lost   *)
(* and answers come after the wait for them expired.                       *)
AttributionSound ==
    \A i \in Logged("decision") : log[i].row = log[i].of

(* "wait for B decision before next source frame": a row is submitted only *)
(* when each row before it was submitted and decided.                      *)
WaitForDecision ==
    \A i \in Logged("submit") :
        \A r \in 1 .. log[i].row - 1 :
            \E j, k \in 1 .. i - 1 :
                j < k /\ log[j] = Event("submit", r, r) /\ log[k] = Event("decision", r, r)

(* When the service ends without an error and no signal came, every row    *)
(* was submitted and decided and the replay is logged as complete, all     *)
(* before the boundary up to which the log promises to be complete.        *)
SuccessIsWhole ==
    main = "exited" /\ outcome = "ok" /\ ~signalled
      => \E b \in Logged("shutdown_boundary"), c \in Logged("replay_complete") :
           /\ c < b
           /\ \A r \in Row : \E i, j \in 1 .. c :
                /\ log[i] = Event("submit", r, r)
                /\ log[j] = Event("decision", r, r)

(* Once STOP is set the service comes to its end although no wait need     *)
(* expire: the replay thread cannot miss the notification.                 *)
StopEnds == STOP ~> main = "exited"

(* When time passes as well, a replay comes to its end, complete or        *)
(* failed, whatever ECU B does.                                            *)
ReplayEnds == WF_vars(Timeout) => (replay = "head" ~> replay = "done")
=============================================================================
