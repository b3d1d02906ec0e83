--------------------------- MODULE EcuApplication ---------------------------
(***************************************************************************)
(* The applications of the two simulated ECUs,                             *)
(* src/docker_sim/sl_application.h, over a bus that may lose any frame:    *)
(* ECU A commands a converter through precharge, boost and buck; ECU B is  *)
(* the converter, leaves a mode when the commands stop, and reports.       *)
(*                                                                         *)
(* The two take turns, one 10 ms tick each, and a frame arrives before the *)
(* next turn or never.  An ECU whose main loop was busy skips a tick.  The *)
(* high voltage is kept as the steps it is away from its resting value;    *)
(* currents, temperatures, counters and the low voltage decide nothing.    *)
(***************************************************************************)
EXTENDS Naturals, FiniteSetsExt

CONSTANTS
    Period,         \* ticks between two commands or two states: 10
    BmsTimeout,     \* ticks after which B misses 0x0D5: 10
    HpcTimeout,     \* ticks after which B misses 0x0EF: 30
    StatusTimeout,  \* ticks A acts on a state for: 30
    RetryAfter,     \* ticks A waits for a mode it has commanded: 30
    Idle,           \* ticks A stays in mode 0: 400
    Hold,           \* ticks A stays in mode 2 and in mode 3: 300
    HvReady,        \* steps after which the high voltage is high enough: 330
    HvTarget,       \* steps after which it is reached: 335
    Lossy,          \* identifiers of the frames the bus may lose
    MaySkip         \* whether an ECU may skip a tick

Frames == {"0D5", "0EF", "0D2", "1D2", "2D2"}
Mode == 0 .. 3

ASSUME TimeAssumption ==
    /\ Period \in Nat \ {0} /\ HvReady \in Nat \ {0} /\ HvTarget \in Nat
    /\ BmsTimeout \in Nat /\ HpcTimeout \in Nat /\ StatusTimeout \in Nat
    /\ RetryAfter \in Nat /\ HvReady <= HvTarget
    /\ Idle \in Nat /\ Hold \in Nat
ASSUME BusAssumption == Lossy \subseteq Frames /\ MaySkip \in BOOLEAN

VARIABLES
    turn,            \* the ECU whose tick comes next
    now,             \* g_control_tick_count modulo Period
    command_mode,    \* of A
    age,             \* now - phase_tick
    observed_mode,
    statusAge,       \* now - status_tick
    reported_ready,
    reported_hv,     \* whether the high voltage reported is enough
    commanded,       \* command_mode of B
    enable,          \* of B; relay has the same value
    bmsAge, hpcAge,  \* now - bms_tick, now - hpc_tick
    mode,            \* of B's last step
    hv, ready,
    sinceActive,     \* ticks since A last commanded a mode >= 2
    stepped          \* B did not skip its last tick; a property uses these two

aVars == <<command_mode, age, observed_mode, statusAge, reported_ready, reported_hv>>
bVars == <<commanded, enable, bmsAge, hpcAge, mode, hv, ready>>
vars == <<turn, now, aVars, bVars, sinceActive, stepped>>

(* Ages are counted up to where nothing distinguishes them any more; a     *)
(* frame never seen is as old as one too old.                              *)
Longest == Max({Idle, Hold, RetryAfter})
Older(n, limit) == IF n < limit THEN n + 1 ELSE limit

Init ==
    /\ turn = "A" /\ now = 0
    /\ command_mode = 0 /\ age = 0 /\ observed_mode = 0
    /\ statusAge = StatusTimeout + 1 /\ reported_ready = FALSE /\ reported_hv = FALSE
    /\ commanded = 0 /\ enable = FALSE
    /\ bmsAge = BmsTimeout + 1 /\ hpcAge = HpcTimeout + 1
    /\ mode = 0 /\ hv = 0 /\ ready = FALSE
    /\ sinceActive = BmsTimeout + 1 /\ stepped = FALSE

-----------------------------------------------------------------------------
(* ECU A.                                                                  *)

Now == (now + 1) % Period
Age == Older(age, Longest)
Fresh == statusAge < StatusTimeout

(* Fault: A goes on asking for the mode B has left. *)
NoRetry == FALSE

(* A converter command timeout clears readiness. *)
Retry ==
    /\ Now = 0 /\ Fresh
    /\ command_mode >= 2 /\ observed_mode = 0
    /\ Age >= RetryAfter

(* Fault: buck leads to a fifth mode. *)
AdvanceBeyond(m) ==
    CASE m = 0 /\ Age >= Idle -> 1
      [] m = 1 /\ reported_ready /\ reported_hv -> 2
      [] m >= 2 /\ Age >= Hold -> m + 1
      [] OTHER -> m

(* The mode A goes on to once B reports the one commanded, after the time  *)
(* or the readiness it waits for.                                          *)
Advance(m) ==
    CASE m = 0 /\ Age >= Idle -> 1
      [] m = 1 /\ reported_ready /\ reported_hv -> 2
      [] m = 2 /\ Age >= Hold -> 3
      [] m = 3 /\ Age >= Hold -> 0
      [] OTHER -> m

Command ==
    IF Retry THEN 0
    ELSE IF Now = 0 /\ Fresh /\ observed_mode = command_mode THEN Advance(command_mode)
    ELSE command_mode

(* application_receive of B.                                               *)
ReceiveB(lost) ==
    /\ IF "0D5" \in lost
       THEN UNCHANGED <<enable, bmsAge>>
       ELSE enable' = (Command >= 2) /\ bmsAge' = 0
    /\ IF Now # 0 \/ "0EF" \in lost
       THEN UNCHANGED <<commanded, hpcAge>>
       ELSE commanded' = Command /\ hpcAge' = 0

(* application_step of A, with what B receives of the frames it sends.     *)
StepA ==
    /\ command_mode' = Command
    /\ age' = IF Command # command_mode THEN 0 ELSE Age
    /\ \E lost \in SUBSET (Lossy \cap {"0D5", "0EF"}) : ReceiveB(lost)

SkipA ==
    /\ MaySkip
    /\ age' = Age
    /\ UNCHANGED <<command_mode, enable, bmsAge, commanded, hpcAge>>

TickA ==
    /\ turn = "A" /\ turn' = "B"
    /\ now' = Now
    /\ statusAge' = Older(statusAge, StatusTimeout + 1)
    /\ StepA \/ SkipA
    /\ sinceActive' = IF command_mode' >= 2 THEN 0 ELSE Older(sinceActive, BmsTimeout + 1)
    /\ UNCHANGED <<stepped, observed_mode, reported_ready, reported_hv, mode, hv, ready>>

-----------------------------------------------------------------------------
(* ECU B.                                                                  *)

Missing == bmsAge >= BmsTimeout \/ hpcAge >= HpcTimeout

(* Fault: B misses the frame with the mode alone. *)
AllowedOnHpcAlone ==
    IF hpcAge >= HpcTimeout THEN 0
    ELSE IF commanded >= 2 /\ (~enable \/ ~ready) THEN 0
    ELSE commanded

(* Fault: precharge, too, is allowed only when B is ready. *)
AllowedWhenReady ==
    IF Missing \/ (commanded >= 1 /\ ~ready) \/ (commanded >= 2 /\ ~enable) THEN 0 ELSE commanded

(* The mode commanded, or 0 when commands are missing or it is not allowed *)
(* now.                                                                    *)
Allowed ==
    IF Missing \/ (commanded >= 2 /\ (~enable \/ ~ready)) THEN 0 ELSE commanded

(* application_receive of A.                                               *)
ReceiveA(lost) ==
    /\ reported_hv' = IF "0D2" \in lost THEN reported_hv ELSE hv' >= HvReady
    /\ reported_ready' = IF "1D2" \in lost THEN reported_ready ELSE ready'
    /\ IF now # 0 \/ "2D2" \in lost
       THEN UNCHANGED <<observed_mode, statusAge>>
       ELSE observed_mode' = mode' /\ statusAge' = 0

(* Fault: readiness depends on the voltage alone. *)
StepBReadyInRest(lost) ==
    /\ mode' = Allowed
    /\ hv' = IF Allowed # 0 THEN Older(hv, HvTarget) ELSE IF hv > 0 THEN hv - 1 ELSE 0
    /\ ready' = (hv' >= HvReady)
    /\ stepped' = TRUE
    /\ ReceiveA(lost)

(* application_step of B, with what A receives of the frames it sends.     *)
StepB(lost) ==
    /\ mode' = Allowed
    /\ hv' = IF Allowed # 0 THEN Older(hv, HvTarget) ELSE IF hv > 0 THEN hv - 1 ELSE 0
    /\ ready' = (Allowed # 0 /\ hv' >= HvReady)
    /\ stepped' = TRUE
    /\ ReceiveA(lost)

SkipB ==
    /\ MaySkip
    /\ stepped' = FALSE
    /\ UNCHANGED <<mode, hv, ready, reported_hv, reported_ready, observed_mode, statusAge>>

TickB(lost) ==
    /\ turn = "B" /\ turn' = "A"
    /\ bmsAge' = Older(bmsAge, BmsTimeout + 1) /\ hpcAge' = Older(hpcAge, HpcTimeout + 1)
    /\ StepB(lost) \/ SkipB
    /\ UNCHANGED <<now, command_mode, age, commanded, enable, sinceActive>>

Next == TickA \/ \E lost \in SUBSET (Lossy \cap {"0D2", "1D2", "2D2"}) : TickB(lost)

Spec == Init /\ [][Next]_vars

(* Time passes, a state that B sends again and again gets through again    *)
(* and again, and A does not skip for ever just those ticks in which it    *)
(* could act on one.                                                       *)
StateGetsThrough ==
    now = 0 /\ \E lost \in SUBSET (Lossy \cap {"0D2", "1D2"}) : TickB(lost) /\ StepB(lost)
ADecides == Now = 0 /\ Fresh /\ TickA /\ StepA

FairSpec == Spec /\ WF_vars(Next) /\ SF_vars(StateGetsThrough) /\ SF_vars(ADecides)

-----------------------------------------------------------------------------
TypeOK ==
    /\ turn \in {"A", "B"} /\ now \in 0 .. Period - 1
    /\ command_mode \in Mode /\ observed_mode \in Mode
    /\ commanded \in Mode /\ mode \in Mode
    /\ age \in 0 .. Longest /\ statusAge \in 0 .. StatusTimeout + 1
    /\ reported_ready \in BOOLEAN /\ reported_hv \in BOOLEAN
    /\ enable \in BOOLEAN /\ ready \in BOOLEAN
    /\ bmsAge \in 0 .. BmsTimeout + 1 /\ hpcAge \in 0 .. HpcTimeout + 1
    /\ hv \in 0 .. HvTarget /\ sinceActive \in 0 .. BmsTimeout + 1 /\ stepped \in BOOLEAN

(* The converter does not boost or buck for longer than its shorter        *)
(* time-out after A has stopped commanding it, whatever frames are lost    *)
(* and whenever the two ECUs skip ticks, unless B itself does not run.     *)
ActiveNotLonger == stepped /\ turn = "A" /\ mode >= 2 => sinceActive <= BmsTimeout

(* The converter enters boost and buck with the high voltage up and out of *)
(* an energised mode only: one that a time-out has sent to rest goes       *)
(* through precharge again, although A may still command the mode it left. *)
PrechargedFirst == [][mode' >= 2 => mode >= 1 /\ hv' >= HvReady]_vars

(* The comment over the retry: A does not ask a converter that has fallen  *)
(* out of its mode for boost or buck for ever.                             *)
NotAskedForever == command_mode >= 2 /\ mode = 0 ~> command_mode < 2

(* Once neither frames are lost nor ticks skipped, the converter goes      *)
(* through its four modes again and again, each confirmed by its state,    *)
(* whatever went wrong before: what the service's gate waits for.          *)
Undisturbed == IF turn = "A" THEN StepA /\ ReceiveB({}) ELSE StepB({})
ModesRecur ==
    <>[][Undisturbed]_vars => \A m \in Mode : []<>(command_mode = m /\ observed_mode = m)
=============================================================================
