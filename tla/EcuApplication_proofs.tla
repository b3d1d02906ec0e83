------------------------ MODULE EcuApplication_proofs ------------------------
(***************************************************************************)
(* Proofs about EcuApplication: for every setting of the time-outs and of  *)
(* the voltages, whatever frames the bus loses and whatever ticks the two  *)
(* ECUs skip.                                                              *)
(***************************************************************************)
EXTENDS EcuApplication, TLAPS

(* The longest of the times A waits.                                       *)
LEMMA LongestTyped == Longest \in Nat
<1> DEFINE S == {Idle, Hold, RetryAfter}
<1>1. \E x \in S : \A y \in S : x >= y
  BY TimeAssumption
<1>2. Longest \in S
  BY <1>1 DEF Longest, Max
<1> QED
  BY <1>2, TimeAssumption

(* An age stays within its limit.                                          *)
LEMMA OlderTyped ==
    ASSUME NEW limit \in Nat, NEW n \in 0 .. limit
    PROVE  /\ Older(n, limit) \in 0 .. limit
           /\ Older(n, limit) >= n
           /\ Older(n, limit) <= n + 1
BY DEF Older

(* A commands one of the four modes.                                       *)
LEMMA CommandTyped ==
    ASSUME command_mode \in Mode
    PROVE  Command \in Mode
<1>1. Advance(command_mode) \in Mode
  BY DEF Advance, Mode
<1> QED
  BY <1>1 DEF Command, Mode

(* B allows one of them, and one that needs the voltage only while it is   *)
(* ready and is asked for it.                                              *)
LEMMA AllowedTyped ==
    ASSUME commanded \in Mode
    PROVE  /\ Allowed \in Mode
           /\ Allowed >= 2 => enable /\ ready /\ ~Missing
BY DEF Allowed, Mode

-----------------------------------------------------------------------------
(* What the steps do to the state's types.                                 *)

(* The time since A commanded boost or buck grows by one tick at a time.   *)
LEMMA SinceActive ==
    ASSUME sinceActive \in 0 .. BmsTimeout + 1, TickA
    PROVE  /\ sinceActive' \in 0 .. BmsTimeout + 1
           /\ sinceActive' <= sinceActive + 1
           /\ command_mode' >= 2 => sinceActive' = 0
<1>1. sinceActive' = IF command_mode' >= 2 THEN 0 ELSE Older(sinceActive, BmsTimeout + 1)
  BY DEF TickA
<1>2. BmsTimeout + 1 \in Nat
  BY TimeAssumption
<1>3. /\ Older(sinceActive, BmsTimeout + 1) \in 0 .. BmsTimeout + 1
      /\ Older(sinceActive, BmsTimeout + 1) <= sinceActive + 1
  BY <1>2, OlderTyped
<1> QED
  BY <1>1, <1>2, <1>3

(* A tick of A, taken or skipped.                                          *)
LEMMA TickATyped ==
    ASSUME TypeOK, TickA
    PROVE  TypeOK'
<1> USE TimeAssumption
<1>1. Command \in Mode /\ Longest \in Nat
  BY CommandTyped, LongestTyped DEF TypeOK
<1>2. turn' = "B" /\ now' \in 0 .. Period - 1
  BY DEF TickA, Now, TypeOK
<1>3. Age \in 0 .. Longest
  BY <1>1, OlderTyped DEF TypeOK, Age
<1>4. statusAge' \in 0 .. StatusTimeout + 1
  BY OlderTyped DEF TickA, TypeOK
<1>5. /\ command_mode' \in Mode /\ age' \in 0 .. Longest
      /\ enable' \in BOOLEAN /\ bmsAge' \in 0 .. BmsTimeout + 1
      /\ commanded' \in Mode /\ hpcAge' \in 0 .. HpcTimeout + 1
  <2>1. CASE StepA
    <3>1. command_mode' = Command /\ age' = IF Command # command_mode THEN 0 ELSE Age
      BY <2>1 DEF StepA
    <3>2. PICK lost : ReceiveB(lost)
      BY <2>1 DEF StepA
    <3>3. enable' \in BOOLEAN
      <4>1. (Command >= 2) \in BOOLEAN
        BY <1>1 DEF Mode
      <4> QED
        BY <3>2, <4>1, Zenon DEF ReceiveB, TypeOK
    <3>4. bmsAge' \in 0 .. BmsTimeout + 1
      BY <3>2 DEF ReceiveB, TypeOK
    <3>5. commanded' \in Mode /\ hpcAge' \in 0 .. HpcTimeout + 1
      BY <3>2, <1>1 DEF ReceiveB, TypeOK
    <3> QED
      BY <3>1, <3>3, <3>4, <3>5, <1>1, <1>3
  <2>2. CASE SkipA
    BY <2>2, <1>3 DEF SkipA, TypeOK
  <2> QED
    BY <2>1, <2>2 DEF TickA
<1>6. sinceActive' \in 0 .. BmsTimeout + 1
  BY SinceActive DEF TypeOK
<1>7. UNCHANGED <<stepped, observed_mode, reported_ready, reported_hv, mode, hv, ready>>
  BY DEF TickA
<1> QED
  BY <1>2, <1>4, <1>5, <1>6, <1>7 DEF TypeOK

(* A tick of B, with any of its frames lost.                               *)
LEMMA TickBTyped ==
    ASSUME TypeOK, NEW lost, TickB(lost)
    PROVE  TypeOK'
<1> USE TimeAssumption
<1>1. Allowed \in Mode
  BY AllowedTyped DEF TypeOK
<1>2. turn' = "A" /\ UNCHANGED <<now, command_mode, age, commanded, enable, sinceActive>>
  BY DEF TickB
<1>3. bmsAge' \in 0 .. BmsTimeout + 1 /\ hpcAge' \in 0 .. HpcTimeout + 1
  BY OlderTyped DEF TickB, TypeOK
<1>4. /\ mode' \in Mode /\ hv' \in 0 .. HvTarget /\ ready' \in BOOLEAN /\ stepped' \in BOOLEAN
      /\ reported_hv' \in BOOLEAN /\ reported_ready' \in BOOLEAN
      /\ observed_mode' \in Mode /\ statusAge' \in 0 .. StatusTimeout + 1
  <2>1. CASE StepB(lost)
    <3>1. hv' \in 0 .. HvTarget
      <4>1. hv \in 0 .. HvTarget /\ Older(hv, HvTarget) \in 0 .. HvTarget
        BY OlderTyped DEF TypeOK
      <4> QED
        BY <2>1, <4>1 DEF StepB
    <3>2. mode' \in Mode /\ ready' \in BOOLEAN /\ stepped' \in BOOLEAN
      BY <2>1, <1>1 DEF StepB
    <3>3. reported_hv' \in BOOLEAN /\ reported_ready' \in BOOLEAN
      <4>1. (hv' >= HvReady) \in BOOLEAN
        BY <3>1
      <4> QED
        BY <2>1, <3>2, <4>1, Zenon DEF StepB, ReceiveA, TypeOK
    <3>4. observed_mode' \in Mode /\ statusAge' \in 0 .. StatusTimeout + 1
      BY <2>1, <3>2 DEF StepB, ReceiveA, TypeOK
    <3> QED
      BY <3>1, <3>2, <3>3, <3>4
  <2>2. CASE SkipB
    BY <2>2 DEF SkipB, TypeOK
  <2> QED
    BY <2>1, <2>2 DEF TickB
<1> QED
  BY <1>2, <1>3, <1>4 DEF TypeOK

(* The ages, modes and voltages stay in their ranges.                      *)
THEOREM EcusTyped == Spec => []TypeOK
<1>1. Init => TypeOK
  <2> SUFFICES ASSUME Init
               PROVE  TypeOK
    OBVIOUS
  <2>1. /\ now \in 0 .. Period - 1 /\ age \in 0 .. Longest /\ hv \in 0 .. HvTarget
        /\ statusAge \in 0 .. StatusTimeout + 1
        /\ bmsAge \in 0 .. BmsTimeout + 1 /\ hpcAge \in 0 .. HpcTimeout + 1
        /\ sinceActive \in 0 .. BmsTimeout + 1
    BY TimeAssumption, LongestTyped DEF Init
  <2>2. command_mode \in Mode /\ observed_mode \in Mode /\ commanded \in Mode /\ mode \in Mode
    BY DEF Init, Mode
  <2> QED
    BY <2>1, <2>2, Zenon DEF Init, TypeOK
<1>2. TypeOK /\ [Next]_vars => TypeOK'
  <2> SUFFICES ASSUME TypeOK, [Next]_vars
               PROVE  TypeOK'
    OBVIOUS
  <2>1. CASE TickA
    BY <2>1, TickATyped
  <2>2. ASSUME NEW lost, TickB(lost)
        PROVE  TypeOK'
    BY <2>2, TickBTyped
  <2>3. CASE UNCHANGED vars
    BY <2>3 DEF vars, aVars, bVars, TypeOK
  <2> QED
    BY <2>1, <2>2, <2>3 DEF Next
<1> QED
  BY <1>1, <1>2, PTL DEF Spec

-----------------------------------------------------------------------------
(* While B has the converter enabled, A has commanded a mode that needs it *)
(* no longer ago than B last heard of it, give or take A's own tick.       *)
EnabledSince ==
    enable => sinceActive <= IF turn = "A" THEN bmsAge ELSE bmsAge + 1

ActiveInv == EnabledSince /\ ActiveNotLonger

(* The time moves on with A, and the age of its frames with it.            *)
LEMMA TickAActive ==
    ASSUME TypeOK, ActiveInv, TickA
    PROVE  ActiveInv'
<1> USE TimeAssumption
<1>1. turn = "A" /\ turn' = "B"
  BY DEF TickA
<1>2. /\ sinceActive' \in Nat /\ sinceActive' <= sinceActive + 1
      /\ command_mode' >= 2 => sinceActive' = 0
  BY SinceActive DEF TypeOK
<1>3. enable' => sinceActive' <= bmsAge' + 1
  <2>1. CASE enable' = enable /\ bmsAge' = bmsAge
    BY <2>1, <1>1, <1>2 DEF ActiveInv, EnabledSince, TypeOK
  <2>2. CASE enable' = (Command >= 2) /\ bmsAge' = 0 /\ command_mode' = Command
    <3>1. enable' => command_mode' >= 2
      BY <2>2, Zenon
    <3> QED
      BY <2>2, <3>1, <1>2
  <2> QED
    BY <2>1, <2>2 DEF TickA, StepA, SkipA, ReceiveB
<1> QED
  BY <1>1, <1>3 DEF ActiveInv, EnabledSince, ActiveNotLonger

(* B leaves boost and buck when the frames it has are too old.             *)
LEMMA TickBActive ==
    ASSUME TypeOK, ActiveInv, NEW lost, TickB(lost)
    PROVE  ActiveInv'
<1> USE TimeAssumption
<1>1. /\ turn = "B" /\ turn' = "A" /\ enable' = enable /\ sinceActive' = sinceActive
      /\ bmsAge' = Older(bmsAge, BmsTimeout + 1)
  BY DEF TickB
<1>2. enable => sinceActive <= bmsAge + 1
  BY <1>1 DEF ActiveInv, EnabledSince
<1>3. EnabledSince'
  BY <1>1, <1>2 DEF EnabledSince, Older, TypeOK
<1>4. ActiveNotLonger'
  <2>1. CASE StepB(lost)
    <3> SUFFICES ASSUME mode' >= 2
                 PROVE  sinceActive <= BmsTimeout
      BY <1>1 DEF ActiveNotLonger
    <3>1. enable /\ bmsAge < BmsTimeout
      BY <2>1, AllowedTyped DEF StepB, Missing, TypeOK
    <3> QED
      BY <3>1, <1>2 DEF TypeOK
  <2>2. CASE SkipB
    BY <2>2 DEF SkipB, ActiveNotLonger
  <2> QED
    BY <2>1, <2>2 DEF TickB
<1> QED
  BY <1>3, <1>4 DEF ActiveInv

(* So the two hold together.                                               *)
LEMMA ActiveInvariant == Spec => []ActiveInv
<1>1. Init => ActiveInv
  BY DEF Init, ActiveInv, EnabledSince, ActiveNotLonger
<1>2. TypeOK /\ ActiveInv /\ [Next]_vars => ActiveInv'
  <2> SUFFICES ASSUME TypeOK, ActiveInv, [Next]_vars
               PROVE  ActiveInv'
    OBVIOUS
  <2>1. CASE TickA
    BY <2>1, TickAActive
  <2>2. ASSUME NEW lost, TickB(lost)
        PROVE  ActiveInv'
    BY <2>2, TickBActive
  <2>3. CASE UNCHANGED vars
    BY <2>3 DEF vars, aVars, bVars, ActiveInv, EnabledSince, ActiveNotLonger
  <2> QED
    BY <2>1, <2>2, <2>3 DEF Next
<1> QED
  BY <1>1, <1>2, EcusTyped, PTL DEF Spec

(* The converter stops boosting and bucking within its shorter time-out of *)
(* A's last command, unless B does not run.                                *)
THEOREM ConverterStops == Spec => []ActiveNotLonger
<1>1. ActiveInv => ActiveNotLonger
  BY DEF ActiveInv
<1> QED
  BY <1>1, ActiveInvariant, PTL

-----------------------------------------------------------------------------
(* A converter that is ready is energised and has its voltage, one that    *)
(* boosts or bucks has its voltage.                                        *)
ReadyInv ==
    /\ ready => mode >= 1 /\ hv >= HvReady
    /\ mode >= 2 => hv >= HvReady

(* B's step keeps it so and enters boost and buck out of readiness alone.  *)
LEMMA StepBReady ==
    ASSUME TypeOK, ReadyInv, NEW lost, StepB(lost)
    PROVE  /\ ReadyInv'
           /\ mode' >= 2 => mode >= 1 /\ hv' >= HvReady
<1> USE TimeAssumption
<1>1. /\ Allowed \in Mode
      /\ Allowed >= 2 => ready
  BY AllowedTyped DEF TypeOK
<1>2. /\ mode' = Allowed /\ ready' = (Allowed # 0 /\ hv' >= HvReady)
      /\ Allowed # 0 => hv' = Older(hv, HvTarget)
  BY DEF StepB
<1>3. hv \in 0 .. HvTarget
  BY DEF TypeOK
<1>3a. Older(hv, HvTarget) >= hv /\ Older(hv, HvTarget) \in 0 .. HvTarget
  BY <1>3, OlderTyped
<1>4. mode' >= 2 => mode >= 1 /\ hv' >= HvReady
  BY <1>1, <1>2, <1>3, <1>3a DEF ReadyInv, TypeOK, Mode
<1>5. ready' => mode' # 0 /\ hv' >= HvReady
  BY <1>2, Zenon
<1>6. ready' => mode' >= 1 /\ hv' >= HvReady
  BY <1>1, <1>2, <1>5 DEF Mode
<1> QED
  BY <1>4, <1>6 DEF ReadyInv

LEMMA ReadyStep ==
    ASSUME TypeOK, ReadyInv, [Next]_vars
    PROVE  /\ ReadyInv'
           /\ mode' # mode \/ hv' # hv => (mode' >= 2 => mode >= 1 /\ hv' >= HvReady)
<1>1. CASE TickA
  BY <1>1 DEF TickA, ReadyInv
<1>2. ASSUME NEW lost, TickB(lost), StepB(lost)
      PROVE  /\ ReadyInv'
             /\ mode' >= 2 => mode >= 1 /\ hv' >= HvReady
  BY <1>2, StepBReady
<1>3. ASSUME NEW lost, TickB(lost), SkipB
      PROVE  mode' = mode /\ hv' = hv /\ ready' = ready
  BY <1>3 DEF SkipB
<1>4. CASE UNCHANGED vars
  BY <1>4 DEF vars, bVars, ReadyInv
<1> QED
  BY <1>1, <1>2, <1>3, <1>4 DEF Next, TickB, ReadyInv

(* The converter enters boost and buck out of an energised mode with the   *)
(* high voltage up, and from nowhere else.                                 *)
THEOREM ConverterPrecharged == Spec => PrechargedFirst
<1>1. Init => ReadyInv
  BY DEF Init, ReadyInv
<1>2. TypeOK /\ ReadyInv /\ [Next]_vars => ReadyInv'
  BY ReadyStep
<1>3. TypeOK /\ ReadyInv /\ [Next]_vars => [mode' >= 2 => mode >= 1 /\ hv' >= HvReady]_vars
  <2> SUFFICES ASSUME TypeOK, ReadyInv, [Next]_vars, mode' >= 2
               PROVE  mode >= 1 /\ hv' >= HvReady
    OBVIOUS
  <2> QED
    BY ReadyStep, TimeAssumption DEF ReadyInv, TypeOK, Mode
<1> QED
  BY <1>1, <1>2, <1>3, EcusTyped, PTL DEF Spec, PrechargedFirst
=============================================================================
