---------------------------- MODULE HybridPredict ----------------------------
(***************************************************************************)
(* The two-stage verdict on one feature vector, in its two forms.          *)
(*                                                                         *)
(* can_ids_predict is the C text that src/models_c/08_export_v2_to_c.py    *)
(* writes: the class with the largest sum of tree outputs, found by a      *)
(* loop that is run here comparison by comparison, and for the normal      *)
(* class the Mahalanobis detector.  hybrid_predict of src/dashboard/app.py *)
(* takes numpy's argmax of what lgbm.predict returns, which are not the    *)
(* sums but their softmax in floating point, and computes the quadratic    *)
(* form with its own order of operations.                                  *)
(*                                                                         *)
(* Scores and forms are integers, as only their order and what rounding    *)
(* can bridge matter.  The sums of both are the same: the same trees,      *)
(* written with 17 digits, added in the same order.  A form may come out a *)
(* little below zero and is counted in steps of 1e-12 / 2.                 *)
(***************************************************************************)
EXTENDS Integers

CONSTANTS
    NumClasses,     \* CAN_IDS_NUM_CLASSES
    NormalIdx,      \* NORMAL_IDX
    CodeMap,        \* CODE_MAP
    Scores,         \* values a score may take
    Probabilities,  \* values a probability may take, in the order of doubles
    Gap,            \* a score so far below the largest has a smaller probability
    Forms,          \* values a quadratic form may take
    Noise,          \* the two forms differ by no more
    Threshold       \* the largest form whose root is not above MAHA_THRESHOLD

ASSUME ClassesAssumption ==
    /\ NumClasses \in Nat /\ NumClasses >= 1
    /\ NormalIdx \in 0 .. NumClasses - 1
    /\ CodeMap \in [0 .. NumClasses - 1 -> 0 .. 4]
ASSUME ScoresAssumption ==
    /\ Scores \subseteq Int /\ Probabilities \subseteq Int
    /\ Gap \in Nat /\ Gap >= 1
ASSUME FormsAssumption == Forms \subseteq Int /\ Noise \in Nat /\ Threshold \in Nat

VARIABLES
    pc,       \* "loop" in can_ids_predict, "done" when it has returned
    scores,   \* what score() returned, and what lgbm.predict starts from
    dist2,    \* the quadratic form in C, before it is clamped
    raw,      \* what lgbm.predict returned
    form,     \* d @ maha_inv_cov @ d
    best,
    cls,      \* i, the class whose score comes next
    code      \* the value returned

predictVars == <<pc, scores, dist2, raw, form, best, cls, code>>

Class == 0 .. NumClasses - 1

(* lgbm.predict divides the exponentials of the scores by their sum.       *)
(* Rounding keeps the order and may make neighbours equal; what is far     *)
(* enough below the largest stays below it.                                *)
Softmax(s) ==
    {p \in [Class -> Probabilities] :
        /\ \A c, d \in Class : s[c] <= s[d] => p[c] <= p[d]
        /\ \A d \in Class : (\A c \in Class : s[c] <= s[d])
              => \A c \in Class : s[c] + Gap <= s[d] => p[c] < p[d]}

Near(p, q) == p - q <= Noise /\ q - p <= Noise

(* sqrt(q) > MAHA_THRESHOLD: the root of a negative number is not a number *)
(* and compares false.                                                     *)
RootExceeds(q) == q >= 0 /\ q > Threshold

(* Fault: the form is made positive instead of being clamped. *)
form_without_sign(q) == IF q < 0 THEN -q ELSE q

maha_distance2(q) == IF q < 0 /\ q > -2 THEN 0 ELSE q
maha_predict(q) == RootExceeds(maha_distance2(q))

-----------------------------------------------------------------------------
(* Both functions are given one feature vector.                            *)
PredictInit ==
    /\ pc = "loop"
    /\ scores \in [Class -> Scores]
    /\ raw \in Softmax(scores)
    /\ dist2 \in Forms
    /\ form \in {f \in Forms : Near(f, dist2)}
    /\ best = 0
    /\ cls = 1
    /\ code = 0

(* Fault: the last of several largest scores wins. *)
CompareLastWins ==
    /\ pc = "loop"
    /\ cls < NumClasses
    /\ best' = IF scores[cls] >= scores[best] THEN cls ELSE best
    /\ cls' = cls + 1
    /\ UNCHANGED <<pc, scores, dist2, raw, form, code>>

Compare ==
    /\ pc = "loop"
    /\ cls < NumClasses
    /\ best' = IF scores[cls] > scores[best] THEN cls ELSE best
    /\ cls' = cls + 1
    /\ UNCHANGED <<pc, scores, dist2, raw, form, code>>

Return(value) ==
    /\ pc = "loop"
    /\ cls = NumClasses
    /\ pc' = "done"
    /\ code' = value
    /\ UNCHANGED <<scores, dist2, raw, form, best, cls>>

KnownAttack == best # NormalIdx /\ Return(CodeMap[best])

Unknown == best = NormalIdx /\ maha_predict(dist2) /\ Return(5)
Normal == best = NormalIdx /\ ~maha_predict(dist2) /\ Return(0)

PredictNext == Compare \/ KnownAttack \/ Unknown \/ Normal

PredictSpec == PredictInit /\ [][PredictNext]_predictVars

-----------------------------------------------------------------------------
(* np.argmax(raw): the first index of a largest probability.               *)
IsArgMax(b) ==
    /\ b \in Class
    /\ \A c \in Class : raw[c] <= raw[b]
    /\ \A c \in Class : c < b => raw[c] < raw[b]

best_idx == CHOOSE b \in Class : IsArgMax(b)

hybrid_predict ==
    IF best_idx # NormalIdx THEN CodeMap[best_idx]
    ELSE IF RootExceeds(form) THEN 5
    ELSE 0

-----------------------------------------------------------------------------
(* Properties.                                                             *)

(* The loop stays inside the scores, and a verdict is one of the six codes *)
(* the firmware counts.                                                    *)
PredictTyped ==
    /\ pc \in {"loop", "done"}
    /\ scores \in [Class -> Scores]
    /\ raw \in Softmax(scores)
    /\ dist2 \in Forms
    /\ form \in Forms /\ Near(form, dist2)
    /\ best \in Class
    /\ cls \in 1 .. NumClasses
    /\ code \in 0 .. 5

(* Rounding made a class of smaller number as probable as the firmware's,  *)
(* whose score is larger by less than Gap.                                 *)
NearTie ==
    /\ best_idx < best
    /\ raw[best_idx] = raw[best]
    /\ scores[best_idx] < scores[best]
    /\ scores[best] < scores[best_idx] + Gap

(* The two forms lie on the two sides of the threshold, within their noise. *)
NearThreshold ==
    /\ best_idx = best /\ best = NormalIdx
    /\ dist2 - Threshold <= Noise /\ Threshold - dist2 <= Noise

(* Firmware and dashboard give one feature vector one verdict but for      *)
(* these two cases: equal scores, however many, and a form rounded below   *)
(* zero do not part them.                                                  *)
AgreesUpToRounding ==
    pc = "done" => code = hybrid_predict \/ NearTie \/ NearThreshold
=============================================================================
