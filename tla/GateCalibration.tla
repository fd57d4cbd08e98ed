---------------------------- MODULE GateCalibration ----------------------------
(***************************************************************************)
(* Calibration of the anomaly detector of one gate                         *)
(* (shellgate/src/shellgate.c): the rolling window of scores behind the    *)
(* adaptive threshold, the score histograms behind the Bayesian            *)
(* combination, and every call that must start them over.                  *)
(*                                                                         *)
(* A score carries what it was measured with: the generation of the two    *)
(* models and, while scores are combined by weight, the weights.  A gate   *)
(* is used by one thread, so every call is one action.  A call that        *)
(* refuses its arguments or runs out of memory changes nothing and is not  *)
(* an action.  The threshold is kept as the inputs of its formula.         *)
(***************************************************************************)
EXTENDS Integers, FiniteSets

CONSTANTS
    Values,         \* what two scores of one regime may differ in
    Weightings,     \* legal pairs of weights
    Weighed,        \* [Weightings -> SUBSET Components]: weights above zero
    DefaultWeights, \* 0.5 and 0.5
    Thresholds,     \* thresholds given to enable
    Factors,        \* k factors
    DefaultFactor,  \* 3.0
    Windows,        \* window sizes
    CdfMin,         \* CDF_DEFAULT_MIN_SAMPLES
    MaxSamples,     \* bound on histogram totals, for TLC
    MaxModel        \* bound on model generations, for TLC

Components == {"raw", "type"}
NoModel    == 0
NoBuf      == <<>>      \* a NULL anomaly_score_buf
NoWindow   == 0

ASSUME CalibrationAssumption ==
    /\ Weighed \in [Weightings -> SUBSET Components]
    /\ DefaultWeights \in Weightings /\ DefaultFactor \in Factors
    /\ Windows \subseteq Nat \ {0}
    /\ CdfMin \in Nat \ {0} /\ MaxModel \in Nat
    /\ MaxSamples \in Nat /\ \A n \in Windows \cup {CdfMin} : n <= MaxSamples
    /\ "odds" \notin Weightings

VARIABLES
    model,      \* generation of the installed pair of models, or NoModel
    loaded,     \* generations made so far
    bayesMode,  \* anomaly_combine_mode is BAYESIAN
    weights,    \* anomaly_weight_raw, anomaly_weight_type
    fixed,      \* anomaly_fixed_threshold
    factor,     \* anomaly_k_factor
    adaptive,   \* anomaly_adaptive
    size,       \* anomaly_window_size
    buf,        \* anomaly_score_buf
    count, idx, \* anomaly_score_count, anomaly_score_idx
    armed,      \* anomaly_adaptive_armed
    threshold,  \* anomaly_threshold
    hist,       \* the histograms are allocated
    samples,    \* component -> cdf_raw_count, cdf_type_count
    sampled     \* generations whose scores are in the histograms

config  == <<bayesMode, weights, fixed, factor, adaptive, size>>
rolling == <<count, idx, armed, threshold>>
cdf     == <<hist, samples, sampled>>
vars    == <<model, loaded, config, buf, rolling, cdf>>

Score == [model : 0..MaxModel, by : Weightings \cup {"odds"}, value : Values]
Unset == [model |-> NoModel, by |-> "odds", value |-> 0]    \* calloc

Slots == 0..(size - 1)

(* mean + k * stddev, which does not depend on the order of the window. *)
Computed(k, window) ==
    [factor |-> k,
     scores |-> [s \in {window[i] : i \in Slots} |->
                    Cardinality({i \in Slots : window[i] = s})]]

TypeOK ==
    /\ loaded \in 0..MaxModel /\ model \in 0..loaded
    /\ bayesMode \in BOOLEAN /\ weights \in Weightings
    /\ fixed \in Thresholds \cup {0} /\ factor \in Factors
    /\ adaptive \in BOOLEAN /\ size \in Windows \cup {NoWindow}
    /\ buf = NoBuf \/ buf \in [Slots -> Score \cup {Unset}]
    /\ count \in 0..size /\ (idx \in Slots \/ idx = 0)
    /\ armed \in BOOLEAN
    /\ hist \in BOOLEAN /\ samples \in [Components -> 0..MaxSamples]
    /\ sampled \subseteq 1..loaded

(* sg_gate_new *)
Init ==
    /\ model = NoModel /\ loaded = 0
    /\ bayesMode = FALSE /\ weights = DefaultWeights
    /\ fixed = 0 /\ factor = DefaultFactor
    /\ adaptive = FALSE /\ size = NoWindow
    /\ buf = NoBuf /\ count = 0 /\ idx = 0
    /\ armed = FALSE /\ threshold = 0
    /\ hist = FALSE /\ samples = [c \in Components |-> 0] /\ sampled = {}

-------------------------------------------------------------------------------
Ready(mode, tally, adapts, window) ==       \* anomaly_uses_bayesian
    /\ mode
    /\ \A c \in Components : tally[c] >= (IF adapts THEN window ELSE CdfMin)

Bayesian == Ready(bayesMode, samples, adaptive, size)

(* What a score is measured with now. *)
Regime == [model |-> model, by |-> IF Bayesian THEN "odds" ELSE weights]

AdaptiveReset ==
    count' = 0 /\ idx' = 0 /\ armed' = FALSE /\ threshold' = fixed'

CdfReset == samples' = [c \in Components |-> 0] /\ sampled' = {}

(* sg_gate_enable_anomaly *)
Enable(t) ==
    /\ loaded < MaxModel /\ loaded' = loaded + 1 /\ model' = loaded'
    /\ buf' = IF adaptive /\ buf = NoBuf THEN [i \in Slots |-> Unset] ELSE buf
    /\ bayesMode' = FALSE /\ weights' = DefaultWeights /\ fixed' = t
    /\ AdaptiveReset
    /\ hist' = FALSE /\ CdfReset
    /\ UNCHANGED <<factor, adaptive, size>>

(* sg_gate_disable_anomaly *)
Disable ==
    /\ model' = NoModel /\ buf' = NoBuf
    /\ UNCHANGED <<loaded, config>>
    /\ AdaptiveReset
    /\ hist' = FALSE /\ CdfReset

SetWeightsRestarts(w) ==    \* faulty variant: starts over although unused
    /\ weights' = w
    /\ UNCHANGED <<model, loaded, bayesMode, fixed, factor, adaptive, size, buf,
                   cdf>>
    /\ IF w # weights THEN AdaptiveReset ELSE UNCHANGED rolling

(* sg_gate_set_anomaly_weights *)
SetWeights(w) ==
    /\ weights' = w
    /\ UNCHANGED <<model, loaded, bayesMode, fixed, factor, adaptive, size, buf,
                   cdf>>
    /\ IF w # weights /\ ~Bayesian THEN AdaptiveReset ELSE UNCHANGED rolling

(* sg_gate_set_anomaly_adaptive *)
SetAdaptive(window) ==
    /\ adaptive' = TRUE /\ size' = window
    /\ buf' = [i \in 0..(window - 1) |-> Unset]
    /\ UNCHANGED <<model, loaded, bayesMode, weights, fixed, factor, cdf>>
    /\ AdaptiveReset

SetFixed ==
    /\ adaptive' = FALSE /\ buf' = NoBuf
    /\ UNCHANGED <<model, loaded, bayesMode, weights, fixed, factor, size, cdf>>
    /\ AdaptiveReset

SetFactorLater(k) ==        \* faulty variant: the next score recomputes
    /\ factor' = k
    /\ UNCHANGED <<model, loaded, bayesMode, weights, fixed, adaptive, size, buf,
                   count, idx, armed, threshold, cdf>>

(* sg_gate_set_anomaly_k_factor *)
SetFactor(k) ==
    /\ factor' = k
    /\ threshold' = IF armed THEN Computed(k, buf) ELSE threshold
    /\ UNCHANGED <<model, loaded, bayesMode, weights, fixed, adaptive, size, buf,
                   count, idx, armed, cdf>>

(* sg_gate_set_anomaly_combine_mode *)
SetMode(mode) ==
    /\ bayesMode' = mode
    /\ hist' = (hist \/ mode)
    /\ UNCHANGED <<model, loaded, weights, fixed, factor, adaptive, size, buf,
                   samples, sampled>>
    /\ IF Bayesian' # Bayesian THEN AdaptiveReset ELSE UNCHANGED rolling

LoadKeepsWindow ==          \* faulty variant: only the histograms start over
    /\ model # NoModel /\ loaded < MaxModel
    /\ loaded' = loaded + 1 /\ model' = loaded'
    /\ CdfReset
    /\ UNCHANGED <<config, buf, rolling, hist>>

LoadKeepsCdf ==             \* faulty variant: only the window starts over
    /\ model # NoModel /\ loaded < MaxModel
    /\ loaded' = loaded + 1 /\ model' = loaded'
    /\ UNCHANGED <<config, buf, cdf>>
    /\ AdaptiveReset

(* sg_gate_load_anomaly_model, once both models of the bundle were read *)
Load ==
    /\ model # NoModel /\ loaded < MaxModel
    /\ loaded' = loaded + 1 /\ model' = loaded'
    /\ UNCHANGED <<config, buf, hist>>
    /\ AdaptiveReset /\ CdfReset

-------------------------------------------------------------------------------
(* The end of sg_gate_evaluate, for a command of three or more stages that *)
(* was not flagged and whose learning did not fail: its scores enter the   *)
(* histograms, and the window unless they just changed the regime.         *)

CdfRecord(finite) ==
    IF bayesMode /\ hist
    THEN /\ samples' = [c \in Components |->
                IF c \in finite /\ samples[c] < MaxSamples
                THEN samples[c] + 1 ELSE samples[c]]
         /\ sampled' = IF finite = {} THEN sampled ELSE sampled \cup {model}
    ELSE UNCHANGED <<samples, sampled>>

RecordScoreAtCount(score) ==    \* faulty variant: count is the write position
    /\ buf' = [buf EXCEPT ![count % size] = score]
    /\ idx' = (idx + 1) % size
    /\ count' = IF count < size THEN count + 1 ELSE count
    /\ armed' = (armed \/ count' >= size)
    /\ threshold' = IF armed' THEN Computed(factor, buf') ELSE threshold

RecordScore(score) ==
    /\ buf' = [buf EXCEPT ![idx] = score]
    /\ idx' = (idx + 1) % size
    /\ count' = IF count < size THEN count + 1 ELSE count
    /\ armed' = (armed \/ count' >= size)
    /\ threshold' = IF armed' THEN Computed(factor, buf') ELSE threshold

(* finite: the component scores that are finite.  The combination is        *)
(* infinite if a weighed component is; log-odds always are finite.          *)
Combinable(finite) == Bayesian \/ Weighed[weights] \subseteq finite

Retain(value, finite) ==
    /\ model # NoModel
    /\ CdfRecord(finite)
    /\ UNCHANGED <<model, loaded, config, hist>>
    /\ IF Bayesian' # Bayesian
       THEN AdaptiveReset /\ UNCHANGED buf
       ELSE IF adaptive /\ Combinable(finite)
       THEN RecordScore([model |-> model, by |-> Regime.by, value |-> value])
       ELSE UNCHANGED <<buf, rolling>>

Next ==
    \/ \E t \in Thresholds : Enable(t)
    \/ Disable \/ SetFixed \/ Load
    \/ \E w \in Weightings : SetWeights(w)
    \/ \E window \in Windows : SetAdaptive(window)
    \/ \E k \in Factors : SetFactor(k)
    \/ \E mode \in BOOLEAN : SetMode(mode)
    \/ \E value \in Values, finite \in SUBSET Components : Retain(value, finite)

Spec == Init /\ [][Next]_vars

-------------------------------------------------------------------------------
(* "Calibration belongs to one model generation and one effective score    *)
(* regime" (shellgate.c:473): every score the threshold may be computed    *)
(* from was measured as the next one will be.                              *)
SingleRegime ==
    \A i \in 0..(count - 1) :
        buf[i].model = model /\ buf[i].by = Regime.by

(* The threshold detection compares with is that of the full current       *)
(* window and factor, or the one given to enable; it is never a leftover   *)
(* of an earlier window, factor or configuration.                          *)
ThresholdCurrent ==
    /\ armed <=> adaptive /\ buf # NoBuf /\ count = size
    /\ threshold = IF armed THEN Computed(factor, buf) ELSE fixed

(* "Adaptive mode supplies an allocated, positive-sized window"            *)
(* (shellgate.c:831) to adaptive_record_score, and a Bayesian score reads  *)
(* allocated histograms, through every order of enable, disable and the    *)
(* two setters that allocate.                                              *)
StorageReady ==
    /\ model # NoModel /\ adaptive =>
           buf # NoBuf /\ DOMAIN buf = Slots /\ size > 0
    /\ buf # NoBuf => DOMAIN buf = Slots
    /\ Bayesian => hist

(* The histograms only hold scores of the installed models. *)
HistogramsCurrent == sampled \subseteq {model}

(* Scores are given up only for a reason: a new regime, threshold base or  *)
(* window.  Weights that are not in use, a mode switch that does not take  *)
(* effect and an evaluation do not cost the calibration.                   *)
KeepsCalibration ==
    [][count' < count =>
         \/ Regime' # Regime
         \/ \E window \in Windows : SetAdaptive(window)
         \/ SetFixed]_vars

Window ==
    [j \in 1..count |-> buf[(idx + size - count + j - 1) % size]]

Observed == INSTANCE ScoreWindow
                WITH window <- Window, regime <- Regime, Scores <- Score

(* The ring buffer is the sliding window of ScoreWindow. *)
ImplementsScoreWindow == Observed!Spec
===============================================================================
