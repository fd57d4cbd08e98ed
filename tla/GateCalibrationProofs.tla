------------------------- MODULE GateCalibrationProofs -------------------------
(***************************************************************************)
(* The calibration invariants of GateCalibration hold for every set of     *)
(* windows, weights, factors and scores and any number of model            *)
(* generations, calibration is given up only for a reason, and the ring of *)
(* scores implements the sliding window of ScoreWindow.                    *)
(***************************************************************************)
EXTENDS GateCalibration, Sequences, TLAPS

(* What makes the invariants inductive: scores are only retained by an     *)
(* adaptive configuration with its window and models in place, and until   *)
(* the ring is full its position is its count, so that the scores retained *)
(* are those before the count.                                             *)
RingShape ==
    /\ adaptive => size \in Windows
    /\ model # NoModel /\ adaptive => buf # NoBuf
    /\ count > 0 => adaptive /\ buf # NoBuf /\ model # NoModel
    /\ count < size => idx = count

(* Histograms that were freed by disable hold no samples. *)
HistShape == \A c \in Components : samples[c] > 0 => hist

IInv ==
    /\ TypeOK /\ RingShape /\ HistShape
    /\ SingleRegime /\ ThresholdCurrent /\ HistogramsCurrent

USE DEF config, rolling, cdf, vars, NoModel, NoWindow

(* Positions advance inside the ring, and wrap only at its end. *)
LEMMA Advance ==
    ASSUME NEW n \in Nat \ {0}, NEW i \in 0..(n - 1)
    PROVE  /\ (i + 1) % n \in 0..(n - 1)
           /\ i + 1 < n => (i + 1) % n = i + 1
  BY SMT

(* A window of positive size is not the null pointer. *)
LEMMA Allocated ==
    ASSUME NEW n \in Nat \ {0}, NEW f, DOMAIN f = 0..(n - 1)
    PROVE  f # NoBuf
<1>1. 0 \in DOMAIN f
  BY SMT
<1>2. DOMAIN NoBuf = {}
  BY SMT DEF NoBuf
<1> QED
  BY <1>1, <1>2

LEMMA Initially == Init => IInv
<1> SUFFICES ASSUME Init PROVE IInv
  OBVIOUS
<1> USE CalibrationAssumption DEF Init
<1>1. TypeOK
  <2>1. bayesMode \in BOOLEAN /\ adaptive \in BOOLEAN /\ armed \in BOOLEAN
        /\ hist \in BOOLEAN
    BY Zenon
  <2>2. samples \in [Components -> 0..MaxSamples]
    BY SMT
  <2>3. /\ loaded \in 0..MaxModel /\ model \in 0..loaded
        /\ weights \in Weightings /\ count \in 0..size
    BY SMT
  <2>4. /\ fixed \in Thresholds \cup {0} /\ factor \in Factors
        /\ size \in Windows \cup {NoWindow} /\ idx = 0 /\ buf = NoBuf
    BY SMT
  <2>5. sampled \subseteq 1..loaded
    BY SMT
  <2> QED
    BY <2>1, <2>2, <2>3, <2>4, <2>5, Zenon DEF TypeOK
<1>2. RingShape
  BY SMT DEF RingShape
<1>3. SingleRegime /\ HistShape
  BY SMT DEF SingleRegime, HistShape
<1>4. ThresholdCurrent
  BY SMT DEF ThresholdCurrent
<1>5. HistogramsCurrent
  BY SMT DEF HistogramsCurrent
<1> QED
  BY <1>1, <1>2, <1>3, <1>4, <1>5 DEF IInv

(* Combination by odds reads allocated histograms: it takes samples. *)
LEMMA Drawn ==
    ASSUME IInv, Bayesian PROVE hist
<1> USE DEF IInv
<1>1. samples["raw"] >= (IF adaptive THEN size ELSE CdfMin)
  BY Zenon DEF Bayesian, Ready, Components
<1>2. samples["raw"] > 0
  <2>1. samples["raw"] \in Nat
    BY CalibrationAssumption, SMT DEF TypeOK, Components
  <2>2. CASE adaptive
    <3>1. size \in Nat \ {0}
      BY <2>2, CalibrationAssumption, Zenon DEF RingShape
    <3>2. samples["raw"] >= size
      BY <1>1, <2>2, Zenon
    <3> QED
      BY <2>1, <3>1, <3>2, SMT
  <2>3. CASE ~adaptive
    <3>1. samples["raw"] >= CdfMin
      BY <1>1, <2>3, Zenon
    <3> QED
      BY <2>1, <3>1, CalibrationAssumption, SMT
  <2> QED
    BY <2>2, <2>3
<1> QED
  BY <1>2 DEF HistShape, Components

LEMMA Stored ==
    ASSUME IInv PROVE StorageReady
<1>1. adaptive => size > 0
  <2>1. adaptive => size \in Nat \ {0}
    BY CalibrationAssumption, Zenon DEF IInv, RingShape
  <2> QED
    BY <2>1, SMT
<1>2. buf # NoBuf => DOMAIN buf = Slots
  BY Zenon DEF IInv, TypeOK
<1> QED
  BY <1>1, <1>2, Drawn, Zenon DEF IInv, RingShape, StorageReady

(* Calibration that starts over satisfies its invariants. *)
LEMMA Restarted ==
    ASSUME AdaptiveReset, size' \in Nat, adaptive' => size' \in Windows,
           model' # NoModel /\ adaptive' => buf' # NoBuf
    PROVE  RingShape' /\ SingleRegime' /\ ThresholdCurrent'
<1> USE CalibrationAssumption DEF AdaptiveReset
<1>1. RingShape'
  BY SMT DEF RingShape
<1>2. SingleRegime'
  BY SMT DEF SingleRegime
<1>3. ThresholdCurrent'
  BY SMT DEF ThresholdCurrent
<1> QED
  BY <1>1, <1>2, <1>3

(* Calibration that is left alone does, as long as the regime stays. *)
LEMMA Kept ==
    ASSUME IInv, Regime' = Regime,
           UNCHANGED <<model, fixed, factor, adaptive, size, buf, rolling>>
    PROVE  RingShape' /\ SingleRegime' /\ ThresholdCurrent'
<1>1. RingShape'
  BY Zenon DEF IInv, RingShape
<1>2. SingleRegime'
  BY Zenon DEF IInv, SingleRegime
<1>3. ThresholdCurrent'
  BY Zenon DEF IInv, ThresholdCurrent, Computed, Slots
<1> QED
  BY <1>1, <1>2, <1>3

(* A score of the current regime enters the ring. *)
LEMMA Recorded ==
    ASSUME IInv, adaptive, model # NoModel, Regime' = Regime,
           NEW score \in Score, score.model = model, score.by = Regime.by,
           RecordScore(score),
           UNCHANGED <<model, fixed, factor, adaptive, size>>
    PROVE  /\ RingShape' /\ SingleRegime' /\ ThresholdCurrent'
           /\ buf' \in [Slots -> Score \cup {Unset}] /\ DOMAIN buf' = Slots
           /\ buf' # NoBuf
           /\ count' \in 0..size /\ idx' \in Slots /\ armed' \in BOOLEAN
<1>1. /\ size \in Nat \ {0} /\ size \in Windows
      /\ count \in 0..size /\ idx \in 0..(size - 1)
      /\ count < size => idx = count
  BY CalibrationAssumption, SMT DEF IInv, TypeOK, RingShape, Slots
<1>2. buf # NoBuf /\ DOMAIN buf = Slots /\ buf \in [Slots -> Score \cup {Unset}]
  BY DEF IInv, RingShape, TypeOK
<1>3. /\ idx' \in 0..(size - 1)
      /\ idx + 1 < size => idx' = idx + 1
  BY <1>1, Advance DEF RecordScore
<1>4. /\ count' = IF count < size THEN count + 1 ELSE count
      /\ count' \in 0..size
  BY <1>1, SMT DEF RecordScore
<1>5. buf' \in [Slots -> Score \cup {Unset}] /\ DOMAIN buf' = Slots
  BY <1>2, Zenon DEF RecordScore
<1>6. buf' # NoBuf
  BY <1>1, <1>5, Allocated DEF Slots
<1>7. armed' = (count' = size)
  <2>1. armed => count = size
    BY Zenon DEF IInv, ThresholdCurrent
  <2>2. armed' = (armed \/ count' >= size)
    BY Zenon DEF RecordScore
  <2>3. CASE armed
    <3>1. count' = size
      BY <1>1, <1>4, <2>1, <2>3, SMT
    <3> QED
      BY <2>2, <2>3, <3>1, Zenon
  <2>4. CASE ~armed
    <3>1. count' >= size <=> count' = size
      BY <1>1, <1>4, SMT
    <3> QED
      BY <2>2, <2>4, <3>1, Zenon
  <2> QED
    BY <2>3, <2>4
<1>8. RingShape'
  <2>1. count' < size => idx' = count'
    BY <1>1, <1>3, <1>4, SMT
  <2> QED
    BY <1>1, <1>6, <2>1, Zenon DEF RingShape
<1>9. SingleRegime'
  <2> SUFFICES ASSUME NEW i \in 0..(count' - 1)
               PROVE  buf'[i].model = model /\ buf'[i].by = Regime.by
    BY Zenon DEF SingleRegime
  <2>1. i \in Slots
    BY <1>1, <1>4, SMT DEF Slots
  <2>2. CASE i = idx
    BY <1>2, <2>1, <2>2, SMT DEF RecordScore
  <2>3. CASE i # idx
    <3>1. i \in 0..(count - 1)
      BY <1>1, <1>4, <2>3, SMT
    <3>2. buf'[i] = buf[i]
      BY <1>2, <2>1, <2>3, Zenon DEF RecordScore
    <3> QED
      BY <3>1, <3>2, Zenon DEF IInv, SingleRegime
  <2> QED
    BY <2>2, <2>3
<1>10. ThresholdCurrent'
  <2>1. armed' <=> adaptive' /\ buf' # NoBuf /\ count' = size'
    BY <1>6, <1>7, Zenon
  <2>2. threshold' = IF armed' THEN Computed(factor, buf)' ELSE fixed'
    <3>1. threshold' = IF armed' THEN Computed(factor, buf') ELSE threshold
      BY Zenon DEF RecordScore
    <3>2. Computed(factor, buf') = Computed(factor, buf)'
      BY Zenon DEF Computed, Slots
    <3>3. ~armed' => threshold = fixed
      BY Zenon DEF RecordScore, IInv, ThresholdCurrent
    <3> QED
      BY <3>1, <3>2, <3>3, Zenon
  <2> QED
    BY <2>1, <2>2, Zenon DEF ThresholdCurrent
<1>11. armed' \in BOOLEAN /\ idx' \in Slots
  BY <1>3, <1>7, Zenon DEF Slots
<1> QED
  BY <1>4, <1>5, <1>6, <1>8, <1>9, <1>10, <1>11, Zenon

(* Calls that start calibration and histograms over *)
LEMMA EnableStep ==
    ASSUME IInv, NEW t \in Thresholds, Enable(t) PROVE IInv'
<1> USE CalibrationAssumption DEF Enable
<1>1. size \in Nat /\ (adaptive => size \in Windows)
  BY SMT DEF IInv, TypeOK, RingShape
<1>2. adaptive' => buf' # NoBuf
  <2>1. CASE adaptive /\ buf = NoBuf
    <3>1. buf' = [i \in Slots |-> Unset]
      BY <2>1, Zenon
    <3>2. size \in Nat \ {0} /\ DOMAIN buf' = 0..(size - 1)
      BY <1>1, <2>1, <3>1, Zenon DEF Slots
    <3> QED
      BY <3>2, Allocated
  <2>2. CASE ~(adaptive /\ buf = NoBuf)
    BY <2>2, Zenon
  <2> QED
    BY <2>1, <2>2
<1>3. RingShape' /\ SingleRegime' /\ ThresholdCurrent'
  BY <1>1, <1>2, Restarted, Zenon
<1>4. TypeOK'
  <2>1. loaded' \in 0..MaxModel /\ model' \in 0..loaded' /\ sampled' \subseteq 1..loaded'
    BY SMT DEF IInv, TypeOK, CdfReset
  <2>2. buf' = NoBuf \/ buf' \in [Slots' -> Score \cup {Unset}]
    BY Zenon DEF IInv, TypeOK, Slots
  <2>3. samples' \in [Components -> 0..MaxSamples]
    BY SMT DEF CdfReset
  <2>4. count' \in 0..size' /\ idx' = 0 /\ size' = size
    BY <1>1, SMT DEF AdaptiveReset
  <2>5. armed' \in BOOLEAN /\ bayesMode' \in BOOLEAN /\ hist' \in BOOLEAN
    BY Zenon DEF AdaptiveReset
  <2> QED
    BY <2>1, <2>2, <2>3, <2>4, <2>5, Zenon DEF IInv, TypeOK
<1>5. HistShape' /\ HistogramsCurrent'
  BY SMT DEF HistShape, HistogramsCurrent, CdfReset
<1> QED
  BY <1>3, <1>4, <1>5 DEF IInv

LEMMA DisableStep ==
    ASSUME IInv, Disable PROVE IInv'
<1> USE CalibrationAssumption DEF Disable
<1>1. size \in Nat /\ (adaptive => size \in Windows)
  BY SMT DEF IInv, TypeOK, RingShape
<1>2. RingShape' /\ SingleRegime' /\ ThresholdCurrent'
  BY <1>1, Restarted, Zenon
<1>3. TypeOK'
  <2>1. model' \in 0..loaded' /\ sampled' \subseteq 1..loaded'
    BY SMT DEF IInv, TypeOK, CdfReset
  <2>2. samples' \in [Components -> 0..MaxSamples]
    BY SMT DEF CdfReset
  <2>3. count' \in 0..size' /\ idx' = 0
    BY <1>1, SMT DEF AdaptiveReset
  <2>4. armed' \in BOOLEAN /\ hist' \in BOOLEAN
    BY Zenon DEF AdaptiveReset
  <2> QED
    BY <2>1, <2>2, <2>3, <2>4, Zenon DEF IInv, TypeOK
<1>4. HistShape' /\ HistogramsCurrent'
  BY SMT DEF HistShape, HistogramsCurrent, CdfReset
<1> QED
  BY <1>2, <1>3, <1>4 DEF IInv

LEMMA LoadStep ==
    ASSUME IInv, Load PROVE IInv'
<1> USE CalibrationAssumption DEF Load
<1>1. /\ size \in Nat /\ (adaptive => size \in Windows)
      /\ adaptive => buf # NoBuf
  BY SMT DEF IInv, TypeOK, RingShape
<1>2. RingShape' /\ SingleRegime' /\ ThresholdCurrent'
  BY <1>1, Restarted, Zenon
<1>3. TypeOK'
  <2>1. loaded' \in 0..MaxModel /\ model' \in 0..loaded' /\ sampled' \subseteq 1..loaded'
    BY SMT DEF IInv, TypeOK, CdfReset
  <2>2. samples' \in [Components -> 0..MaxSamples]
    BY SMT DEF CdfReset
  <2>3. count' \in 0..size' /\ idx' = 0
    BY <1>1, SMT DEF AdaptiveReset
  <2>4. armed' \in BOOLEAN
    BY Zenon DEF AdaptiveReset
  <2>5. buf' = NoBuf \/ buf' \in [Slots' -> Score \cup {Unset}]
    BY Zenon DEF IInv, TypeOK, Slots
  <2> QED
    BY <2>1, <2>2, <2>3, <2>4, <2>5, Zenon DEF IInv, TypeOK
<1>4. HistShape' /\ HistogramsCurrent'
  BY SMT DEF HistShape, HistogramsCurrent, CdfReset
<1> QED
  BY <1>2, <1>3, <1>4 DEF IInv

(* Calls that choose the window *)
LEMMA SetAdaptiveStep ==
    ASSUME IInv, NEW window \in Windows, SetAdaptive(window) PROVE IInv'
<1> USE CalibrationAssumption DEF SetAdaptive
<1>1. window \in Nat \ {0}
  OBVIOUS
<1>2. DOMAIN buf' = 0..(window - 1)
  BY Zenon
<1>3. buf' # NoBuf
  BY <1>1, <1>2, Allocated
<1>4. RingShape' /\ SingleRegime' /\ ThresholdCurrent'
  BY <1>1, <1>3, Restarted, Zenon
<1>5. TypeOK'
  <2>1. buf' \in [Slots' -> Score \cup {Unset}]
    BY Zenon DEF Slots
  <2>2. count' \in 0..size' /\ idx' = 0
    BY <1>1, SMT DEF AdaptiveReset
  <2>3. armed' \in BOOLEAN /\ adaptive' \in BOOLEAN
    BY Zenon DEF AdaptiveReset
  <2> QED
    BY <2>1, <2>2, <2>3, Zenon DEF IInv, TypeOK
<1>6. HistShape' /\ HistogramsCurrent'
  BY Zenon DEF IInv, HistShape, HistogramsCurrent
<1> QED
  BY <1>4, <1>5, <1>6 DEF IInv

LEMMA SetFixedStep ==
    ASSUME IInv, SetFixed PROVE IInv'
<1> USE CalibrationAssumption DEF SetFixed
<1>1. size \in Nat
  BY SMT DEF IInv, TypeOK
<1>2. RingShape' /\ SingleRegime' /\ ThresholdCurrent'
  BY <1>1, Restarted, Zenon
<1>3. TypeOK'
  <2>1. count' \in 0..size' /\ idx' = 0
    BY <1>1, SMT DEF AdaptiveReset
  <2>2. armed' \in BOOLEAN /\ adaptive' \in BOOLEAN
    BY Zenon DEF AdaptiveReset
  <2> QED
    BY <2>1, <2>2, Zenon DEF IInv, TypeOK
<1>4. HistShape' /\ HistogramsCurrent'
  BY Zenon DEF IInv, HistShape, HistogramsCurrent
<1> QED
  BY <1>2, <1>3, <1>4 DEF IInv

(* Calls that start calibration over only if they change the regime *)
LEMMA SetWeightsStep ==
    ASSUME IInv, NEW w \in Weightings, SetWeights(w) PROVE IInv'
<1> USE CalibrationAssumption DEF SetWeights
<1>1. /\ size \in Nat /\ (adaptive => size \in Windows)
      /\ model # NoModel /\ adaptive => buf # NoBuf
  BY SMT DEF IInv, TypeOK, RingShape
<1>2. CASE AdaptiveReset
  <2>1. RingShape' /\ SingleRegime' /\ ThresholdCurrent'
    BY <1>1, <1>2, Restarted, Zenon
  <2>2. count' \in 0..size' /\ idx' = 0 /\ armed' = FALSE
    BY <1>1, <1>2, SMT DEF AdaptiveReset
  <2>3. armed' \in BOOLEAN
    BY <2>2, Zenon
  <2>4. TypeOK'
    BY <2>2, <2>3, Zenon DEF IInv, TypeOK, Slots
  <2>5. HistShape' /\ HistogramsCurrent'
    BY Zenon DEF IInv, HistShape, HistogramsCurrent
  <2> QED
    BY <2>1, <2>4, <2>5 DEF IInv
<1>3. CASE UNCHANGED rolling /\ (w = weights \/ Bayesian)
  <2>1. Bayesian' = Bayesian
    BY Zenon DEF Bayesian, Ready
  <2>2. Regime' = Regime
    BY <1>3, <2>1, Zenon DEF Regime
  <2>3. RingShape' /\ SingleRegime' /\ ThresholdCurrent'
    BY <1>3, <2>2, Kept, Zenon
  <2>4. TypeOK'
    BY <1>3, Zenon DEF IInv, TypeOK, Slots
  <2>5. HistShape' /\ HistogramsCurrent'
    BY Zenon DEF IInv, HistShape, HistogramsCurrent
  <2> QED
    BY <2>3, <2>4, <2>5 DEF IInv
<1> QED
  BY <1>2, <1>3, Zenon

LEMMA SetModeStep ==
    ASSUME IInv, NEW mode \in BOOLEAN, SetMode(mode) PROVE IInv'
<1> USE CalibrationAssumption DEF SetMode
<1>1. /\ size \in Nat /\ (adaptive => size \in Windows)
      /\ model # NoModel /\ adaptive => buf # NoBuf
  BY SMT DEF IInv, TypeOK, RingShape
<1>2. HistShape' /\ HistogramsCurrent'
  BY Zenon DEF IInv, HistShape, HistogramsCurrent
<1>3. hist' \in BOOLEAN /\ bayesMode' \in BOOLEAN
  BY Zenon
<1>4. CASE AdaptiveReset
  <2>1. RingShape' /\ SingleRegime' /\ ThresholdCurrent'
    BY <1>1, <1>4, Restarted, Zenon
  <2>2. count' \in 0..size' /\ idx' = 0 /\ armed' = FALSE
    BY <1>1, <1>4, SMT DEF AdaptiveReset
  <2>3. armed' \in BOOLEAN
    BY <2>2, Zenon
  <2>4. TypeOK'
    BY <1>3, <2>2, <2>3, Zenon DEF IInv, TypeOK, Slots
  <2> QED
    BY <1>2, <2>1, <2>4 DEF IInv
<1>5. CASE Bayesian' = Bayesian /\ UNCHANGED rolling
  <2>1. Regime' = Regime
    BY <1>5, Zenon DEF Regime
  <2>2. RingShape' /\ SingleRegime' /\ ThresholdCurrent'
    BY <1>5, <2>1, Kept, Zenon
  <2>3. TypeOK'
    BY <1>3, <1>5, Zenon DEF IInv, TypeOK, Slots
  <2> QED
    BY <1>2, <2>2, <2>3 DEF IInv
<1> QED
  BY <1>4, <1>5, Zenon

LEMMA SetFactorStep ==
    ASSUME IInv, NEW k \in Factors, SetFactor(k) PROVE IInv'
<1> USE CalibrationAssumption DEF SetFactor
<1>1. RingShape' /\ HistShape' /\ HistogramsCurrent'
  BY Zenon DEF IInv, RingShape, HistShape, HistogramsCurrent
<1>2. Regime' = Regime
  BY Zenon DEF Regime, Bayesian, Ready
<1>3. SingleRegime'
  BY <1>2, Zenon DEF IInv, SingleRegime
<1>4. ThresholdCurrent'
  <2>1. Computed(k, buf) = Computed(factor, buf)'
    BY Zenon DEF Computed, Slots
  <2> QED
    BY <2>1, Zenon DEF IInv, ThresholdCurrent
<1>5. TypeOK'
  BY Zenon DEF IInv, TypeOK, Slots
<1> QED
  BY <1>1, <1>3, <1>4, <1>5 DEF IInv

(* The end of an evaluation *)
LEMMA Sampled ==
    ASSUME IInv, NEW finite \in SUBSET Components, model # NoModel,
           CdfRecord(finite), UNCHANGED <<model, loaded, hist>>
    PROVE  /\ samples' \in [Components -> 0..MaxSamples]
           /\ sampled' \subseteq 1..loaded
           /\ HistShape' /\ HistogramsCurrent'
<1> USE CalibrationAssumption
<1>1. CASE bayesMode /\ hist
  <2>1. samples' = [c \in Components |->
                      IF c \in finite /\ samples[c] < MaxSamples
                      THEN samples[c] + 1 ELSE samples[c]]
    BY <1>1, Zenon DEF CdfRecord
  <2>2. samples \in [Components -> 0..MaxSamples]
    BY Zenon DEF IInv, TypeOK
  <2>3. samples' \in [Components -> 0..MaxSamples]
    BY <2>1, <2>2, SMT
  <2>4. HistShape'
    BY <1>1, Zenon DEF HistShape
  <2>5. sampled' \subseteq sampled \cup {model}
    BY <1>1, SMT DEF CdfRecord
  <2>6. model \in 1..loaded /\ sampled \subseteq 1..loaded /\ sampled \subseteq {model}
    BY SMT DEF IInv, TypeOK, HistogramsCurrent
  <2> QED
    BY <2>3, <2>4, <2>5, <2>6, Zenon DEF HistogramsCurrent
<1>2. CASE ~(bayesMode /\ hist)
  <2>1. UNCHANGED <<samples, sampled>>
    BY <1>2, Zenon DEF CdfRecord
  <2> QED
    BY <2>1, Zenon DEF IInv, TypeOK, HistShape, HistogramsCurrent
<1> QED
  BY <1>1, <1>2

LEMMA RetainStep ==
    ASSUME IInv, NEW value \in Values, NEW finite \in SUBSET Components,
           Retain(value, finite)
    PROVE  IInv'
<1> USE CalibrationAssumption DEF Retain
<1>1. /\ samples' \in [Components -> 0..MaxSamples]
      /\ sampled' \subseteq 1..loaded
      /\ HistShape' /\ HistogramsCurrent'
  BY Sampled, Zenon
<1>2. /\ size \in Nat /\ (adaptive => size \in Windows)
      /\ model # NoModel /\ adaptive => buf # NoBuf
  BY SMT DEF IInv, TypeOK, RingShape
<1>3. CASE Bayesian' # Bayesian
  <2>0. AdaptiveReset /\ UNCHANGED buf
    BY <1>3, Zenon
  <2>1. RingShape' /\ SingleRegime' /\ ThresholdCurrent'
    BY <1>2, <2>0, Restarted, Zenon
  <2>2. count' \in 0..size' /\ idx' = 0 /\ armed' = FALSE
    BY <1>2, <2>0, SMT DEF AdaptiveReset
  <2>3. armed' \in BOOLEAN
    BY <2>2, Zenon
  <2>4. TypeOK'
    BY <1>1, <2>0, <2>2, <2>3, Zenon DEF IInv, TypeOK, Slots
  <2> QED
    BY <1>1, <2>1, <2>4 DEF IInv
<1>4. CASE Bayesian' = Bayesian /\ adaptive /\ Combinable(finite)
  <2> DEFINE score == [model |-> model, by |-> Regime.by, value |-> value]
  <2>1. RecordScore(score)
    BY <1>4, Zenon
  <2>2. Regime' = Regime
    BY <1>4, Zenon DEF Regime
  <2>3. Regime.by \in Weightings \cup {"odds"}
    BY SMT DEF Regime, IInv, TypeOK
  <2>4. model \in 0..MaxModel
    BY SMT DEF IInv, TypeOK
  <2>5. score \in Score /\ score.model = model /\ score.by = Regime.by
    BY <2>3, <2>4, SMT DEF Score
  <2> HIDE DEF score
  <2>6. /\ RingShape' /\ SingleRegime' /\ ThresholdCurrent'
        /\ buf' \in [Slots -> Score \cup {Unset}]
        /\ count' \in 0..size /\ idx' \in Slots /\ armed' \in BOOLEAN
    BY <1>4, <2>1, <2>2, <2>5, Recorded
  <2>7. TypeOK'
    BY <1>1, <2>6, Zenon DEF IInv, TypeOK, Slots
  <2> QED
    BY <1>1, <2>6, <2>7 DEF IInv
<1>5. CASE Bayesian' = Bayesian /\ UNCHANGED <<buf, rolling>>
  <2>1. Regime' = Regime
    BY <1>5, Zenon DEF Regime
  <2>2. RingShape' /\ SingleRegime' /\ ThresholdCurrent'
    BY <1>5, <2>1, Kept, Zenon
  <2>3. TypeOK'
    BY <1>1, <1>5, Zenon DEF IInv, TypeOK, Slots
  <2> QED
    BY <1>1, <2>2, <2>3 DEF IInv
<1> QED
  BY <1>3, <1>4, <1>5, Zenon

LEMMA Preserved == IInv /\ [Next]_vars => IInv'
<1> SUFFICES ASSUME IInv, [Next]_vars PROVE IInv'
  OBVIOUS
<1>1. CASE UNCHANGED vars
  <2>1. Regime' = Regime
    BY <1>1, Zenon DEF Regime, Bayesian, Ready
  <2>2. RingShape' /\ SingleRegime' /\ ThresholdCurrent'
    BY <1>1, <2>1, Kept, Zenon
  <2>3. TypeOK'
    BY <1>1, Zenon DEF IInv, TypeOK, Slots
  <2>4. HistShape' /\ HistogramsCurrent'
    BY <1>1, Zenon DEF IInv, HistShape, HistogramsCurrent
  <2> QED
    BY <2>2, <2>3, <2>4 DEF IInv
<1>2. CASE Next
  BY <1>2, EnableStep, DisableStep, LoadStep, SetAdaptiveStep, SetFixedStep,
     SetWeightsStep, SetModeStep, SetFactorStep, RetainStep, Zenon DEF Next
<1> QED
  BY <1>1, <1>2

(* The calibration is well formed at every point of any order of calls.    *)
THEOREM Invariance == Spec => []IInv
  BY Initially, Preserved, PTL DEF Spec

(* No retained score stems from other models, weights or combination than  *)
(* the next one (adaptive_reset and its callers).                          *)
THEOREM OneRegime == Spec => []SingleRegime
<1>1. IInv => SingleRegime
  BY DEF IInv
<1> QED
  BY Invariance, <1>1, PTL

(* The cached threshold always is that of the present window and factor    *)
(* (adaptive_recompute_threshold and its callers).                         *)
THEOREM ThresholdExact == Spec => []ThresholdCurrent
<1>1. IInv => ThresholdCurrent
  BY DEF IInv
<1> QED
  BY Invariance, <1>1, PTL

(* Recording and Bayesian scoring never meet missing storage               *)
(* (adaptive_record_score, anomaly_bayesian_combine).                      *)
THEOREM AlwaysStored == Spec => []StorageReady
<1>1. IInv => StorageReady
  BY Stored
<1> QED
  BY Invariance, <1>1, PTL

(* Histograms never mix scores of two pairs of models (cdf_reset).         *)
THEOREM HistogramsExact == Spec => []HistogramsCurrent
<1>1. IInv => HistogramsCurrent
  BY DEF IInv
<1> QED
  BY Invariance, <1>1, PTL

(* Scores are only given up for a new regime, base or window: no other     *)
(* call reaches adaptive_reset with scores in the window.                  *)
LEMMA NoNeedlessReset ==
    ASSUME IInv, Next, count' < count
    PROVE  \/ Regime' # Regime
           \/ \E window \in Windows : SetAdaptive(window)
           \/ SetFixed
<1> USE CalibrationAssumption
<1>1. /\ model \in Nat \ {0} /\ loaded \in Nat /\ model <= loaded
      /\ count \in Nat /\ weights \in Weightings
  <2>1. IInv'
    BY Preserved
  <2>2. /\ size' \in Nat /\ size \in Nat
        /\ count' \in 0..size' /\ count \in 0..size
    BY <2>1, SMT DEF IInv, TypeOK
  <2>3. count \in Nat /\ count > 0
    BY <2>2, SMT
  <2>4. model # NoModel
    BY <2>3, Zenon DEF IInv, RingShape
  <2>5. model \in 0..loaded /\ loaded \in Nat /\ weights \in Weightings
    BY SMT DEF IInv, TypeOK
  <2> QED
    BY <2>3, <2>4, <2>5, SMT
<1>2. Regime'.model # Regime.model => Regime' # Regime
  OBVIOUS
<1>3. ASSUME Bayesian' # Bayesian, UNCHANGED weights PROVE Regime' # Regime
  <2>1. weights # "odds" /\ weights' = weights
    BY <1>1, <1>3
  <2>2. /\ Regime.by = IF Bayesian THEN "odds" ELSE weights
        /\ Regime'.by = IF Bayesian' THEN "odds" ELSE weights'
    BY Zenon DEF Regime
  <2>3. Bayesian \in BOOLEAN /\ Bayesian' \in BOOLEAN
    BY Zenon DEF Bayesian, Ready
  <2>4. Regime'.by # Regime.by
    BY <1>3, <2>1, <2>2, <2>3, Zenon
  <2> QED
    BY <2>4
<1>4. ASSUME UNCHANGED rolling PROVE FALSE
  <2>1. count' = count
    BY <1>4, Zenon
  <2> QED
    BY <1>1, <2>1, SMT
<1>5. ASSUME model' # model PROVE Regime' # Regime
  BY <1>2, <1>5, SMT DEF Regime
<1>6. CASE \E t \in Thresholds : Enable(t)
  BY <1>1, <1>5, <1>6, SMT DEF Enable
<1>7. CASE Disable
  BY <1>1, <1>5, <1>7, SMT DEF Disable
<1>8. CASE Load
  BY <1>1, <1>5, <1>8, SMT DEF Load
<1>9. CASE \E w \in Weightings : SetWeights(w)
  <2>1. PICK w \in Weightings : SetWeights(w)
    BY <1>9
  <2>2. w # weights /\ ~Bayesian
    BY <1>4, <2>1, Zenon DEF SetWeights
  <2>3. ~Bayesian'
    BY <2>1, <2>2, Zenon DEF SetWeights, Bayesian, Ready
  <2>4. Regime.by = weights /\ Regime'.by = w
    BY <2>1, <2>2, <2>3, SMT DEF Regime, SetWeights
  <2> QED
    BY <2>2, <2>4
<1>10. CASE \E k \in Factors : SetFactor(k)
  <2>1. count' = count
    BY <1>10, Zenon DEF SetFactor
  <2> QED
    BY <1>1, <2>1, SMT
<1>11. CASE \E mode \in BOOLEAN : SetMode(mode)
  <2>1. UNCHANGED weights /\ (Bayesian' # Bayesian \/ UNCHANGED rolling)
    BY <1>11, Zenon DEF SetMode
  <2> QED
    BY <1>3, <1>4, <2>1, Zenon
<1>12. CASE \E value \in Values, finite \in SUBSET Components :
              Retain(value, finite)
  <2>1. PICK value \in Values, finite \in SUBSET Components :
            Retain(value, finite)
    BY <1>12
  <2>2. CASE Bayesian' # Bayesian
    BY <1>3, <2>1, <2>2, Zenon DEF Retain
  <2>3. CASE Bayesian' = Bayesian /\ adaptive /\ Combinable(finite)
    <3>1. count' = IF count < size THEN count + 1 ELSE count
      BY <2>1, <2>3, Zenon DEF Retain, RecordScore
    <3> QED
      BY <1>1, <3>1, SMT
  <2>4. CASE UNCHANGED rolling
    BY <1>4, <2>4, Zenon
  <2> QED
    BY <2>1, <2>2, <2>3, <2>4, Zenon DEF Retain
<1> QED
  BY <1>6, <1>7, <1>8, <1>9, <1>10, <1>11, <1>12, Zenon DEF Next

(* The calibration survives every call that does not concern it            *)
(* (sg_gate_set_anomaly_weights, sg_gate_set_anomaly_combine_mode).        *)
THEOREM CalibrationKept == Spec => KeepsCalibration
<1>1. IInv /\ [Next]_vars =>
          [count' < count =>
             \/ Regime' # Regime
             \/ \E window \in Windows : SetAdaptive(window)
             \/ SetFixed]_vars
  BY NoNeedlessReset, Zenon
<1> QED
  BY Invariance, <1>1, PTL DEF Spec, KeepsCalibration

-------------------------------------------------------------------------------
(* The ring buffer implements the sliding window of ScoreWindow.           *)

(* Positions of the ring run over its end at most once. *)
LEMMA Wrapped ==
    ASSUME NEW n \in Nat \ {0}, NEW x \in Nat, x < 2 * n
    PROVE  x % n = IF x < n THEN x ELSE x - n
<1>1. CASE x < n
  BY <1>1, SMT
<1>2. CASE x >= n
  <2>1. x = n * 1 + (x - n) /\ x - n \in 0..(n - 1)
    BY <1>2, SMT
  <2> QED
    BY <1>2, <2>1, SMT
<1> QED
  BY <1>1, <1>2, SMT

(* The sequence that appending yields, by its elements *)
LEMMA Appended ==
    ASSUME NEW S, NEW w \in Seq(S), NEW e \in S, NEW v \in Seq(S),
           Len(v) = Len(w) + 1,
           \A j \in 1..Len(w) : v[j] = w[j],
           v[Len(w) + 1] = e
    PROVE  v = Append(w, e)
<1>1. /\ Append(w, e) \in Seq(S) /\ Len(Append(w, e)) = Len(w) + 1
      /\ \A j \in 1..Len(w) : Append(w, e)[j] = w[j]
      /\ Append(w, e)[Len(w) + 1] = e
  BY SMT
<1>2. \A j \in 1..Len(v) : v[j] = Append(w, e)[j]
  BY <1>1, SMT
<1> QED
  BY <1>1, <1>2, SMT

(* A full window drops its oldest element for the new one. *)
LEMMA Slid ==
    ASSUME NEW S, NEW w \in Seq(S), NEW e \in S, NEW v \in Seq(S),
           Len(w) > 0, Len(v) = Len(w),
           \A j \in 1..(Len(w) - 1) : v[j] = w[j + 1],
           v[Len(w)] = e
    PROVE  v = Append(Tail(w), e)
<1> DEFINE t == Tail(w)
<1>1. /\ t \in Seq(S) /\ Len(t) = Len(w) - 1
      /\ \A j \in 1..Len(t) : t[j] = w[j + 1]
  BY SMT
<1> HIDE DEF t
<1>2. Len(v) = Len(t) + 1 /\ v[Len(t) + 1] = e
  BY <1>1, SMT
<1>3. \A j \in 1..Len(t) : v[j] = t[j]
  BY <1>1, SMT
<1>4. v = Append(t, e)
  BY <1>1, <1>2, <1>3, Appended
<1> QED
  BY <1>4 DEF t

(* Where in the ring the j-th oldest score is *)
LEMMA Placed ==
    ASSUME NEW n \in Nat \ {0}, NEW c \in 0..n, NEW i \in 0..(n - 1),
           c < n => i = c, NEW j \in 1..c
    PROVE  LET p == (i + n - c + j - 1) % n
           IN  /\ p \in 0..(n - 1)
               /\ c < n => p = j - 1
               /\ c = n => p = IF i + j - 1 < n THEN i + j - 1 ELSE i + j - 1 - n
<1> DEFINE x == i + n - c + j - 1
<1>1. x \in Nat /\ x < 2 * n
  BY SMT
<1>2. /\ c < n => x = n + j - 1 /\ j - 1 < n
      /\ c = n => x = i + j - 1
  BY SMT
<1> HIDE DEF x
<1>3. x % n = IF x < n THEN x ELSE x - n
  BY <1>1, Wrapped
<1>4. /\ x % n \in 0..(n - 1)
      /\ c < n => x % n = j - 1
      /\ c = n => x % n = IF i + j - 1 < n THEN i + j - 1 ELSE i + j - 1 - n
  BY <1>1, <1>2, <1>3, SMT
<1> QED
  BY <1>4 DEF x

(* The window is a sequence of count scores. *)
LEMMA Windowed ==
    ASSUME IInv
    PROVE  /\ count \in Nat /\ size \in Nat
           /\ Window \in Seq(Score \cup {Unset}) /\ Len(Window) = count
           /\ count = 0 => Window = << >>
<1>1. size \in Nat /\ count \in 0..size
  BY CalibrationAssumption, SMT DEF IInv, TypeOK
<1>2. CASE count = 0
  <2>1. << >> \in Seq(Score \cup {Unset}) /\ Len(<< >>) = 0
    OBVIOUS
  <2>2. Window = << >>
    BY <1>2, SMT DEF Window
  <2> QED
    BY <1>1, <1>2, <2>1, <2>2, SMT
<1>3. CASE count # 0
  <2>1. size \in Nat \ {0} /\ count \in 1..size
    BY <1>1, <1>3, SMT
  <2>2. buf # NoBuf /\ idx \in 0..(size - 1) /\ (count < size => idx = count)
    BY <2>1, SMT DEF IInv, RingShape, TypeOK, Slots
  <2>3. buf \in [0..(size - 1) -> Score \cup {Unset}]
    BY <2>2, Zenon DEF IInv, TypeOK, Slots
  <2>4. ASSUME NEW j \in 1..count
        PROVE  (idx + size - count + j - 1) % size \in 0..(size - 1)
    BY <1>1, <2>1, <2>2, Placed
  <2>5. Window \in [1..count -> Score \cup {Unset}]
    BY <2>3, <2>4, Zenon DEF Window
  <2> QED
    BY <1>1, <1>3, <2>5, SMT
<1> QED
  BY <1>2, <1>3

(* A score that enters the ring is observed by the window. *)
LEMMA RecordObserves ==
    ASSUME IInv, IInv', adaptive, model # NoModel, Regime' = Regime,
           NEW score \in Score, score.model = model, score.by = Regime.by,
           RecordScore(score),
           UNCHANGED <<model, fixed, factor, adaptive, size>>
    PROVE  Observed!Observe(score)
<1> DEFINE W == Window
           V == Window'
<1>1. /\ size \in Nat \ {0}
      /\ count \in 0..size /\ idx \in 0..(size - 1)
      /\ count < size => idx = count
  <2>1. size \in Nat \ {0}
    BY CalibrationAssumption, SMT DEF IInv, TypeOK, RingShape
  <2>2. count \in 0..size /\ idx \in 0..(size - 1)
    BY <2>1, SMT DEF IInv, TypeOK, Slots
  <2>3. count < size => idx = count
    BY SMT DEF IInv, RingShape
  <2> QED
    BY <2>1, <2>2, <2>3, Zenon
<1>2. buf \in [0..(size - 1) -> Score \cup {Unset}]
  BY Zenon DEF IInv, RingShape, TypeOK, Slots
<1>3. /\ idx' = (idx + 1) % size
      /\ idx' = IF idx + 1 < size THEN idx + 1 ELSE 0
  <2>1. (idx + 1) % size = IF idx + 1 < size THEN idx + 1 ELSE (idx + 1) - size
    <3>1. idx + 1 \in Nat /\ idx + 1 < 2 * size
      BY <1>1, SMT
    <3> QED
      BY <1>1, <3>1, Wrapped
  <2>2. idx' = (idx + 1) % size
    BY Zenon DEF RecordScore
  <2> QED
    BY <1>1, <2>1, <2>2, SMT
<1>4. count' = IF count < size THEN count + 1 ELSE count
  BY Zenon DEF RecordScore
<1>5. \A p \in 0..(size - 1) : buf'[p] = IF p = idx THEN score ELSE buf[p]
  BY <1>2, SMT DEF RecordScore
<1>6. W \in Seq(Score \cup {Unset}) /\ Len(W) = count
  BY Windowed
<1>7. V \in Seq(Score \cup {Unset}) /\ Len(V) = count'
  <2>1. (Window \in Seq(Score \cup {Unset}) /\ Len(Window) = count)'
    BY Windowed, PTL
  <2> QED
    BY <2>1
<1>8. \A j \in 1..count : W[j] = buf[(idx + size - count + j - 1) % size]
  BY Zenon DEF Window
<1>9. \A j \in 1..count' : V[j] = buf'[(idx' + size - count' + j - 1) % size]
  BY Zenon DEF Window
<1> HIDE DEF W, V
<1>10. CASE count < size
  <2>1. count' = count + 1 /\ count' \in 0..size /\ idx = count
    BY <1>1, <1>4, <1>10, SMT
  <2>2. /\ idx' \in 0..(size - 1)
        /\ count' < size => idx' = count'
        /\ count' = size => idx' = 0
    BY <1>1, <1>3, <2>1, SMT
  <2>3. ASSUME NEW j \in 1..count PROVE W[j] = buf[j - 1]
    <3>1. (idx + size - count + j - 1) % size = j - 1
      BY <1>1, <1>10, Placed
    <3> QED
      BY <1>8, <3>1, Zenon
  <2>4. ASSUME NEW j \in 1..count' PROVE V[j] = buf'[j - 1]
    <3> DEFINE i2 == idx'
               c2 == count'
    <3>1. i2 \in 0..(size - 1) /\ c2 \in 0..size /\ (c2 < size => i2 = c2)
      BY <2>1, <2>2
    <3>2. c2 = size => i2 = 0
      BY <2>2
    <3>3. j \in 1..c2 /\ c2 \in Nat
      BY <1>1, <2>1, SMT
    <3> HIDE DEF i2, c2
    <3>4. (i2 + size - c2 + j - 1) % size = j - 1
      <4>1. /\ c2 < size => (i2 + size - c2 + j - 1) % size = j - 1
            /\ c2 = size => (i2 + size - c2 + j - 1) % size
                  = IF i2 + j - 1 < size THEN i2 + j - 1 ELSE i2 + j - 1 - size
        BY <1>1, <3>1, <3>3, Placed
      <4> QED
        BY <1>1, <3>1, <3>2, <3>3, <4>1, SMT
    <3>5. V[j] = buf'[(i2 + size - c2 + j - 1) % size]
      BY <1>9 DEF i2, c2
    <3> QED
      BY <3>4, <3>5, Zenon
  <2>5. ASSUME NEW j \in 1..count PROVE V[j] = W[j]
    <3>1. j \in 1..count' /\ j - 1 \in 0..(size - 1) /\ j - 1 # idx
      BY <1>1, <1>10, <2>1, SMT
    <3>2. V[j] = buf'[j - 1]
      BY <2>4, <3>1
    <3>3. buf'[j - 1] = buf[j - 1]
      BY <1>5, <3>1, Zenon
    <3> QED
      BY <2>3, <3>2, <3>3, Zenon
  <2>6. V[count + 1] = score
    <3>1. count + 1 \in 1..count' /\ (count + 1) - 1 = idx
      BY <1>1, <2>1, SMT
    <3>2. V[count + 1] = buf'[idx]
      BY <2>4, <3>1
    <3> QED
      BY <1>1, <1>5, <3>2, Zenon
  <2>7. V = Append(W, score)
    <3>1. Len(V) = Len(W) + 1
      BY <1>6, <1>7, <2>1, Zenon
    <3>2. score \in Score \cup {Unset}
      OBVIOUS
    <3>3. \A j \in 1..Len(W) : V[j] = W[j]
      BY <1>6, <2>5, Zenon
    <3>4. V[Len(W) + 1] = score
      BY <1>6, <2>6, Zenon
    <3> QED
      BY <1>6, <1>7, <3>1, <3>2, <3>3, <3>4, Appended
  <2>8. size > 0 /\ Len(W) < size
    BY <1>1, <1>6, <1>10, SMT
  <2> QED
    BY <2>7, <2>8 DEF Observed!Observe, W, V
<1>11. CASE count = size
  <2>1. count' = size /\ size > 0 /\ ~(count < size)
    BY <1>1, <1>4, <1>11, SMT
  <2>2. ASSUME NEW j \in 1..size
        PROVE  W[j] = buf[IF idx + j - 1 < size THEN idx + j - 1
                          ELSE idx + j - 1 - size]
    <3>1. (idx + size - count + j - 1) % size
             = IF idx + j - 1 < size THEN idx + j - 1 ELSE idx + j - 1 - size
      BY <1>1, <1>11, Placed
    <3> QED
      BY <1>8, <1>11, <3>1, Zenon
  <2>3. ASSUME NEW j \in 1..size
        PROVE  V[j] = buf'[IF idx' + j - 1 < size THEN idx' + j - 1
                           ELSE idx' + j - 1 - size]
    <3> DEFINE i2 == idx'
    <3>1. i2 \in 0..(size - 1)
      BY <1>1, <1>3, SMT
    <3>2. V[j] = buf'[(i2 + size - size + j - 1) % size]
      BY <1>9, <2>1 DEF i2
    <3> HIDE DEF i2
    <3>3. (i2 + size - size + j - 1) % size
             = IF i2 + j - 1 < size THEN i2 + j - 1 ELSE i2 + j - 1 - size
      <4>1. size \in 0..size /\ ~(size < size)
        BY <1>1, SMT
      <4> QED
        BY <1>1, <3>1, <4>1, Placed
    <3>4. V[j] = buf'[IF i2 + j - 1 < size THEN i2 + j - 1
                      ELSE i2 + j - 1 - size]
      BY <3>2, <3>3, Zenon
    <3> QED
      BY <3>4 DEF i2
  <2>4. ASSUME NEW j \in 1..(size - 1) PROVE V[j] = W[j + 1]
    <3> DEFINE p == IF idx + j < size THEN idx + j ELSE idx + j - size
    <3>1. p \in 0..(size - 1) /\ p # idx
      BY <1>1, SMT
    <3>2. p = IF idx + (j + 1) - 1 < size THEN idx + (j + 1) - 1
              ELSE idx + (j + 1) - 1 - size
      BY <1>1, SMT
    <3>3. p = IF idx' + j - 1 < size THEN idx' + j - 1
              ELSE idx' + j - 1 - size
      BY <1>1, <1>3, SMT
    <3>4. j \in 1..size /\ j + 1 \in 1..size
      BY <1>1, SMT
    <3> HIDE DEF p
    <3>5. W[j + 1] = buf[p]
      BY <2>2, <3>2, <3>4
    <3>6. V[j] = buf'[p]
      BY <2>3, <3>3, <3>4
    <3> QED
      BY <1>5, <3>1, <3>5, <3>6, Zenon
  <2>5. V[size] = score
    <3>1. idx = IF idx' + size - 1 < size THEN idx' + size - 1
                ELSE idx' + size - 1 - size
      BY <1>1, <1>3, SMT
    <3>2. size \in 1..size
      BY <1>1, SMT
    <3>3. V[size] = buf'[idx]
      BY <2>3, <3>1, <3>2
    <3> QED
      BY <1>1, <1>5, <3>3, Zenon
  <2>6. V = Append(Tail(W), score)
    <3>1. Len(V) = Len(W) /\ Len(W) > 0 /\ Len(W) = size
      BY <1>6, <1>7, <1>11, <2>1, Zenon
    <3>2. score \in Score \cup {Unset}
      OBVIOUS
    <3>3. \A j \in 1..(Len(W) - 1) : V[j] = W[j + 1]
      BY <2>4, <3>1, Zenon
    <3>4. V[Len(W)] = score
      BY <2>5, <3>1, Zenon
    <3> QED
      BY <1>6, <1>7, <3>1, <3>2, <3>3, <3>4, Slid
  <2>7. ~(Len(W) < size)
    BY <1>6, <2>1, Zenon
  <2> QED
    BY <2>1, <2>6, <2>7 DEF Observed!Observe, W, V
<1> QED
  BY <1>1, <1>10, <1>11, SMT

(* Calibration that starts over empties the window. *)
LEMMA ResetRestarts ==
    ASSUME IInv', AdaptiveReset PROVE Observed!Restart
<1>1. (count = 0 => Window = << >>)'
  BY Windowed, PTL
<1> QED
  BY <1>1 DEF AdaptiveReset, Observed!Restart

(* A call that leaves the ring and the regime alone is not seen. *)
LEMMA Unseen ==
    ASSUME Regime' = Regime, UNCHANGED <<size, buf, count, idx>>
    PROVE  UNCHANGED <<Window, size, Regime>>
<1>1. Window' = Window
  BY Zenon DEF Window
<1> QED
  BY <1>1

(* Every call and every evaluation observes one score, starts the window   *)
(* over or leaves it alone.                                                *)
LEMMA StepObserves ==
    ASSUME IInv, IInv', [Next]_vars
    PROVE  Observed!Next \/ UNCHANGED <<Window, size, Regime>>
<1>1. ASSUME AdaptiveReset PROVE Observed!Next
  BY <1>1, ResetRestarts DEF Observed!Next
<1>2. CASE UNCHANGED vars
  <2>1. Regime' = Regime
    BY <1>2, Zenon DEF Regime, Bayesian, Ready
  <2> QED
    BY <1>2, <2>1, Unseen, Zenon
<1>3. ASSUME NEW t \in Thresholds, Enable(t) PROVE Observed!Next
  BY <1>1, <1>3, Zenon DEF Enable
<1>4. CASE Disable
  BY <1>1, <1>4, Zenon DEF Disable
<1>5. CASE SetFixed
  BY <1>1, <1>5, Zenon DEF SetFixed
<1>6. CASE Load
  BY <1>1, <1>6, Zenon DEF Load
<1>7. ASSUME NEW window \in Windows, SetAdaptive(window) PROVE Observed!Next
  BY <1>1, <1>7, Zenon DEF SetAdaptive
<1>8. ASSUME NEW w \in Weightings, SetWeights(w)
      PROVE  Observed!Next \/ UNCHANGED <<Window, size, Regime>>
  <2>1. CASE AdaptiveReset
    BY <1>1, <2>1
  <2>2. CASE UNCHANGED rolling /\ (w = weights \/ Bayesian)
    <3>1. Bayesian' = Bayesian
      BY <1>8, Zenon DEF SetWeights, Bayesian, Ready
    <3>2. Regime' = Regime
      BY <1>8, <2>2, <3>1, Zenon DEF SetWeights, Regime
    <3> QED
      BY <1>8, <2>2, <3>2, Unseen, Zenon DEF SetWeights
  <2> QED
    BY <1>8, <2>1, <2>2, Zenon DEF SetWeights
<1>9. ASSUME NEW k \in Factors, SetFactor(k)
      PROVE  UNCHANGED <<Window, size, Regime>>
  <2>1. Regime' = Regime
    BY <1>9, Zenon DEF SetFactor, Regime, Bayesian, Ready
  <2> QED
    BY <1>9, <2>1, Unseen, Zenon DEF SetFactor
<1>10. ASSUME NEW mode \in BOOLEAN, SetMode(mode)
       PROVE  Observed!Next \/ UNCHANGED <<Window, size, Regime>>
  <2>1. CASE AdaptiveReset
    BY <1>1, <2>1
  <2>2. CASE Bayesian' = Bayesian /\ UNCHANGED rolling
    <3>1. Regime' = Regime
      BY <1>10, <2>2, Zenon DEF SetMode, Regime
    <3> QED
      BY <1>10, <2>2, <3>1, Unseen, Zenon DEF SetMode
  <2> QED
    BY <1>10, <2>1, <2>2, Zenon DEF SetMode
<1>11. ASSUME NEW value \in Values, NEW finite \in SUBSET Components,
              Retain(value, finite)
       PROVE  Observed!Next \/ UNCHANGED <<Window, size, Regime>>
  <2>1. CASE AdaptiveReset
    BY <1>1, <2>1
  <2>2. CASE Bayesian' = Bayesian /\ adaptive /\ Combinable(finite)
    <3> DEFINE score == [model |-> model, by |-> Regime.by, value |-> value]
    <3>1. RecordScore(score) /\ model # NoModel
      BY <1>11, <2>2, Zenon DEF Retain
    <3>2. Regime' = Regime
      BY <1>11, <2>2, Zenon DEF Retain, Regime
    <3>3. Regime.by \in Weightings \cup {"odds"}
      BY SMT DEF Regime, IInv, TypeOK
    <3>4. model \in 0..MaxModel
      BY CalibrationAssumption, SMT DEF IInv, TypeOK
    <3>5. score \in Score /\ score.model = model /\ score.by = Regime.by
      BY <3>3, <3>4, SMT DEF Score
    <3> HIDE DEF score
    <3>6. UNCHANGED <<model, fixed, factor, adaptive, size>>
      BY <1>11, Zenon DEF Retain
    <3>7. Observed!Observe(score)
      BY <2>2, <3>1, <3>2, <3>5, <3>6, RecordObserves
    <3> QED
      BY <3>5, <3>7 DEF Observed!Next
  <2>3. CASE Bayesian' = Bayesian /\ UNCHANGED <<buf, rolling>>
    <3>1. Regime' = Regime
      BY <1>11, <2>3, Zenon DEF Retain, Regime
    <3> QED
      BY <1>11, <2>3, <3>1, Unseen, Zenon DEF Retain
  <2> QED
    BY <1>11, <2>1, <2>2, <2>3, Zenon DEF Retain
<1> QED
  BY <1>2, <1>3, <1>4, <1>5, <1>6, <1>7, <1>8, <1>9, <1>10, <1>11, Zenon
     DEF Next

(* The ring buffer behind the adaptive threshold always holds the latest   *)
(* scores of one regime, at most a window of them, through every wrap and  *)
(* every call that starts over (adaptive_record_score, adaptive_reset).    *)
THEOREM RingIsWindow == Spec => ImplementsScoreWindow
<1>1. Init => Observed!Init
  BY Initially, Windowed, Zenon DEF Init, Observed!Init
<1>2. IInv /\ IInv' /\ [Next]_vars =>
          [Observed!Next]_<<Window, size, Regime>>
  BY StepObserves
<1> QED
  BY <1>1, <1>2, Invariance, PTL
     DEF Spec, ImplementsScoreWindow, Observed!Spec, Observed!vars
===============================================================================
