SPECIFICATION Spec
CONSTANTS
    Values = {1, 2}
    Weightings = {"both", "raw"}
    Weighed <- MCWeighed
    DefaultWeights = "both"
    Thresholds = {1}
    Factors = {3, 4}
    DefaultFactor = 3
    Windows = {1, 3}
    CdfMin = 2
    MaxSamples = 3
    MaxModel = 2
INVARIANTS SingleRegime ThresholdCurrent HistogramsCurrent
PROPERTIES KeepsCalibration ImplementsScoreWindow
