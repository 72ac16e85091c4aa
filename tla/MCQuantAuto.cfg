SPECIFICATION Spec
CONSTANTS
    Registry <- MCRegistry
    ProbeRates <- MCProbeRates
    MeasureRates <- MCMeasureRates
    Callers = {"create", "select", "python", "python_auto"}
    MaxCalls = 2
CHECK_DEADLOCK FALSE
INVARIANTS ReportsLoaded NoBaselineKeepsNamed NothingClearlyFaster
