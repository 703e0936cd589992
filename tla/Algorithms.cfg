SPECIFICATION Spec
CONSTANTS
    NoOne = none
    Zero = zero
    Stale = stale
    VocabSize = 3
INVARIANTS
    PooledAsIfAlone
    PromptLogprobsRight
    MaskedAsAsked
    BansHold
    SampledAsIfAlone
    TopKTopPExact
    RoutedToOwnExperts
    LoadedModelSame
    ExpertLayersReplaced
    OverridesUndone
    CompiledAsWritten
CHECK_DEADLOCK FALSE
