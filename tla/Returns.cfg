SPECIFICATION Spec
INVARIANT AnalysisSound
PROPERTIES NothingRepeated CallsReturn AttemptSettles ShutdownEnds
