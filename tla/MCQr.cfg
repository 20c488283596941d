SPECIFICATION Spec
CHECK_DEADLOCK FALSE
CONSTANT Jobs <- MCJobs
INVARIANTS SymbolDecodes BestVersionAndLevel BestMask ScreenShowsSymbol
