\* Every number of six bits.
SPECIFICATION ScoreSpec
INVARIANT SixBitsShown
