--------------------------------- MODULE MCCEP ---------------------------------
EXTENDS CEP
MCVals == {-1, 1}
MCPatterns == {"ab", "abc", "aa", "rising", "Star", "Plus", "Question", "Restricted", "negated", "negatedTwice", "negatedEnd"}
=============================================================================
