---------------------------- MODULE MCDeleteSync ----------------------------
EXTENDS DeleteSync

CONSTANTS friend, owner, film, drama, other

MCConfigs ==
    {[mode |-> "watchlist", trackedOnly |-> TRUE], [mode |-> "tag-based", trackedOnly |-> FALSE]}
MCWanted == {<<owner, film>>, <<friend, drama>>}
=============================================================================
