---------------------------- MODULE MCThreadPool ----------------------------
EXTENDS ThreadPool, TLC

\* tp_deinit() alone
Deinit == {<<"stop", "join", "free">>}

\* tp_deinit() alone, after tp_stop(), or after tp_stop() and tp_join()
AnyShutdown ==
  Deinit \cup {<<"stop", "stop", "join", "free">>,
               <<"stop", "join", "stop", "join", "free">>}

Symmetry == Permutations(Workers) \cup Permutations(Tasks) \cup Permutations(Markers)
=============================================================================
