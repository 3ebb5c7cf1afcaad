--------------------------- MODULE MCWorktreeInstall ---------------------------
(***************************************************************************)
(* Small instances of WorktreeInstall.  Runs are interchangeable.          *)
(***************************************************************************)
EXTENDS WorktreeInstall, TLC

\* The repository moves once: a bound of the moves run.
OneWay == {<<"here", "there">>}

Symmetry == Permutations(Run)

================================================================================
