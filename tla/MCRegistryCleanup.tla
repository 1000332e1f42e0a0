------------------------- MODULE MCRegistryCleanup -------------------------
(* An instance of RegistryCleanup for TLC: two repositories with two tags   *)
(* each, one of which matches.                                              *)
EXTENDS RegistryCleanup

CONSTANTS r1, r2, t1, t2, d1, d2

TwoRepos == {r1, r2}
TwoTags == {t1, t2}
TwoDigests == {d1, d2}
FirstRepo == {r1}
FirstTag == {t1}

=============================================================================
