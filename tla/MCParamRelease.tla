--------------------------- MODULE MCParamRelease ----------------------------
\* Two runs of the workflow or of gen_params by hand, which are alike, and repositories of
\* which some had drifted to an id that the consistency check does not know as retired,
\* and one to an id that it does.
EXTENDS ParamRelease, TLC

CONSTANTS Unlisted, Listed

MCFirst == [repo \in Repos |-> [p \in Places[repo] |->
  CASE p \in {"test", "PK_URL", "schema"} -> Unlisted
    [] p \in {"JSDoc"} -> Listed
    [] OTHER -> None]]

\* Nothing had drifted.
MCLevel == [repo \in Repos |-> [p \in Places[repo] |-> None]]

Symmetry == Permutations(Runs)
=============================================================================
