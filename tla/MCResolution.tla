---- MODULE MCResolution ----
(* Small instances of Resolution: one identity per source, a pair the rules match *)
(* and a pair for the model.                                                      *)
EXTENDS Resolution

Sources == [x \in Ids |-> CASE x = 1 -> "hacknation" [] x = 2 -> "openalex_author" [] OTHER -> "github"]
GuardedSources == {"github", "hacknation"}
AutoPairs == {{1, 2}}
BandPairs == {b \in {{2, 3}} : b \subseteq Ids}
====
