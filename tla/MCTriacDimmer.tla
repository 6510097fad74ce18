--------------------------- MODULE MCTriacDimmer ----------------------------
(* Instances of TriacDimmer for TLC.                                       *)
EXTENDS TriacDimmer, TLC

CONSTANTS t1, t2

Tasks    == {t1, t2}
Symmetry == Permutations(Tasks)

\* The operations dali_callback calls as the firmware is built; all of them;
\* what two comments need.
AsBuilt  == {"arc", "off"}
AllOps   == {"arc", "off", "up", "down", "step_up", "step_down"}
ArcUp    == {"arc", "up"}
ArcOnly  == {"arc"}

\* Below, between and above the limits in use.
NearLevels == {20, 127, 129}
HighLevels == {250}
=============================================================================
