--------------------------- MODULE MCLearningLoop ---------------------------
(* LearningLoop for TLC.                                                   *)
EXTENDS LearningLoop, TLC
=============================================================================
