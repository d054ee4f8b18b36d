-------------------------- MODULE MCActivityClassifier --------------------------
(* ActivityClassifier with sets of models for TLC.                         *)
EXTENDS ActivityClassifier

(* No models, one with a short window, two with a longer one.              *)
ThreeSets ==
  {NoModels, [models |-> 1, window |-> 2], [models |-> 2, window |-> 3]}

(* The first state after a start that was not calm is checked, and what    *)
(* follows is not: calm stays false, so nothing more is claimed of it than *)
(* its types, which are proved.                                            *)
UpToTheFirstRestlessStart == calm

===============================================================================
