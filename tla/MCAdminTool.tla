---------------------------- MODULE MCAdminTool ----------------------------
(***************************************************************************)
(* Two commands and two publications at a time, each pair interchangeable, *)
(* three keys and two tokens.                                              *)
(***************************************************************************)
EXTENDS AdminTool, TLC

Symmetry == Permutations(Commands) \cup Permutations(Deploys)

=============================================================================
