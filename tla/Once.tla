--------------------------------- MODULE Once ---------------------------------
(***************************************************************************)
(* An aid for model checking. In a step TLC evaluates what a definition or *)
(* a parameter stands for at every use; Once(x, F) is F(x) with x          *)
(* evaluated once.                                                         *)
(***************************************************************************)

Once(x, F(_)) == CHOOSE y \in {F(v) : v \in {x}} : TRUE

=============================================================================
