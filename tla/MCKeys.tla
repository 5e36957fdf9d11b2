--------------------------------- MODULE MCKeys ---------------------------------
(***************************************************************************)
(* KeyRouting with the four SOCD keys of user_function.c and one key more. *)
(***************************************************************************)
EXTENDS KeyRouting, TLC

MCOpposite == ("W" :> "S") @@ ("S" :> "W") @@ ("A" :> "D") @@ ("D" :> "A")
================================================================================
