------------------------------- MODULE MCBus --------------------------------
(***************************************************************************)
(* Instances of Bus: the rooms of the connectors from min_capacity to      *)
(* max_capacity.                                                           *)
(***************************************************************************)
EXTENDS Bus

ThreeOfOne == <<1, 1, 1>>
ThreeOfTwo == <<2, 2, 2>>
=============================================================================
