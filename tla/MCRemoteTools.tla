---------------------------- MODULE MCRemoteTools ----------------------------
(* A small instance of RemoteTools for TLC: two projects with two configs, *)
(* one of them written to.                                                 *)
EXTENDS RemoteTools, TLC

CONSTANTS core, other, prd, dev, old, new, v1, v2

TwoProjects == <<core, other>>
TwoConfigs  == <<prd, dev>>
OnePlace    == {<<core, prd>>}

(* Doppler shows no raw value of `new`, in whatever place. *)
AllNew == Places \X {new}

(* Names spread over the places: copies of `old` that are equal and        *)
(* different, and different ones of the restricted `new`.                  *)
SomeStores ==
    LET Only(n, v) == [m \in {old, new} |-> IF m = n THEN v ELSE NoValue]
    IN  {    <<core, prd>>  :> Only(old, v1)
          @@ <<core, dev>>  :> Only(new, v1)
          @@ <<other, prd>> :> Only(old, v2)
          @@ <<other, dev>> :> [Only(old, v1) EXCEPT ![new] = v2] }

CallSymmetry == Permutations(Calls)
==============================================================================
