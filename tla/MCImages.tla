------------------------------ MODULE MCImages ------------------------------
(* Images.tla for TLC: a grayscale, two rotations that differ in `expand`   *)
(* only, a rotation without its angle, and a blur.                          *)
EXTENDS Images, TLC

Given(fields) == fields @@ [f \in Field |-> Unset]

Rotation(given) == [type |-> "rotate", given |-> Given(given)]

MCBody == {[type |-> "grayscale", given |-> Given(<<>>)],
           Rotation("angle" :> "90" @@ "expand" :> "no"),
           Rotation("angle" :> "90" @@ "expand" :> "yes"),
           Rotation("expand" :> "yes"),
           [type |-> "blur", given |-> Given("blur_mode" :> "box" @@ "blur_radius" :> "5")]}

Symmetry == Permutations(Name) \cup Permutations(Request)
=============================================================================
