------------------------------- MODULE MCGear -------------------------------
(***************************************************************************)
(* A small instance of GearDimmer: a unit set up for levels 248 to 254,    *)
(* where a level counts up past 255 soon, and in all groups but 8 and 9.   *)
(***************************************************************************)
EXTENDS GearDimmer, TLC

MCStored ==
    One("min_level") :> 248 @@ One("max_level") :> 254 @@ One("power_on_level") :> 251
    @@ One("fade_rate") :> 10 @@ One("short_address") :> 5
    @@ Gear(0) :> 255 @@ Gear(1) :> 252

\* A last byte of 14 makes a fade rate without a whole level in 200 ms.
MCRandoms == {<<252, 252, 252, 14>>}
=============================================================================
