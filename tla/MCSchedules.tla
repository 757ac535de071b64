---------------------------- MODULE MCSchedules ----------------------------
(* Instances of Schedules for TLC. *)
EXTENDS Schedules

\* Names that cannot be confused: "orders" and "users", "daily" and "weekly-full".
TwoInstances == {<<"orders">>, <<"users">>}
TwoSchedules == {<<"daily">>, <<"weekly", "full">>}

\* "shop" with schedule "eu-daily", and "shop-eu" with schedule "daily".
NestedInstances == {<<"shop">>, <<"shop", "eu">>}
NestedSchedules == {<<"daily">>, <<"eu", "daily">>}
=============================================================================
