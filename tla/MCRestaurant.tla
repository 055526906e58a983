---------------------------- MODULE MCRestaurant ----------------------------
(* The restaurant with four diner threads and tables for two.             *)
EXTENDS Restaurant
=============================================================================
