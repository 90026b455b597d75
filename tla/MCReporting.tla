----------------------------- MODULE MCReporting -----------------------------
(* Reporting on small instances for TLC.                                    *)
EXTENDS Reporting, TLC

CONSTANTS o1, o2, i1, i2, t1, t2, food, drinks

MCAmount   == i1 :> 5 @@ i2 :> 3
MCQuantity == i1 :> 1 @@ i2 :> 2
MCTableOf  == o1 :> t1 @@ o2 :> t2
MCCategoryOf == i1 :> food @@ i2 :> drinks
=============================================================================
