----------------------- MODULE MCDestinationCapacity -----------------------
(* DestinationCapacity on a small instance: three executors share da, one  *)
(* of them with two runs, and the run of the third also needs db.  The     *)
(* budget of r5 overflows with the grace.                                  *)
EXTENDS DestinationCapacity, TLC
CONSTANTS e1, e2, e3, da, db, r1, r2, r3, r4, r5

MCOwner == r1 :> e1 @@ r2 :> e2 @@ r3 :> e3 @@ r4 :> e1 @@ r5 :> e2
MCRoute == r1 :> <<da>> @@ r2 :> <<da, da>> @@ r3 :> <<db, da>> @@ r4 :> <<da>> @@ r5 :> <<da>>
MCFloor == r1 :> 1 @@ r2 :> 0 @@ r3 :> 1 @@ r4 :> 1 @@ r5 :> 1
MCCeil  == r1 :> 2 @@ r2 :> 1 @@ r3 :> 2 @@ r4 :> 1 @@ r5 :> 1
MCStart == r1 :> 0 @@ r2 :> 0 @@ r3 :> 2 @@ r4 :> 2 @@ r5 :> 0
MCTimeout == r1 :> 1 @@ r2 :> 1 @@ r3 :> 1 @@ r4 :> 0 @@ r5 :> 7
MCExecCapacity == [e \in {e1, e2, e3} |-> 2]
============================================================================
