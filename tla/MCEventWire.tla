---------------------------- MODULE MCEventWire ----------------------------
(***************************************************************************)
(* Instances of EventWire for TLC: calls of every type, with paths shorter *)
(* than, as long as and longer than their field, in any order.             *)
(***************************************************************************)
EXTENDS EventWire

CONSTANTS conn, acc, long, edge, short, run

MCTypeOf == [c \in Calls |-> IF c = conn THEN "connect" ELSE IF c = acc THEN "accept"
                             ELSE IF c = run THEN "exec" ELSE "open"]
MCTextLen == [c \in Calls |->
    [f \in Texts |-> IF f # "filepath" THEN (IF c = run THEN 15 ELSE 3)
                     ELSE IF c = long THEN 300 ELSE IF c = edge THEN 255 ELSE 5]]
=============================================================================
