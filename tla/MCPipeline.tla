----------------------------- MODULE MCPipeline -----------------------------
(***************************************************************************)
(* Instances of Pipeline for TLC: connections c1, c2, c3 and a local event *)
(* f.  The containers web and proxy are known from the start, db, which    *)
(* alone has the prefix of the filter, becomes known later or never.  db   *)
(* is the destination of c1 and the source of c2 and of f; c3 has two      *)
(* known ends and no prefix.  The connections are read in one order, c3    *)
(* between the others, and f may come anywhere.                            *)
(***************************************************************************)
EXTENDS Pipeline

CONSTANTS c1, c2, c3, f, web, proxy, db

MCSrcOf == [e \in Events |-> IF e \in {c2, f} THEN db ELSE web]
MCDstOf == [e \in Events |-> IF e = c1 THEN db ELSE IF e = f THEN NoContainer ELSE proxy]

\* The order in which the connections are read.
MCOrder == <<c1, c3, c2>>
InOrder == \A i, j \in 1..3 : i < j /\ MCOrder[i] \in unread => MCOrder[j] \in unread
=============================================================================
