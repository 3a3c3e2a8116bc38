----------------------------- MODULE MCDashboard -----------------------------
(* An instance of Dashboard for TLC: a tab that can send two requests, and  *)
(* a client of the API with one.                                            *)
EXTENDS Dashboard

CONSTANTS q1, q2, q3, ann, bob, operator, tab

Tokens == [q \in Requests |-> IF q = q3 THEN bob ELSE ann]
Names  == [q \in Requests |-> operator]
Sends  == [t \in Tabs |-> Requests \ {q3}]
==============================================================================
