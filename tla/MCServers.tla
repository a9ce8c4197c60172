------------------------------ MODULE MCServers ------------------------------
(* A group of two, one server alone and one of startServer; three of them are   *)
(* given the same plugin.                                                    *)
EXTENDS Servers

CONSTANTS a, b, e, m, lua, s1, s2, s3

MCGroup == <<a, b>>
MCPluginOf == [s \in {a, b, e, m} |-> IF s \in {b, e, m} THEN lua ELSE NoPlugin]
MCSize == [s \in {s1, s2, s3} |-> IF s = s3 THEN 2 ELSE 1]
===============================================================================
