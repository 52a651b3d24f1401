---------------------------- MODULE MCPhysicalDemo ----------------------------
(* Three runs in one directory, and a camera that sees the expected        *)
(* marker, another one, or none.                                           *)
EXTENDS PhysicalDemo

MCTask == "physical-demo-001"

(* A repository that lies in a data directory itself.                      *)
MCProjectRoot == <<"", "data", "valera">>
================================================================================
