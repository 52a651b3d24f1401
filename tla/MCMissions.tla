------------------------------ MODULE MCMissions ------------------------------
(* Three missions over one runtime, so that one can break off between two  *)
(* that return, and a camera that has frames for all of them.              *)
EXTENDS Missions

MCTask == "task-001"
================================================================================
