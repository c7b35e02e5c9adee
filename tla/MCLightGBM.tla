----------------------------- MODULE MCLightGBM -----------------------------
(***************************************************************************)
(* Two parts of a training campaign that meet through files only, side by  *)
(* side: a behaviour is one governed job or one selection.                 *)
(***************************************************************************)
EXTENDS GovernedJob, ModelSelection

VARIABLE scene

allVars == <<vars, selVars, scene>>

LightInit == Init /\ SelInit /\ scene \in {"job", "selection"}

LightNext ==
    /\ UNCHANGED scene
    /\ \/ scene = "job" /\ Next /\ UNCHANGED selVars
       \/ scene = "selection" /\ SelNext /\ UNCHANGED vars

\* The fair actions of a job are not enabled before one is created.
LightSpec == LightInit /\ [][LightNext]_allVars /\ Fairness
=============================================================================
