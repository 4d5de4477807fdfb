--------------------------- MODULE MCControlPlane ---------------------------
(***************************************************************************)
(* Small instances of ControlPlane.  One run checks the safety properties  *)
(* in two scenarios: what is durable, with crashes and token refreshes but *)
(* without traffic, and what happens to generations, with traffic and a    *)
(* long operation but one credential and no crash.                         *)
(***************************************************************************)
EXTENDS ControlPlane

VARIABLE scenario

Symmetry == Permutations(Traffic) \cup Permutations(Editors) \cup Permutations(Secrets)

\* The credentials that exist, existed, or are asked for
Mentioned == live \cup spent \cup UNION {goal[a] : a \in Actors}

WithinBounds ==
    CASE scenario = "durable" ->
           /\ \A t \in Traffic : pin[t] = 0
           /\ \A o \in Operations : pc[o] = "idle"
      [] scenario = "generations" ->
           /\ crashes = 0 /\ stamp = 0
           /\ Cardinality(Mentioned) <= 1
           /\ Cardinality({a \in Actors : pc[a] # "idle"}) <= 2

ScenarioInit == Init /\ scenario \in {"durable", "generations"}

ScenarioSpec ==
    /\ ScenarioInit
    /\ [][Next /\ UNCHANGED scenario /\ WithinBounds']_<<vars, scenario>>

LiveInit == Init /\ scenario = "live"

LiveSpec ==
    /\ LiveInit
    /\ [][Next /\ UNCHANGED scenario]_<<vars, scenario>>
    /\ Fairness
=============================================================================
