--------------------------- MODULE MCCheckpoints ---------------------------
(***************************************************************************)
(* Bounds for model checking Checkpoints.                                  *)
(***************************************************************************)
EXTENDS Checkpoints, TLC

\* Bounds of the one-at-a-time run: two engine commands and two proposals of
\* the session around a restart, three decisions.
SerialLimit ==
    ("call" :> 2) @@ ("status" :> 2) @@ ("respond" :> 3) @@ ("slash" :> 0)
    @@ ("kill" :> 0) @@ ("restart" :> 1)

\* Bounds of the parallel run.
ParallelLimit ==
    ("call" :> 2) @@ ("status" :> 1) @@ ("respond" :> 2) @@ ("slash" :> 1)
    @@ ("kill" :> 1) @@ ("restart" :> 1)

\* Neither the slots nor the engine's stages are told apart.
StageSymmetry == Permutations(EngineStages)
CallSymmetry  == Permutations(Calls) \cup StageSymmetry
=============================================================================
