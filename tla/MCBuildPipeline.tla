-------------------------- MODULE MCBuildPipeline --------------------------
(* Instances of BuildPipeline for TLC.                                     *)
EXTENDS BuildPipeline

FullRun   == Steps
TrainOnly == {"generate", "train"}

FullAndTrain == {FullRun, TrainOnly}
FullOnly     == {FullRun}
BothModes    == {TRUE, FALSE}
=============================================================================
