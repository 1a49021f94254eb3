-------------------------- MODULE MCEpisodicMemory --------------------------
(* Instances of EpisodicMemory for TLC.                                    *)
EXTENDS EpisodicMemory

TwoSaliences == 0..1
=============================================================================
