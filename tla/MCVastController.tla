-------------------------- MODULE MCVastController --------------------------
(* Instance of VastController for TLC.                                     *)
EXTENDS VastController
=============================================================================
