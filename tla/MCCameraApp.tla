---------------------------- MODULE MCCameraApp ----------------------------
(***************************************************************************)
(* Two networks: one POST moves the camera from its access point to a      *)
(* network, another one back, and a setup tries a network of its own.      *)
(***************************************************************************)
EXTENDS CameraApp

CONSTANTS home, cafe

MCBodies == {[ap |-> FALSE, net |-> home, sta |-> TRUE], [ap |-> TRUE, net |-> home, sta |-> FALSE]}
=============================================================================
