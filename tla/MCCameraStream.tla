--------------------------- MODULE MCCameraStream ---------------------------
(* The camera stream with two pictures.                                    *)
EXTENDS CameraStream
CONSTANTS p1, p2, junk
MCFrames == {p1, p2}
MCJunk   == junk
=============================================================================
