-------------------------- MODULE MCAudioIngestion --------------------------
(***************************************************************************)
(* Three threads on one exchange: one that controls, one that sends audio, *)
(* one that cleans up.  Two sessions and two detectors, so that a session  *)
(* is started or resumed again; two chunks, one window apart, that arrive  *)
(* in either order.                                                        *)
(***************************************************************************)
EXTENDS AudioIngestion

MCSessions == 1 .. 2
MCDetectors == 1 .. 2
MCChunks == 1 .. 2
MCStamp == <<0, 500>>
=============================================================================
