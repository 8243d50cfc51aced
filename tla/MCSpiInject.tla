---------------------------- MODULE MCSpiInject ----------------------------
(* Three-bit bytes and a frame counter of three: first, middle and last     *)
(* bit, first, inner and last frame before the counter wraps.               *)
EXTENDS SpiInject

MCTargets == { <<0, 2>>, <<1, 0>>, <<2, 1>> }
MCTargetsDeep == { <<1, 0>>, <<2, 1>> }
=============================================================================
