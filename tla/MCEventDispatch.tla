-------------------------- MODULE MCEventDispatch --------------------------
(* EventDispatch with more clients than descriptors, so that descriptors   *)
(* are used again and accept fails.                                        *)
EXTENDS EventDispatch
=============================================================================
