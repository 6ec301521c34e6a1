--------------------------------- MODULE Scenes ---------------------------------
(***************************************************************************)
(* The administration modules are independent of one another, and so are   *)
(* the parts of some of them.  A behaviour is about one part, its scene.   *)
(***************************************************************************)
EXTENDS Requests

VARIABLE scene

On(s) == scene = s /\ UNCHANGED scene
================================================================================
