-------------------------- MODULE MCCommandLifecycle ---------------------------
(* An instance of CommandLifecycle: two commands, the first an install, the     *)
(* second an install of another APK, or a test.                                 *)
EXTENDS CommandLifecycle, TLC

CONSTANTS c1, c2, x1, x2

InstallAndAnother == {c1 :> x1 @@ c2 :> a : a \in {x2, None}}
================================================================================
