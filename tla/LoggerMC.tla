----------------------------- MODULE LoggerMC -----------------------------
(* Two LoggerImpl objects, which is all that g_init_mutex lets exist.      *)
EXTENDS Logger

CONSTANTS impl1, impl2

MCImpls == {impl1, impl2}
===========================================================================
