------------------------- MODULE MCActiveDirectory -------------------------
(* Model-checking instance of ActiveDirectory: two monitor thread slots    *)
(* (a cancelled thread can still be running when the next one starts)     *)
(* and two winbindd status messages.                                       *)
EXTENDS ActiveDirectory

MCMaxRequests == 2

MCMaxThreads == 2
MCMaxMsgs == 2
=============================================================================
