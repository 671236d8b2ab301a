------------------------------ MODULE MCCoreQuit ------------------------------
(* Small instances of CoreQuit for TLC. *)
EXTENDS CoreQuit

CONSTANTS main, audio, SIGTERM, SIGINT

\* kExitCodeHelp, kExitCodeAudioProblem, kExitCodeSIGTERM, kExitCodeSIGINT
ExitCodes == [f \in Frames |-> CASE f = main    -> 100
                                 [] f = audio   -> 200
                                 [] f = SIGTERM -> 101
                                 [] f = SIGINT  -> 102]
=============================================================================
