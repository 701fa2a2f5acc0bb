------------------------------- MODULE MCTOTP -------------------------------
(* TOTP instantiated for TLC: New with the default and with a short time   *)
(* step, Verify with stepsBack below, inside and above 1..DefStepsBack.    *)
EXTENDS TOTP

MCTimeStepArgs == {0, 2}
MCStepsBackArgs == {0, 1, 2, DefStepsBack, DefStepsBack + 1}
MCNArgs == {1, 3, DefStepsBack}
=============================================================================
