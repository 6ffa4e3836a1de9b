---------------------------- MODULE MCAimContainer ----------------------------
(***************************************************************************)
(* Probe settings for TLC: omitted, a delay of zero, a higher threshold,    *)
(* disabled, and a success threshold other than one.                        *)
(***************************************************************************)
EXTENDS AimContainer

Defaults == [initialDelay |-> 30, period |-> 10, successThreshold |-> 1,
             failureThreshold |-> 3, disable |-> FALSE]

AllProbes ==
    {NoProbe, [Defaults EXCEPT !.initialDelay = 0], [Defaults EXCEPT !.failureThreshold = 4],
     [Defaults EXCEPT !.disable = TRUE], [Defaults EXCEPT !.successThreshold = 2]}

\* init.sh takes 5, 15 or 35 seconds.
StartTimes == {1, 3, 7}
===============================================================================
