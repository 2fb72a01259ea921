----------------------------- MODULE MCMainLoop -----------------------------
(* Small instances of the main loop and the input channel for TLC.         *)
EXTENDS MainLoop, TLC

CONSTANTS a, b

\* A user who overruns the ring, one who overwrites a button event, and one who
\* overwrites a turn of the wheel.
MCLeads == {[keys |-> 3, mouse |-> 0, wheel |-> 0],
            [keys |-> 0, mouse |-> 2, wheel |-> 0],
            [keys |-> 0, mouse |-> 0, wheel |-> 2]}

\* Two places in the top bar, one in the page.
MCHit == <<0, 0>> :> a @@ <<1, 0>> :> "bar" @@ <<0, 1>> :> "reload" @@ <<1, 1>> :> "body"
=============================================================================
