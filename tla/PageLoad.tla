------------------------------ MODULE PageLoad ------------------------------
(***************************************************************************)
(* What a navigation promises to the rest of the browser: it clears the    *)
(* page, and when it is over the URL bar names the place the browser is at *)
(* and the text is of that place or says why there is none.  Two cases are *)
(* let through because the program has them: a host that cannot be reached *)
(* leaves the old URL bar, and when the redirects a navigation may follow  *)
(* are spent the text shown is that of the page that leads on.             *)
(***************************************************************************)
CONSTANTS Nowhere,         \* while a navigation goes on
          Blank, Message,  \* texts that are of no place
          BarOf(_),        \* the text of the URL bar for a place
          Leads(_, _)      \* a redirect of one place can lead to the other

VARIABLES place,  \* where the browser is
          bar,    \* what its URL bar says
          text,   \* what the page shows: a message or the text of a place
          spent   \* whether the redirects were used up

vars == <<place, bar, text, spent>>

Clear ==
    /\ place # Nowhere
    /\ place' = Nowhere /\ text' = Blank /\ spent' = FALSE
    /\ UNCHANGED bar

Show ==
    /\ place = Nowhere /\ place' # Nowhere
    /\ bar' = BarOf(place')
    /\ \/ text' \in {Blank, Message, place'}
       \/ spent' /\ Leads(text', place')

Fail ==
    /\ place = Nowhere /\ place' # Nowhere
    /\ text' = Message
    /\ UNCHANGED bar

Init == place # Nowhere /\ text = Blank /\ ~spent

Spec == Init /\ [][Clear \/ Show \/ Fail]_vars
=============================================================================
