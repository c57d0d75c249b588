------------------------------ MODULE BrowserView ------------------------------
(***************************************************************************)
(* What a person in front of the local web page is promised: the page       *)
(* shows states the chat really was in, and a page that is connected shows  *)
(* the newest one in the end, however the states were carried to it.        *)
(***************************************************************************)
EXTENDS Naturals

CONSTANTS Pages,    \* browser tabs
          Gone,     \* the tab is closed, or says the local service is away
          Blank     \* connected, nothing shown yet

VARIABLES state,    \* how many changes the chat's state has seen
          view      \* per page: Gone, Blank, or the state it shows

vars == <<state, view>>

Init == state = 0 /\ view = [p \in Pages |-> Gone]

Change == state' = state + 1 /\ UNCHANGED view

Join(p) == view[p] = Gone /\ view' = [view EXCEPT ![p] = Blank] /\ UNCHANGED state
Leave(p) == view' = [view EXCEPT ![p] = Gone] /\ UNCHANGED state

Show(p) == /\ view[p] # Gone
           /\ \E s \in 0..state : view' = [view EXCEPT ![p] = s]
           /\ UNCHANGED state

\* A connected page is behind; it catches up, or is told that it cannot.
Settle(p) == /\ view[p] \notin {Gone, state}
             /\ \E s \in {Gone, state} : view' = [view EXCEPT ![p] = s]
             /\ UNCHANGED state

Next == Change \/ \E p \in Pages : Join(p) \/ Leave(p) \/ Show(p)

Spec == Init /\ [][Next]_vars /\ \A p \in Pages : WF_vars(Settle(p))
================================================================================
