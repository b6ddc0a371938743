-------------------------- MODULE MC_SessionManager --------------------------
(* Small instance of SessionManager: one session id, two Session objects   *)
(* (so a failed create can be followed by a second one), two computations, *)
(* two HTTP worker threads.                                                *)
EXTENDS SessionManager

CONSTANTS s1, o1, o2, c1, c2, h1, h2

MCSessionIds == {s1}
MCObjs == {o1, o2}
MCComps == {c1, c2}
\* the configs of spec scenario "modify shrink-then-grow", on two comps
MCConfigs == {{c1, c2}, {c2}}
MCHandlers == {h1, h2}
=============================================================================
