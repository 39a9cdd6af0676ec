--------------------------- MODULE MCClientFocus ---------------------------
(* Small instances of ClientFocus for TLC. *)
EXTENDS ClientFocus, TLC

CONSTANTS w1, w2, t1, t2

OneWindow  == {w1}
TwoWindows == {w1, w2}
OneTag     == {t1}
TwoTags    == {t1, t2}

Symmetric == Permutations(Windows) \cup Permutations(Tags)

\* banning_refresh, client_refresh: a client that stays visible is unbanned at
\* last, and a refresh brings no client back that Lua minimized or hid, except the
\* one that has the focus.
ShownAndKept == VisibleIsUnbanned /\ RefreshKeepsIconic
=============================================================================
