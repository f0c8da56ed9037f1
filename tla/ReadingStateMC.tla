--------------------------- MODULE ReadingStateMC ---------------------------
(* Small instances of ReadingState for TLC.                                *)
EXTENDS ReadingState

CONSTANTS d1, d2

Setup(cached, devices, selected, start, end) ==
  [enabled |-> cached, device |-> devices, selected |-> selected, window |-> [start |-> start, end |-> end]]

\* The runtime doubles the array of a short slice.
Doubling == <<1, 2, 4>>

\* With the cache, one device and each kind of window; without it, several devices,
\* and a Read beside the dump.
SomeSetups ==
  {Setup(TRUE, <<d1, d1, d1>>, {}, w[1], w[2]) :
     w \in {<<Unbounded, Unbounded>>, <<Unbounded, 1>>, <<2, Unbounded>>, <<2, 2>>, <<Malformed, 2>>}}
  \cup {Setup(FALSE, devices, {d1, d2}, Unbounded, Unbounded) :
          devices \in {<<d1, d2, d1>>, <<d1, d2, d2>>}}
=============================================================================
