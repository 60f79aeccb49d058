--------------------------- MODULE EngramService ---------------------------
(***************************************************************************)
(* What disk-backed Engram staging promises to the model: the forward of    *)
(* every staged step reads, for each of the step's tokens and each Engram   *)
(* layer, exactly the row its n-gram hash names (zeros when another rank    *)
(* owns the row), steps are served in the order in which they were          *)
(* prepared, and once a read has failed nothing more is served.             *)
(* EngramStage.tla is shown to implement this specification.                *)
(***************************************************************************)
EXTENDS Naturals, Sequences

CONSTANTS
  Input,      \* what a step may carry: its tokens, in batch order
  RowsOf(_)   \* the rows the forward of a step with that input must read

VARIABLES
  asked,      \* inputs of the staged steps prepared so far, in order
  served,     \* what the forwards executed so far have read, in order
  broken      \* TRUE once a disk read has failed

vars == <<asked, served, broken>>

Init ==
  /\ asked = <<>>
  /\ served = <<>>
  /\ broken = FALSE

\* A step is prepared. Steps may be prepared while earlier ones still wait for
\* the device, so "asked" runs ahead of "served".
Ask(x) ==
  /\ ~broken
  /\ asked' = Append(asked, x)
  /\ UNCHANGED <<served, broken>>

\* The oldest unserved step's forward reads its rows.
Serve ==
  /\ Len(served) < Len(asked)
  /\ broken => Len(served) + 1 < Len(asked)
  /\ served' = Append(served, RowsOf(asked[Len(served) + 1]))
  /\ UNCHANGED <<asked, broken>>

\* A read of the newest step fails: that step is never served.
Break ==
  /\ ~broken
  /\ Len(served) < Len(asked)
  /\ broken' = TRUE
  /\ UNCHANGED <<asked, served>>

Next == Serve \/ Break \/ \E x \in Input : Ask(x)

Spec == Init /\ [][Next]_vars
=============================================================================
