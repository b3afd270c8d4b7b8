--------------------------- MODULE ChargeHysteresis ---------------------------
(***************************************************************************)
(* src/chargehysteresis.h: a charger that goes on below L and off above H. *)
(***************************************************************************)
EXTENDS Integers

CONSTANTS L, H

VARIABLES
  charging,
  turnedat      \* auxiliary: the value that turned it on or off last, or
                \* None

vars == <<charging, turnedat>>

None == "none"

Init == charging = FALSE /\ turnedat = None

update(value) ==
  /\ charging' = IF value < L THEN TRUE
                 ELSE IF value > H THEN FALSE
                 ELSE charging
  /\ turnedat' = IF charging' = charging THEN turnedat ELSE value

Next == \E value \in Int : update(value)

Spec == Init /\ [][Next]_vars
-----------------------------------------------------------------------------
Apart(a, b) == a - b > H - L \/ b - a > H - L

\* It takes a swing of more than H - L from one turn to the next, however many
\* values come in between.
TurnsApart ==
  charging' # charging => turnedat = None \/ Apart(turnedat', turnedat)
=============================================================================
