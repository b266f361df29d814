---------------------------- MODULE MCBugSystem -----------------------------
(* BugSystem for TLC: a few positions of the joystick, one of them with    *)
(* the button that reverses the direction and one with the button that     *)
(* restores it.                                                            *)
EXTENDS BugSystem

Stick(x, y, trigger, button2, button3, held) ==
  [x |-> x, y |-> y, trigger |-> trigger, button2 |-> button2, button3 |-> button3, held |-> held]

MCSticks == {
  Stick(0, -5, FALSE, FALSE, TRUE, FALSE),
  Stick(-10, 0, TRUE, FALSE, FALSE, FALSE),
  Stick(4, 5, TRUE, TRUE, FALSE, TRUE)}
NoWords == [c \in Conns |-> {}]
=============================================================================
