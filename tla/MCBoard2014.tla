---------------------------- MODULE MCBoard2014 ----------------------------
(* Board2014 for TLC: commands in ASCII.                                   *)
EXTENDS Board2014, TLC

Slow == <<49, 49, 49, 49, 48, 48>>  \* "111100": below the least duty
Close == <<57, 13, 10>>             \* "9\r\n": a farewell typed in a terminal
MCWords == [c \in Conns |-> {Slow, Close}]
=============================================================================
