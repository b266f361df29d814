---------------------------- MODULE MCBoard2015 ----------------------------
(* Board2015 for TLC: commands in ASCII.                                   *)
EXTENDS Board2015, TLC

CONSTANTS c1, c2, c3

TurnAndDrive == <<49, 49, 49, 49, 56, 48>>    \* "111180"
Neutral      == <<48, 48, 48, 49, 56, 48>>    \* "000180", centres the wheel
TurnSlowly   == <<49, 49, 49, 49, 48, 48>>    \* "111100", below the least duty
TooFast      == <<49, 48, 49, 50, 53, 48>>    \* "101250", above the most
Close        == <<57, 10>>                    \* "9\n", BUGTest's farewell
LongClose    == <<57, 48, 48, 49, 56, 48, 10>>  \* "900180\n"

MCWords == [c \in Conns |-> {TurnSlowly, Neutral, Close}]
GoodbyeWords == [c \in Conns |-> {Close}]
CloseWords == [c \in Conns |-> {LongClose}]
OwnWords == [c \in Conns |-> IF c = c1 THEN {TurnAndDrive} ELSE {TooFast}]
WholeWords == [c \in Conns |-> {TurnAndDrive, Neutral}]
=============================================================================
