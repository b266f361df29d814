------------------------- MODULE ControlLinkProofs --------------------------
(* What ControlLink says of the answers, for any commands.                 *)
EXTENDS ControlLink, TLAPS

LinkInv ==
  /\ LinkTypeOK
  /\ stage \in {"queued", "answered"} => queue = word
  /\ stage = "answered" => reply = word

\* In every behaviour of the abstract link, and so of the control station
\* with the 2015 board, an answer repeats the word the station waits for,
\* and that word is the one the board is running or about to run.
THEOREM AnswersRepeatWords ==
  ASSUME Nothing \in Commands
  PROVE  LinkSpec => []AnswerRepeatsWord
<1>1. LinkInit => LinkInv
  BY DEF LinkInit, LinkInv, LinkTypeOK, Stage
<1>2. LinkInv /\ [LinkNext]_linkVars => LinkInv'
  <2> SUFFICES ASSUME LinkInv, [LinkNext]_linkVars PROVE LinkInv'
    OBVIOUS
  <2> USE DEF LinkInv, LinkTypeOK, Stage
  <2>1. CASE Send
    BY <2>1 DEF Send
  <2>2. CASE Queue
    BY <2>2 DEF Queue
  <2>3. CASE Run
    BY <2>3 DEF Run
  <2>4. CASE Answer
    BY <2>4 DEF Answer
  <2>5. CASE Take
    BY <2>5 DEF Take
  <2>6. CASE Lose
    BY <2>6 DEF Lose
  <2>7. CASE Garble
    BY <2>7 DEF Garble
  <2>8. CASE UNCHANGED linkVars
    BY <2>8 DEF linkVars
  <2> QED BY <2>1, <2>2, <2>3, <2>4, <2>5, <2>6, <2>7, <2>8 DEF LinkNext
<1>3. LinkInv => AnswerRepeatsWord
  BY DEF LinkInv, AnswerRepeatsWord
<1> QED BY <1>1, <1>2, <1>3, PTL DEF LinkSpec
=============================================================================
