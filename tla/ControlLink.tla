---------------------------- MODULE ControlLink -----------------------------
(***************************************************************************)
(* What the control station and the board promise each other, without the  *)
(* network, the buffers and the threads: words are sent, queued and        *)
(* answered one at a time, the answer repeats the word, and no word is     *)
(* replaced in the queue before it was run.  An answer may come shortly    *)
(* before the word is run, and once the connection is lost only the last   *)
(* of these promises remains.  BugSystem implements this specification.    *)
(***************************************************************************)
CONSTANTS
  Commands,  \* what a word can tell the board to do
  Nothing    \* what an empty queue tells it

VARIABLES
  stage,    \* how far the word has come
  word,     \* the word sent and not yet answered
  queue,    \* the board's queue
  running,  \* what the board's motors were last told
  reply     \* the answer the station has not read yet

linkVars == <<stage, word, queue, running, reply>>

Stage == {"idle", "sent", "queued", "answered", "lost"}

LinkInit ==
  /\ stage = "idle"
  /\ word = Nothing /\ queue = Nothing /\ reply = Nothing
  /\ running \in Commands

Send ==
  /\ stage = "idle"
  /\ stage' = "sent"
  /\ word' \in Commands
  /\ UNCHANGED <<queue, running, reply>>

Queue ==
  /\ stage = "sent" /\ running = queue
  /\ stage' = "queued"
  /\ queue' = word
  /\ UNCHANGED <<word, running, reply>>

\* The board runs its queue again and again.
Run ==
  /\ running' = queue
  /\ UNCHANGED <<stage, word, queue, reply>>

Answer ==
  /\ stage = "queued"
  /\ stage' = "answered"
  /\ reply' = queue
  /\ UNCHANGED <<word, queue, running>>

Take ==
  /\ stage = "answered"
  /\ stage' = "idle"
  /\ word' = Nothing /\ reply' = Nothing
  /\ UNCHANGED <<queue, running>>

Lose ==
  /\ stage' = "lost"
  /\ word' = Nothing /\ reply' = Nothing
  /\ UNCHANGED <<queue, running>>

\* A word cut short by the loss may be completed with other bytes.
Garble ==
  /\ stage = "lost" /\ stage' = "lost"
  /\ running = queue
  /\ queue' \in Commands
  /\ UNCHANGED <<word, running, reply>>

LinkNext == Send \/ Queue \/ Run \/ Answer \/ Take \/ Lose \/ Garble

LinkSpec == LinkInit /\ [][LinkNext]_linkVars
-----------------------------------------------------------------------------
LinkTypeOK ==
  /\ stage \in Stage
  /\ {word, queue, running, reply} \subseteq Commands

\* The answer repeats the word it answers, which is still in the queue: the
\* station compares the two (sendControlWord).
AnswerRepeatsWord == stage = "answered" => reply = word /\ queue = word
=============================================================================
