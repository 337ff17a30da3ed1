---------------------------- MODULE LossyMailbox ----------------------------
(***************************************************************************)
(* What a connection's message buffer promises to the browser that polls   *)
(* it.  Messages are numbered in the order in which they were put.  The    *)
(* mailbox may forget messages, but only the oldest ones and never the one *)
(* put last; a take hands out the oldest messages and removes exactly the  *)
(* ones it handed out.                                                     *)
(***************************************************************************)
EXTENDS Naturals

VARIABLES
  count,  \* how many messages were put
  box,    \* the numbers of the messages that wait
  taken   \* the number of the last message handed out

mailbox == <<count, box, taken>>

Init == count = 0 /\ box = {} /\ taken = 0

\* One event of a connection puts a message, and a warning before it when the
\* event made the mailbox forget some.
Put ==
  \E k \in 1..2 :
    \E forgotten \in 0..(count + k - 1) :
      /\ count' = count + k
      /\ box' = {m \in box \union (count + 1)..(count + k) : m > forgotten}
      /\ taken' = taken

Take ==
  \E m \in box :
    /\ taken' = m
    /\ box' = {l \in box : l > m}
    /\ count' = count

Next == Put \/ Take

Spec == Init /\ [][Next]_mailbox
=============================================================================
