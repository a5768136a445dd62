------------------------------- MODULE Channel ------------------------------
(***************************************************************************)
(* What the ZeroMQ bridge promises, with no packets, ACKs or poll loop: the *)
(* messages it has read are published whole, once each, in order.  An empty *)
(* message is read and not published.                                       *)
(***************************************************************************)
EXTENDS Naturals, Sequences

CONSTANT Messages             \* sequences of bytes

VARIABLES accepted,           \* the messages read from SUB
          published           \* the messages handed to PUB

vars == <<accepted, published>>

NonEmpty(msgs) ==
  LET kept[n \in 0..Len(msgs)] ==          \* those of the first n
        IF n = 0 THEN << >>
        ELSE IF msgs[n] = << >> THEN kept[n - 1] ELSE Append(kept[n - 1], msgs[n])
  IN kept[Len(msgs)]

Init == accepted = << >> /\ published = << >>

Accept ==
  /\ \E m \in Messages : accepted' = Append(accepted, m)
  /\ UNCHANGED published

Publish ==
  /\ Len(published) < Len(NonEmpty(accepted))
  /\ published' = Append(published, NonEmpty(accepted)[Len(published) + 1])
  /\ UNCHANGED accepted

Next == Accept \/ Publish

Spec == Init /\ [][Next]_vars
=============================================================================
