---------------------------- MODULE EventChannel ----------------------------
(***************************************************************************)
(* What the hardware event queue (mieq.c, xf86Xinput.c) promises to the    *)
(* rest of the server, without saying how: a first-in first-out channel    *)
(* of bounded capacity.  A key or button event is queued unless the        *)
(* channel is full; once queued it is handed over exactly once, in order.  *)
(* A motion is superseded by a motion that follows it directly.  Taking an *)
(* item is not one step: it is read, and then removed, and a motion that   *)
(* is superseded in between may be lost, or come out as a mixture of the   *)
(* two.                                                                    *)
(***************************************************************************)
EXTENDS Naturals, Sequences

CONSTANTS Item,         \* what the channel carries
          IsMotion(_),  \* is the item a core MotionNotify?
          Mixtures(_, _),  \* what can be read while one item replaces another
          None,         \* not an item
          Capacity      \* most items the channel holds at once

VARIABLES last,   \* the item that arrived last
          q,      \* items accepted and not yet removed, oldest first
          cur,    \* the item the consumer has read and not yet removed
          missed  \* items that found the channel full

vars == <<last, q, cur, missed>>

Init == last \in Item /\ q = <<>> /\ cur = None /\ missed = {}

\* The device reports e and the channel keeps it.
Put(e) == /\ last' = e
          /\ Len(q) < Capacity
          /\ q' = Append(q, e)
          /\ UNCHANGED <<cur, missed>>

\* Two motions in a row: the newer one replaces the older.
Supersede(e) == /\ last' = e
                /\ q # <<>>
                /\ IsMotion(e) /\ IsMotion(q[Len(q)])
                /\ q' = [q EXCEPT ![Len(q)] = e]
                /\ UNCHANGED <<cur, missed>>

\* The channel is full: e is dropped.
Miss(e) == /\ last' = e
           /\ Len(q) = Capacity
           /\ missed' = missed \cup {e}
           /\ UNCHANGED <<q, cur>>

\* The consumer reads the oldest item ...
Read == /\ q # <<>> /\ cur = None
        /\ cur' = Head(q)
        /\ UNCHANGED <<last, q, missed>>

\* ... which may tear it, if it is a motion that another one has replaced ...
Tear == /\ cur # None
        /\ IsMotion(cur) /\ IsMotion(Head(q)) /\ cur # Head(q)
        /\ cur' \in Mixtures(cur, Head(q))
        /\ UNCHANGED <<last, q, missed>>

\* ... and removes it.
Remove == /\ cur # None
          /\ q' = Tail(q)
          /\ cur' = None
          /\ UNCHANGED <<last, missed>>

Next == Read \/ Tear \/ Remove \/ \E e \in Item : Put(e) \/ Supersede(e) \/ Miss(e)

Spec == Init /\ [][Next]_vars
=============================================================================
