-------------------------------- MODULE Timers --------------------------------
(***************************************************************************)
(* The timers of the server, os/WaitFor.c: one list in the order of expiry *)
(* times, which are milliseconds modulo 2^32, and callbacks that set and   *)
(* cancel timers while the list is being served.                           *)
(*                                                                         *)
(* A callback runs on "stack", for as long as it likes: time passes, it    *)
(* may set or cancel a timer, and then it returns 0 or the time after      *)
(* which it is to be called again.  The timer it sets may be its own: the  *)
(* key that AccessX repeats is released and pressed, and a press may set   *)
(* that timer.  Nobody uses TimerForceOld and TimerAbsolute; a timer that  *)
(* is freed is one that is cancelled, and one that is allocated any other. *)
(***************************************************************************)
EXTENDS FiniteSets, SequencesExt, Integers

CONSTANTS
  W,          \* 2^32: times are counted modulo W
  OsTimers,
  SelfSetters, \* those that may be set again while their callbacks run
  Delays,     \* the delays timers are set to
  MaxLag,     \* bound: how late the server may get to the head of the list
  MaxNested   \* bound: callbacks within callbacks

ASSUME WidthAssumption == W \in Nat /\ W > 1 /\ W % 2 = 0
ASSUME BoundsAssumption ==
  IsFiniteSet(OsTimers) /\ SelfSetters \subseteq OsTimers /\ MaxLag \in Nat /\ MaxNested \in Nat \ {0}
\* Longer delays are "in the past", and their timers expire at once; a loop, in
\* which the callbacks run for a tick each, must not take that long either; nor
\* must a timer be that late that waits, in the wrong place, for another delay.
ASSUME DelaysAssumption ==
  \A d \in Delays :
    /\ d \in Nat \ {0}
    /\ 2 * (d + MaxLag + Cardinality(OsTimers) * (MaxNested + 1)) < W
    /\ 2 * (2 * d + MaxLag) < W

VARIABLES
  clock,      \* GetTimeInMillis()
  timers,     \* the list
  expires,    \* of every timer in the list or called by TimerSet: its expires
  loop,       \* [on, now]: the loop over due timers, and its variable now
  stack,      \* calls of callbacks that have not returned, the last one first
  disordered, \* history: a timer was put where it does not belong
  ring        \* a timer was linked twice; the list, which has no end now, is not
              \* followed any further
vars == <<clock, timers, expires, loop, stack, disordered, ring>>

Times == 0 .. W - 1
Frames ==
  [timer : OsTimers, caller : {"DoTimer", "TimerSet"}, acted : BOOLEAN, late : BOOLEAN]

TypeOK ==
  /\ clock \in Times /\ expires \in [OsTimers -> Times]
  /\ timers \in Seq(OsTimers) /\ IsInjective(timers)
  /\ loop \in [on : BOOLEAN, now : Times]
  /\ stack \in Seq(Frames) /\ Len(stack) <= MaxNested
  /\ disordered \in BOOLEAN /\ ring \in BOOLEAN

-----------------------------------------------------------------------------
\* (int) t, for a difference t of two times.
Signed(t) == LET r == t % W IN IF r < W \div 2 THEN r ELSE r - W

Due(x, now) == Signed(expires[x] - now) <= 0

\* x leaves the list.
Unlink(x) ==
  IF x \in ToSet(timers)
    THEN RemoveAt(timers, CHOOSE i \in DOMAIN timers : timers[i] = x)
    ELSE timers

\* x goes into the list behind those that expire by millis: not by its own time,
\* always.  (mutant: compares the times themselves)
InsertUnsigned(list, x, millis) ==
  \E n \in 0 .. Len(list) :
    /\ \A i \in 1 .. n : expires[list[i]] <= millis
    /\ n < Len(list) => expires[list[n + 1]] > millis
    /\ timers' = InsertAt(list, n + 1, x)
Insert(list, x, millis) ==
  \E n \in 0 .. Len(list) :
    /\ \A i \in 1 .. n : Signed(expires[list[i]] - millis) <= 0
    /\ n < Len(list) => Signed(expires[list[n + 1]] - millis) > 0
    /\ timers' = InsertAt(list, n + 1, x)

Call(x, caller, under) ==
  /\ Len(under) < MaxNested
  /\ stack' = <<[timer |-> x, caller |-> caller, acted |-> FALSE, late |-> FALSE]>> \o under

\* TimerSet, up to a callback that it calls at once: millis <= now, which is
\* so as well when the sum has wrapped.  "under" are the calls it is made from.
TimerSet(x, delay, under) ==
  LET millis == (clock + delay) % W
  IN  /\ expires' = [expires EXCEPT ![x] = millis]
      /\ IF millis <= clock
           THEN timers' = Unlink(x) /\ Call(x, "TimerSet", under)
           ELSE Insert(Unlink(x), x, millis) /\ stack' = under

\* x has left the list or a call.  An expiry time that is not read again before it
\* is set is forgotten.
Forget(x) ==
  expires' =
    IF x \in ToSet(timers') \/ \E i \in DOMAIN stack' :
         stack'[i].timer = x /\ stack'[i].caller = "TimerSet"
      THEN expires ELSE [expires EXCEPT ![x] = 0]

DoTimer(x) == timers' = Unlink(x) /\ Call(x, "DoTimer", stack) /\ Forget(x)

\* With delay 0, TimerSet does the same.  Calls go on.
TimerCancel(x, calls) ==
  /\ stack' = calls
  /\ IF x \in ToSet(timers)
       THEN timers' = Unlink(x) /\ Forget(x)
       ELSE UNCHANGED <<timers, expires>>

-----------------------------------------------------------------------------
\* WaitForSomething and TimerCheck: while (timers && due) DoTimer.

Off == [on |-> FALSE, now |-> 0]

StartLoop ==
  /\ ~ring /\ ~loop.on /\ stack = <<>>
  /\ timers # <<>>
  /\ loop' = [on |-> TRUE, now |-> clock]
  /\ UNCHANGED <<clock, timers, expires, stack, disordered, ring>>

\* (mutant: asks for the time again)
LoopFresh ==
  /\ ~ring /\ loop.on /\ stack = <<>>
  /\ IF timers # <<>> /\ Due(Head(timers), clock)
       THEN DoTimer(Head(timers)) /\ UNCHANGED loop
       ELSE loop' = Off /\ UNCHANGED <<timers, expires, stack>>
  /\ UNCHANGED <<clock, disordered, ring>>
Loop ==
  /\ ~ring /\ loop.on /\ stack = <<>>
  /\ IF timers # <<>> /\ Due(Head(timers), loop.now)
       THEN DoTimer(Head(timers)) /\ UNCHANGED loop
       ELSE loop' = Off /\ UNCHANGED <<timers, expires, stack>>
  /\ UNCHANGED <<clock, disordered, ring>>

\* What a callback does, ...
Running == ~ring /\ stack # <<>> /\ ~Head(stack).acted
Acted == <<[Head(stack) EXCEPT !.acted = TRUE]>> \o Tail(stack)

CallbackSets(x, delay) ==
  /\ Running
  /\ x \in SelfSetters \/ \A i \in DOMAIN stack : stack[i].timer # x
  /\ TimerSet(x, delay, Acted)
  /\ UNCHANGED <<clock, loop, disordered, ring>>

CallbackCancels(x) ==
  /\ Running
  /\ TimerCancel(x, Acted)
  /\ UNCHANGED <<clock, loop, disordered, ring>>

\* ... and what becomes of the time it returns: DoTimer adds it to the present
\* time and moves a timer that was set meanwhile; TimerSet takes it for a time,
\* and links a timer that was set meanwhile a second time.
Done ==
  /\ ~ring /\ stack # <<>>
  /\ stack' = Tail(stack)
  /\ UNCHANGED <<clock, timers, loop, disordered, ring>>
  /\ Forget(Head(stack).timer)

AgainAfter(delay) ==
  /\ ~ring /\ stack # <<>>
  /\ LET x == Head(stack).timer
     IN  \/ /\ Head(stack).caller = "DoTimer"
            /\ TimerSet(x, delay, Tail(stack))
            /\ UNCHANGED <<disordered, ring>>
         \/ /\ Head(stack).caller = "TimerSet" /\ x \notin ToSet(timers)
            /\ Insert(timers, x, delay)
            /\ stack' = Tail(stack)
            /\ disordered' = TRUE
            /\ UNCHANGED <<expires, ring>>
         \/ /\ Head(stack).caller = "TimerSet" /\ x \in ToSet(timers)
            /\ ring' = TRUE
            /\ UNCHANGED <<timers, expires, stack, disordered>>
  /\ UNCHANGED <<clock, loop>>

-----------------------------------------------------------------------------
\* The rest of the server, between two visits to WaitForSomething.

Idle == ~ring /\ ~loop.on /\ stack = <<>>
Order == disordered' = (disordered /\ timers # <<>> /\ timers' # <<>>)

RequestSets(x, delay) ==
  /\ Idle
  /\ TimerSet(x, delay, <<>>)
  /\ Order
  /\ UNCHANGED <<clock, loop, ring>>

RequestCancels(x) ==
  /\ Idle
  /\ TimerCancel(x, <<>>)
  /\ Order
  /\ UNCHANGED <<clock, loop, ring>>

TimerForce(x) ==
  /\ Idle /\ x \in ToSet(timers)
  /\ DoTimer(x)
  /\ Order
  /\ UNCHANGED <<clock, loop, ring>>

\* The server resets.
TimerInit ==
  /\ Idle
  /\ timers' = <<>> /\ expires' = [x \in OsTimers |-> 0]
  /\ Order
  /\ UNCHANGED <<clock, loop, stack, ring>>

\* Time passes.  The server gets to the head of its list in time, and a callback
\* takes a tick at most.
Tick ==
  /\ timers # <<>> => Signed(clock - expires[Head(timers)]) < MaxLag
  /\ \/ Idle /\ UNCHANGED stack
     \/ /\ ~ring /\ stack # <<>> /\ ~Head(stack).late
        /\ stack' = [stack EXCEPT ![1].late = TRUE]
  /\ clock' = (clock + 1) % W
  /\ UNCHANGED <<timers, expires, loop, disordered, ring>>

-----------------------------------------------------------------------------
Init ==
  /\ clock \in Times
  /\ timers = <<>> /\ expires = [x \in OsTimers |-> 0]
  /\ loop = Off
  /\ stack = <<>>
  /\ disordered = FALSE
  /\ ring = FALSE

Serve == Loop \/ Done \/ \E d \in Delays : AgainAfter(d)

Next ==
  \/ Tick \/ StartLoop \/ Serve \/ TimerInit
  \/ \E x \in OsTimers :
       \/ CallbackCancels(x) \/ RequestCancels(x) \/ TimerForce(x)
       \/ \E d \in Delays : CallbackSets(x, d) \/ RequestSets(x, d)

\* Callbacks return, the loop goes on, and time passes: nothing but the bound
\* MaxLag ever keeps it from that.
Fairness == WF_vars(Serve) /\ SF_vars(Tick)

Spec == Init /\ [][Next]_vars /\ Fairness

-----------------------------------------------------------------------------
\* The head of the list stands for all of it: if the server gets to it in time
\* no timer is late, across the wrap of the clock and whatever the callbacks do.
\* A timer that TimerSet called at once and that wants to be called again may be
\* put anywhere, and then it is late by what the calls around it took, or by one
\* delay more.
Late(x) == Signed(clock - expires[x])
Punctual ==
  \A x \in ToSet(timers) :
    \/ Late(x) <= MaxLag
    \/ disordered /\ (Late(x) < MaxNested \/ \E d \in Delays : Late(x) <= MaxLag + d)

\* The loop ends, though callbacks take their time and set timers without end,
\* their own as well; and wherever the timers were put, those that are due are
\* called, as often as the server gets to them: unless the list became a ring.
TimersServed ==
  /\ loop.on ~> ~loop.on \/ ring
  /\ \A x \in OsTimers :
       LET due == x \in ToSet(timers) /\ Late(x) >= 0
       IN  []<>loop.on => (due ~> ~due \/ ring)
===============================================================================
