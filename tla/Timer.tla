------------------------------- MODULE Timer -------------------------------
(***************************************************************************)
(* common/Timer.cpp: a time to live that is noticed when somebody asks.    *)
(* The clock ticks finer than the unit of a timer, which is one of several *)
(* or unknown; time left is cut to whole units, an unsigned number of      *)
(* Width values.                                                           *)
(***************************************************************************)
EXTENDS Integers

CONSTANTS MaxTime,  \* bound on the clock
          MaxLife,  \* bound on m_life
          Ticks,    \* of the clock, in each unit the timer knows
          Width     \* 2^32 in the code

ASSUME TimerAssumption ==
  /\ MaxTime \in Nat /\ MaxLife \in Nat /\ Width \in Nat \ {0}
  /\ Ticks \in [DOMAIN Ticks -> Nat \ {0}] /\ "NONE" \notin DOMAIN Ticks

\* "NONE" stands for the microseconds as well, which no switch of the code names.
Units == DOMAIN Ticks \cup {"NONE"}

VARIABLES
  timer,   \* life, end, expired, units
  now,     \* steady_clock
  started  \* when setup() ran, or setExpired() was called

timerVars == <<timer, now, started>>

\* Mutation of Asked: a timer lives up to its end and with it.
LaxAsked(t) == [t EXCEPT !.expired = @ \/ now > t.end]

\* isExpired(), which addTime() and setup() end with as well.
Asked(t) == [t EXCEPT !.expired = @ \/ now >= t.end]

\* Mutation of Adjusted: a timer that is asked to go on is no longer expired.
RevivedAdjusted(t) ==
  IF t.units # "NONE" THEN [t EXCEPT !.end = @ + t.life * Ticks[t.units], !.expired = FALSE]
  ELSE [t EXCEPT !.expired = TRUE]

\* adjustTime(): the value it is given is not used, the life is added; units it
\* does not know make the timer expire.
Adjusted(t) ==
  IF t.units # "NONE" THEN Asked([t EXCEPT !.end = @ + t.life * Ticks[t.units]])
  ELSE [t EXCEPT !.expired = TRUE]

\* setup()
SetUp(t) == Adjusted([t EXCEPT !.expired = FALSE, !.end = now])

TimerInit ==
  /\ now = 0 /\ started = 0
  /\ \E life \in 0 .. MaxLife, units \in Units, noStart \in BOOLEAN :
       LET t == [life |-> life, end |-> 0, expired |-> noStart, units |-> units]
       IN timer = IF noStart THEN t ELSE SetUp(t)

IsExpired == timer' = Asked(timer) /\ UNCHANGED <<now, started>>

\* Bound: time is added to a timer whose end lies within the clock's bound.
AddTime ==
  /\ timer.end <= MaxTime
  /\ timer' = Adjusted(timer)
  /\ UNCHANGED <<now, started>>

Restart == timer' = SetUp(timer) /\ started' = now /\ UNCHANGED now

\* setLife(), setTimeUnits(): with a new start, but a life may be set without.
SetLife(life, noSetup) ==
  LET t == [timer EXCEPT !.life = life]
  IN /\ timer' = IF noSetup THEN t ELSE SetUp(t)
     /\ started' = IF noSetup THEN started ELSE now
     /\ UNCHANGED now

SetTimeUnits(units) ==
  /\ timer' = SetUp([timer EXCEPT !.units = units])
  /\ started' = now
  /\ UNCHANGED now

SetExpired ==
  /\ timer' = [timer EXCEPT !.expired = TRUE]
  /\ UNCHANGED <<now, started>>

Passes == now < MaxTime /\ now' = now + 1 /\ UNCHANGED <<timer, started>>

\* duration_cast cuts towards zero.
Whole(left, ticks) == IF left >= 0 THEN left \div ticks ELSE -(-left \div ticks)

\* getTimeLeft()
TimeLeft == IF timer.units = "NONE" THEN 0 ELSE Whole(timer.end - now, Ticks[timer.units]) % Width

TimerNext ==
  \/ IsExpired \/ AddTime \/ Restart \/ SetExpired \/ Passes
  \/ \E life \in 0 .. MaxLife, noSetup \in BOOLEAN : SetLife(life, noSetup)
  \/ \E units \in Units : SetTimeUnits(units)

-----------------------------------------------------------------------------

\* An expired timer stays expired until it is set up anew: addTime() cannot bring
\* it back, whether or not its new end lies ahead.
ExpiredForGood ==
  [][timer.expired /\ ~timer'.expired =>
       /\ started' = now
       /\ timer'.units # "NONE" /\ timer'.end = now + timer'.life * Ticks[timer'.units]]_timerVars

\* A timer that says it is not expired has a unit and an end ahead, whatever its
\* units and its life were changed to, and what is left lies between getTimeLeft()
\* and one unit more: in its last unit that is 0 although it has not expired.  Past
\* the end the number wraps around, and so it does for more units than it counts.
ExpiryAgreesWithTimeLeft ==
  ~Asked(timer).expired =>
    /\ timer.units # "NONE" /\ now < timer.end
    /\ LET left == timer.end - now
           ticks == Ticks[timer.units]
       IN left < Width * ticks => TimeLeft * ticks <= left /\ left < (TimeLeft + 1) * ticks

=============================================================================
