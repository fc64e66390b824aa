--------------------------- MODULE PingSchedule ---------------------------
(* When sessions ping.  Everything between browsers and the server happens   *)
(* in pings (util_controller.rb, ping).  The server answers each ping with    *)
(* the interval to the next one: one server ping cycle, moved so that the     *)
(* pings of the sessions are spread evenly, less an estimate of the overhead  *)
(* of the network.  A ping that comes too early is not handled.               *)
(*                                                                          *)
(* Time is discrete; next and last are relative to now, so the clock needs   *)
(* no bound.                                                                 *)
EXTENDS Integers, FiniteSets, FiniteSetsExt, SequencesExt

CONSTANTS
  Sessions,       \* browser tabs: session, client userid and sid
  Second,         \* ticks in a second, even
  Keep,           \* adjustments kept in the ping row (10 in the code)
  Delay,          \* bound: ticks a response and the next request spend on the network
  Offline,        \* ticks until the next ping without a connection, or after an exception (60 seconds)
  Old,            \* age at which rows are deleted (1 hour)
  Hold,           \* ticks between two changes of the cycle (30 seconds)
  FirstCycle,     \* server_ping_cycle at start
  MaxCycle,       \* bound: cycles
  Losses,         \* switch: pings or their responses can be lost
  Reloads         \* switch: the user can load the page again

ASSUME SessionsAssumption == IsFiniteSet(Sessions)
ASSUME TicksAssumption == Second \in Nat /\ Second % 2 = 0 /\ Second > 0
ASSUME TimesAssumption ==
  /\ {Keep, Delay, Offline, Old, Hold, FirstCycle, MaxCycle} \subseteq Nat
  /\ Keep > 0 /\ Offline >= Second /\ FirstCycle >= 2 * Second /\ MaxCycle >= FirstCycle /\ Hold >= 2 * Second
  /\ Old >= 2 * MaxCycle /\ Old > MaxCycle + 2 * Second /\ {Losses, Reloads} \subseteq BOOLEAN

VARIABLES
  timer,          \* timer[s]: ticks until the next ping of s arrives
  interval,       \* ping_interval of the client
  row,            \* pings table: [next, last, adj] of the sessions that have pinged
  cycle,          \* server_ping_cycle
  age             \* ticks since cycle was changed, at most Hold

vars == <<timer, interval, row, cycle, age>>

Init ==
  /\ timer \in [Sessions -> 1..FirstCycle]
  /\ interval = [s \in Sessions |-> FirstCycle]
  /\ row = [s \in {} |-> 0]
  /\ cycle = FirstCycle
  /\ age = 0

----------------------------------------------------------------------------
Known(s)      == s \in DOMAIN row
Adjusts(s)    == IF Known(s) THEN row[s].adj ELSE <<>>
LastAdjust(s) == IF Adjusts(s) = <<>> THEN 0 ELSE Last(Adjusts(s))
Late(s)       == IF Known(s) THEN -row[s].next ELSE 0
Small(x)      == -Second <= 2 * x /\ 2 * x < Second

TooEarly(s) == Known(s) /\ Late(s) + LastAdjust(s) < 0

\* Big adjustments are to be ignored, but "skipping micro adjustments.last" is a name the
\* program does not have: the ping fails when there is an adjustment to keep.
Fails(s) == Known(s) /\ ~Small(Late(s)) /\ Adjusts(s) # <<>>

Total(q) ==
  LET upto[n \in 0..Len(q)] == IF n = 0 THEN 0 ELSE upto[n - 1] + q[n] IN upto[Len(q)]
Summed(q)   == Total(q)
Average(q)  == Total(q) \div Len(q)
LastOf(q)   == IF Len(q) <= Keep THEN q ELSE SubSeq(q, Len(q) - Keep + 1, Len(q))

NextAdjust(s) == IF Known(s) /\ Small(Late(s)) THEN Average(Append(Adjusts(s), Late(s))) ELSE 0
NextAdjusts(s) == IF Known(s) THEN LastOf(Append(Adjusts(s), NextAdjust(s))) ELSE <<>>

\* The cycle follows the load of the server, which is arbitrary, one second at a time.
NextCycles ==
  {cycle} \union
  (IF age < Hold THEN {}
   ELSE {c \in {cycle - Second, cycle + Second} : c < cycle => cycle >= 3 * Second})

\* Other sessions around this ping: how long since the last one and until the next one.
Before(s, avg) ==
  LET ago == {row[p].last : p \in {q \in DOMAIN row \ {s} : 0 < row[q].last /\ row[q].last < 2 * cycle}}
  IN IF ago = {} \/ Min(ago) > 2 * avg THEN avg ELSE Min(ago)
Ahead(s, avg) ==
  LET until == {row[p].next : p \in {q \in DOMAIN row \ {s} : row[q].next > 0}}
  IN IF until = {} THEN avg ELSE Min(until)

Active(c) == {p \in DOMAIN row : row[p].last <= Max({cycle, c}) + 2 * Second}
AverageInterval(c) == c \div Max({1, Cardinality(Active(c))})

IntervalNotHalved(s, c) ==
  LET avg == AverageInterval(c) IN c + Ahead(s, avg) - Before(s, avg)
\* This session is moved to the middle between the two.
Interval(s, c) ==
  LET avg == AverageInterval(c) IN c + (Ahead(s, avg) - Before(s, avg)) \div 2

\* next_ping_at is rounded down to a whole second after now.
NextAt(i) == (i \div Second) * Second

\* The response reaches the client, which ignores intervals of less than a second, and the
\* next ping comes an interval later.
Answer(s, i) ==
  \E d \in 0..Delay :
    /\ interval' = [interval EXCEPT ![s] = IF i >= Second THEN i ELSE @]
    /\ timer' = [timer EXCEPT ![s] = interval'[s] + d]

\* No response, or no request: without a connection (error.status 0) the client pings again after
\* a minute, after any other error as usual; what it did after the error before is left open.
NoAnswer(s) ==
  /\ \E wait \in {Offline, interval[s]} : timer' = [timer EXCEPT ![s] = wait]
  /\ UNCHANGED interval

----------------------------------------------------------------------------
Due(s) == timer[s] = 0

Reject(s) ==
  /\ Due(s) /\ TooEarly(s)
  /\ Answer(s, -(Late(s) + LastAdjust(s)) - LastAdjust(s))
  /\ UNCHANGED <<row, cycle, age>>

\* rescue: a minute to the next ping, and the row is as it was.
Fail(s) ==
  /\ Due(s) /\ ~TooEarly(s) /\ Fails(s)
  /\ Answer(s, Offline)
  /\ UNCHANGED <<row, cycle, age>>

\* The row is found or created; one ping in a hundred deletes old rows.
Serve(s) ==
  /\ Due(s) /\ ~TooEarly(s) /\ ~Fails(s)
  /\ \E c \in NextCycles, purge \in BOOLEAN :
       LET i    == Interval(s, c)
           kept == IF purge THEN {p \in DOMAIN row : row[p].next >= -Old} ELSE DOMAIN row
           mine == [next |-> NextAt(i), last |-> 0, adj |-> NextAdjusts(s)]
       IN
       /\ c <= MaxCycle
       /\ cycle' = c
       /\ age' = IF c = cycle THEN age ELSE 0
       /\ row' = [p \in kept \union {s} |-> IF p = s THEN mine ELSE row[p]]
       /\ Answer(s, i - NextAdjust(s)) \/ (Losses /\ NoAnswer(s))

\* The request does not arrive.
Lose(s) ==
  /\ Losses /\ Due(s)
  /\ NoAnswer(s)
  /\ UNCHANGED <<row, cycle, age>>

\* Past is not told apart once it is older than what the code looks at.
Passed(r) == [r EXCEPT !.next = Max({r.next - 1, -Old - 1}), !.last = Min({r.last + 1, Old})]

Tick ==
  /\ \A s \in Sessions : ~Due(s)
  /\ timer' = [s \in Sessions |-> timer[s] - 1]
  /\ row' = [s \in DOMAIN row |-> Passed(row[s])]
  /\ age' = Min({age + 1, Hold})
  /\ UNCHANGED <<interval, cycle>>

\* The page starts with the cycle as its interval; the sid is kept in the tab's session storage.
Reload(s) ==
  /\ Reloads /\ ~Due(s)
  /\ interval' = [interval EXCEPT ![s] = cycle]
  /\ timer' = [timer EXCEPT ![s] = cycle]
  /\ UNCHANGED <<row, cycle, age>>

Arrive(s) == Reject(s) \/ Fail(s) \/ Serve(s) \/ Lose(s)

Next == Tick \/ \E s \in Sessions : Arrive(s) \/ Reload(s)

Spec == Init /\ [][Next]_vars

\* Time passes, a tab that is open pings when its timer has run out, and not every ping of a
\* session that could be served is lost.
FairSpec == Spec /\ WF_vars(Next) /\ \A s \in Sessions : SF_vars(Serve(s))

----------------------------------------------------------------------------
Adjustment == {x \in -Second..Second : -Second <= 2 * x /\ 2 * x < Second}

\* Types; adjustments stay within half a second, so that a ping is handled at most half
\* a second before its time.
TypeOK ==
  /\ DOMAIN timer = Sessions /\ DOMAIN interval = Sessions
  /\ \A s \in Sessions : timer[s] \in Nat /\ interval[s] \in Nat /\ interval[s] >= Second
  /\ DOMAIN row \subseteq Sessions
  /\ \A s \in DOMAIN row : /\ row[s].next \in Int /\ row[s].last \in 0..Old
                           /\ row[s].adj \in Seq(Adjustment) /\ Len(row[s].adj) <= Keep
  /\ cycle \in 2 * Second..MaxCycle /\ age \in 0..Hold

\* No session is sent away for two ping cycles or more (one lowering of the cycle allowed for),
\* however the neighbours move it, each of which was moved by its own neighbours, and however
\* the cycle has changed since (util_controller 996-1020).
WithinTwoCycles == \A s \in DOMAIN row : row[s].next < 2 * (cycle + Second)

\* Every open tab is served again and again.
Served(s) == Known(s) /\ row[s].last = 0
============================================================================
