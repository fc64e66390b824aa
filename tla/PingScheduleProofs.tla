------------------------ MODULE PingScheduleProofs ------------------------
(* Proofs about the schedule of pings, for any number of sessions, any cycle *)
(* and any changes of it: no session is sent away for two cycles.            *)
EXTENDS PingSchedule, FiniteSetTheorems, SequenceTheorems, WellFoundedInduction, TLAPS

\* What Interval reads of rows and numbers.  Nothing is said of adjustments.
ScheduleType ==
  /\ DOMAIN row \subseteq Sessions
  /\ \A s \in DOMAIN row :
       /\ row[s] = [next |-> row[s].next, last |-> row[s].last, adj |-> row[s].adj]
       /\ row[s].next \in Int /\ row[s].last \in Nat
  /\ cycle \in Nat /\ cycle >= 2 * Second
  /\ age \in 0..Hold

\* The cycle is lowered by a second at most every Hold ticks.  Meanwhile time passes, so that
\* two seconds after a change there is room for the next one.
Room == IF age < 2 * Second THEN age ELSE 2 * Second
Scheduled == \A s \in DOMAIN row : row[s].next + Room < 2 * (cycle + Second)

ScheduleInv == ScheduleType /\ Scheduled

\* A set of naturals has a least element, and Min names it.
LEMMA MinIsLeast ==
  ASSUME NEW S, S \subseteq Nat, S # {}
  PROVE  Min(S) \in S /\ \A n \in S : Min(S) <= n
<1>1. IsWellFoundedOn(OpToRel(<, Nat), Nat)
  BY NatLessThanWellFounded
<1>2. \E x \in S : \A y \in S : ~ (<<y, x>> \in OpToRel(<, Nat))
  BY <1>1, WFMin
<1>3. PICK x \in S : \A y \in S : ~ (<<y, x>> \in OpToRel(<, Nat))
  BY <1>2
<1>4. \A y \in S : ~ (y < x)
  BY <1>3 DEF OpToRel
<1>5. \A y \in S : x =< y
  BY <1>4
<1>. QED
  BY <1>5 DEF Min

\* The cycle shared by the active sessions: at least 0, at most the cycle.
LEMMA AverageIsShare ==
  ASSUME ScheduleType, NEW c \in Nat
  PROVE  AverageInterval(c) \in 0..c
<1>1. IsFiniteSet(Active(c))
  BY SessionsAssumption, FS_Subset DEF Active, ScheduleType
<1>2. Cardinality(Active(c)) \in Nat
  BY <1>1, FS_CardinalityType
<1>3. \A n \in Nat : Max({1, n}) \in Nat /\ Max({1, n}) >= 1
  <2>. TAKE n \in Nat
  <2>1. \E x \in {1, n} : \A y \in {1, n} : x >= y
    <3>1. CASE n <= 1
      BY <3>1
    <3>2. CASE n > 1
      BY <3>2
    <3>. QED
      BY <3>1, <3>2
  <2>2. Max({1, n}) \in {1, n} /\ \A y \in {1, n} : Max({1, n}) >= y
    BY <2>1 DEF Max
  <2>. QED
    BY <2>2
<1>4. \A k \in Nat : k >= 1 => c \div k \in 0..c
  <2>. TAKE k \in Nat
  <2>. HAVE k >= 1
  <2>. DEFINE d == c \div k
  <2>1. d \in Int /\ k * d <= c /\ c < k * (d + 1)
    OBVIOUS
  <2>2. d >= 0
    BY <2>1
  <2>3. d <= k * d
    BY <2>1, <2>2
  <2>. QED
    BY <2>1, <2>2, <2>3
<1>. QED
  BY <1>2, <1>3, <1>4 DEF AverageInterval

\* The times since and until the pings of the others: a time until the next one is that of a
\* row, or the share.
LEMMA Neighbours ==
  ASSUME ScheduleInv, NEW s \in Sessions, NEW avg \in Nat
  PROVE  /\ Before(s, avg) \in Nat
         /\ Ahead(s, avg) \in Nat
         /\ Ahead(s, avg) = avg \/ Ahead(s, avg) + Room < 2 * (cycle + Second)
<1>1. Before(s, avg) \in Nat
  <2>. DEFINE ago == {row[p].last : p \in {q \in DOMAIN row \ {s} : 0 < row[q].last /\ row[q].last < 2 * cycle}}
  <2>1. ago \subseteq Nat
    BY DEF ScheduleInv, ScheduleType
  <2>2. ago # {} => Min(ago) \in Nat
    <3>. HIDE DEF ago
    <3>. QED
      BY <2>1, MinIsLeast
  <2>. QED
    BY <2>2 DEF Before
<1>2. Ahead(s, avg) \in Nat /\ (Ahead(s, avg) = avg \/ Ahead(s, avg) + Room < 2 * (cycle + Second))
  <2>. DEFINE until == {row[p].next : p \in {q \in DOMAIN row \ {s} : row[q].next > 0}}
  <2>1. until \subseteq Nat
    BY DEF ScheduleInv, ScheduleType
  <2>2. \A u \in until : u + Room < 2 * (cycle + Second)
    BY DEF ScheduleInv, Scheduled
  <2>3. until # {} => Min(until) \in until
    <3>. HIDE DEF until
    <3>. QED
      BY <2>1, MinIsLeast
  <2>4. Ahead(s, avg) = IF until = {} THEN avg ELSE Min(until)
    BY DEF Ahead
  <2>. HIDE DEF until
  <2>. QED
    BY <2>1, <2>2, <2>3, <2>4
<1>. QED
  BY <1>1, <1>2

\* The room there is after a ping that makes the cycle c.
RoomAfter(c) == IF c = cycle THEN Room ELSE 0

\* Half of the distance to a neighbour, both times bounded, keeps the interval below two
\* cycles; a lower cycle has had the time to make room.
LEMMA IntervalBounded ==
  ASSUME ScheduleInv, NEW s \in Sessions, NEW c \in NextCycles
  PROVE  /\ c \in Nat /\ c >= 2 * Second
         /\ Interval(s, c) \in Int
         /\ Interval(s, c) + RoomAfter(c) < 2 * (c + Second)
         /\ \A p \in DOMAIN row : row[p].next + RoomAfter(c) < 2 * (c + Second)
<1>. DEFINE avg == AverageInterval(c)
<1>1. /\ Second \in Nat /\ Second > 0 /\ Hold \in Nat /\ Hold >= 2 * Second
      /\ cycle \in Nat /\ cycle >= 2 * Second /\ age \in Nat
  BY TicksAssumption, TimesAssumption DEF ScheduleInv, ScheduleType
<1>2. /\ c = cycle \/ c = cycle + Second \/ (c = cycle - Second /\ cycle >= 3 * Second)
      /\ c # cycle => age >= Hold
  BY <1>1 DEF NextCycles
<1>3. c \in Nat /\ c >= 2 * Second
  BY <1>1, <1>2
<1>4. Room \in 0..2 * Second /\ (c # cycle => Room = 2 * Second)
  BY <1>1, <1>2 DEF Room
<1>5. \A n \in Int : n + Room < 2 * (cycle + Second) => n + RoomAfter(c) < 2 * (c + Second)
  BY <1>1, <1>2, <1>3, <1>4 DEF RoomAfter
<1>6. \A p \in DOMAIN row : row[p].next + RoomAfter(c) < 2 * (c + Second)
  BY <1>5 DEF ScheduleInv, ScheduleType, Scheduled
<1>7. avg \in 0..c
  BY <1>3, AverageIsShare DEF ScheduleInv
<1>8. /\ Before(s, avg) \in Nat /\ Ahead(s, avg) \in Nat
      /\ Ahead(s, avg) <= c \/ Ahead(s, avg) + RoomAfter(c) < 2 * (c + Second)
  <2>1. avg \in Nat /\ avg <= c
    BY <1>3, <1>7
  <2>. HIDE DEF avg
  <2>. QED
    BY <2>1, <1>5, Neighbours
<1>9. RoomAfter(c) \in 0..2 * Second
  BY <1>1, <1>4 DEF RoomAfter
<1>10. Interval(s, c) = c + (Ahead(s, avg) - Before(s, avg)) \div 2
  BY DEF Interval
<1>. HIDE DEF avg
<1>11. \A a, b, r \in Nat : r <= 2 * Second /\ (a <= c \/ a + r < 2 * (c + Second))
         => c + ((a - b) \div 2) \in Int /\ c + ((a - b) \div 2) + r < 2 * (c + Second)
  BY <1>1, <1>3
<1>12. /\ Interval(s, c) \in Int
       /\ Interval(s, c) + RoomAfter(c) < 2 * (c + Second)
  <2>1. RoomAfter(c) \in Nat /\ RoomAfter(c) <= 2 * Second
    BY <1>1, <1>9
  <2>. QED
    BY <2>1, <1>8, <1>10, <1>11
<1>. QED
  BY <1>3, <1>6, <1>12

\* next_ping_at is rounded down.
LEMMA NextAtBelow ==
  ASSUME NEW i \in Int
  PROVE  NextAt(i) \in Int /\ NextAt(i) <= i
BY TicksAssumption DEF NextAt

\* Initially nobody is scheduled.
LEMMA ScheduleInit == Init => ScheduleInv
BY TimesAssumption DEF Init, ScheduleInv, ScheduleType, Scheduled

\* A served ping, with the rows that are kept.
LEMMA ServeStep ==
  ASSUME ScheduleInv, NEW s \in Sessions, Serve(s)
  PROVE  ScheduleInv'
<1>1. PICK c \in NextCycles, purge \in BOOLEAN :
        LET kept == IF purge THEN {p \in DOMAIN row : row[p].next >= -Old} ELSE DOMAIN row
            mine == [next |-> NextAt(Interval(s, c)), last |-> 0, adj |-> NextAdjusts(s)]
        IN  /\ cycle' = c
            /\ age' = IF c = cycle THEN age ELSE 0
            /\ row' = [p \in kept \union {s} |-> IF p = s THEN mine ELSE row[p]]
  BY DEF Serve
<1>. DEFINE kept == IF purge THEN {p \in DOMAIN row : row[p].next >= -Old} ELSE DOMAIN row
            mine == [next |-> NextAt(Interval(s, c)), last |-> 0, adj |-> NextAdjusts(s)]
<1>2. /\ c \in Nat /\ c >= 2 * Second
      /\ Interval(s, c) \in Int
      /\ Interval(s, c) + RoomAfter(c) < 2 * (c + Second)
      /\ \A p \in DOMAIN row : row[p].next + RoomAfter(c) < 2 * (c + Second)
  BY IntervalBounded
<1>3. Room' = RoomAfter(c)
  BY <1>1, TicksAssumption DEF Room, RoomAfter
<1>4. RoomAfter(c) \in Int
  BY TicksAssumption DEF Room, RoomAfter, ScheduleInv, ScheduleType
<1>5. mine.next \in Int /\ mine.next + RoomAfter(c) < 2 * (c + Second)
  <2>1. NextAt(Interval(s, c)) \in Int /\ NextAt(Interval(s, c)) <= Interval(s, c)
    BY <1>2, NextAtBelow
  <2>. QED
    BY <2>1, <1>2, <1>4, TicksAssumption
<1>6. kept \subseteq DOMAIN row
  OBVIOUS
<1>7. row' = [p \in kept \union {s} |-> IF p = s THEN mine ELSE row[p]]
  BY <1>1
<1>8. mine = [next |-> mine.next, last |-> mine.last, adj |-> mine.adj] /\ mine.last \in Nat
  OBVIOUS
<1>. HIDE DEF kept, mine
<1>9. \A p \in DOMAIN row' :
        \/ p = s /\ row'[p] = mine
        \/ p \in DOMAIN row /\ row'[p] = row[p]
  BY <1>6, <1>7
<1>10. ScheduleType'
  <2>1. DOMAIN row' \subseteq Sessions
    BY <1>6, <1>7 DEF ScheduleInv, ScheduleType
  <2>2. \A p \in DOMAIN row' :
          /\ row'[p] = [next |-> row'[p].next, last |-> row'[p].last, adj |-> row'[p].adj]
          /\ row'[p].next \in Int /\ row'[p].last \in Nat
    <3>. TAKE p \in DOMAIN row'
    <3>1. CASE p = s /\ row'[p] = mine
      BY <3>1, <1>5, <1>8
    <3>2. CASE p \in DOMAIN row /\ row'[p] = row[p]
      BY <3>2 DEF ScheduleInv, ScheduleType
    <3>. QED
      BY <3>1, <3>2, <1>9
  <2>3. cycle' \in Nat /\ cycle' >= 2 * Second /\ age' \in 0..Hold
    BY <1>1, <1>2, TimesAssumption DEF ScheduleInv, ScheduleType
  <2>. QED
    BY <2>1, <2>2, <2>3 DEF ScheduleType
<1>11. Scheduled'
  <2>1. \A p \in DOMAIN row' : row'[p].next + RoomAfter(c) < 2 * (c + Second)
    BY <1>2, <1>5, <1>9
  <2>. QED
    BY <2>1, <1>1, <1>3 DEF Scheduled
<1>. QED
  BY <1>10, <1>11 DEF ScheduleInv

\* Time passes for every row, and for the cycle.
LEMMA TickStep ==
  ASSUME ScheduleInv, Tick
  PROVE  ScheduleInv'
<1>1. /\ row' = [s \in DOMAIN row |-> Passed(row[s])]
      /\ age' = Min({age + 1, Hold})
      /\ cycle' = cycle
  BY DEF Tick
<1>2. \A i, j \in Int : Min({i, j}) = IF i <= j THEN i ELSE j
  <2>. TAKE i, j \in Int
  <2>1. \E x \in {i, j} : \A y \in {i, j} : x =< y
    <3>1. CASE i <= j
      BY <3>1
    <3>2. CASE i > j
      BY <3>2
    <3>. QED
      BY <3>1, <3>2
  <2>2. Min({i, j}) \in {i, j} /\ \A y \in {i, j} : Min({i, j}) =< y
    BY <2>1 DEF Min
  <2>. QED
    BY <2>2
<1>3. \A i, j \in Int : Max({i, j}) = IF i >= j THEN i ELSE j
  <2>. TAKE i, j \in Int
  <2>1. \E x \in {i, j} : \A y \in {i, j} : x >= y
    <3>1. CASE i >= j
      BY <3>1
    <3>2. CASE i < j
      BY <3>2
    <3>. QED
      BY <3>1, <3>2
  <2>2. Max({i, j}) \in {i, j} /\ \A y \in {i, j} : Max({i, j}) >= y
    BY <2>1 DEF Max
  <2>. QED
    BY <2>2
<1>4. \A s \in DOMAIN row :
        /\ row'[s] = [next |-> Max({row[s].next - 1, -Old - 1}), last |-> Min({row[s].last + 1, Old}), adj |-> row[s].adj]
        /\ row'[s].next \in Int /\ row'[s].last \in Nat
        /\ row'[s].next <= row[s].next - 1 \/ row'[s].next = -Old - 1
  <2>. TAKE s \in DOMAIN row
  <2>1. row[s] = [next |-> row[s].next, last |-> row[s].last, adj |-> row[s].adj]
        /\ row[s].next \in Int /\ row[s].last \in Nat
    BY DEF ScheduleInv, ScheduleType
  <2>2. row'[s] = [next |-> Max({row[s].next - 1, -Old - 1}), last |-> Min({row[s].last + 1, Old}), adj |-> row[s].adj]
    BY <1>1, <2>1 DEF Passed
  <2>3. Old \in Nat
    BY TimesAssumption
  <2>4. row[s].next - 1 \in Int /\ -Old - 1 \in Int /\ row[s].last + 1 \in Int /\ Old \in Int
    BY <2>1, <2>3
  <2>5. Max({row[s].next - 1, -Old - 1}) = IF row[s].next - 1 >= -Old - 1 THEN row[s].next - 1 ELSE -Old - 1
    BY <1>3, <2>4
  <2>6. Min({row[s].last + 1, Old}) = IF row[s].last + 1 <= Old THEN row[s].last + 1 ELSE Old
    BY <1>2, <2>4
  <2>. QED
    BY <2>1, <2>2, <2>3, <2>5, <2>6
<1>5. Hold \in Nat /\ Second \in Nat /\ Hold >= 2 * Second /\ Second > 0 /\ Old \in Nat
  BY TimesAssumption, TicksAssumption
<1>6. age' \in 0..Hold /\ age' <= age + 1 /\ age' >= age
  <2>1. age \in 0..Hold
    BY DEF ScheduleInv, ScheduleType
  <2>2. Min({age + 1, Hold}) = IF age + 1 <= Hold THEN age + 1 ELSE Hold
    BY <2>1, <1>2, <1>5
  <2>. QED
    BY <2>1, <2>2, <1>1, <1>5
<1>7. ScheduleType'
  <2>1. DOMAIN row' = DOMAIN row
    BY <1>1
  <2>2. \A s \in DOMAIN row : row'[s] = [next |-> row'[s].next, last |-> row'[s].last, adj |-> row'[s].adj]
    <3>. TAKE s \in DOMAIN row
    <3>. DEFINE n == Max({row[s].next - 1, -Old - 1})
                l == Min({row[s].last + 1, Old})
    <3>1. row'[s] = [next |-> n, last |-> l, adj |-> row[s].adj]
      BY <1>4
    <3>. HIDE DEF n, l
    <3>. QED
      BY <3>1
  <2>3. DOMAIN row \subseteq Sessions /\ cycle \in Nat /\ cycle >= 2 * Second
    BY DEF ScheduleInv, ScheduleType
  <2>4. \A s \in DOMAIN row : row'[s].next \in Int /\ row'[s].last \in Nat
    BY <1>4
  <2>. QED
    BY <2>1, <2>2, <2>3, <2>4, <1>1, <1>6 DEF ScheduleType
<1>8. Room' \in 0..2 * Second /\ Room \in 0..2 * Second /\ Room' <= Room + 1
  BY <1>5, <1>6 DEF Room, ScheduleInv, ScheduleType
<1>9. Scheduled'
  <2>. SUFFICES ASSUME NEW s \in DOMAIN row
                PROVE  row'[s].next + Room' < 2 * (cycle + Second)
    BY <1>1 DEF Scheduled
  <2>1. row[s].next + Room < 2 * (cycle + Second) /\ row[s].next \in Int /\ cycle \in Nat
    BY DEF ScheduleInv, ScheduleType, Scheduled
  <2>2. /\ row'[s].next \in Int
        /\ row'[s].next <= row[s].next - 1 \/ row'[s].next = -Old - 1
    BY <1>4
  <2>3. /\ Room \in Nat /\ Room' \in Nat
        /\ Room' <= 2 * Second /\ Room' <= Room + 1
    BY <1>5, <1>8
  <2>4. CASE row'[s].next <= row[s].next - 1
    BY <2>1, <2>2, <2>3, <2>4, <1>5
  <2>5. CASE row'[s].next = -Old - 1
    <3>1. -Old - 1 \in Int /\ -Old - 1 < 0
      BY <1>5
    <3>2. row'[s].next < 0
      BY <3>1, <2>5
    <3>. QED
      BY <3>2, <2>1, <2>2, <2>3, <1>5
  <2>. QED
    BY <2>2, <2>4, <2>5
<1>. QED
  BY <1>7, <1>9 DEF ScheduleInv

\* Every other step leaves the rows, the cycle and its age as they are.
LEMMA ScheduleStep == ScheduleInv /\ [Next]_vars => ScheduleInv'
<1>. SUFFICES ASSUME ScheduleInv, [Next]_vars
              PROVE  ScheduleInv'
  OBVIOUS
<1>1. CASE Tick
  BY <1>1, TickStep
<1>2. CASE \E s \in Sessions : Serve(s)
  BY <1>2, ServeStep
<1>3. CASE UNCHANGED <<row, cycle, age>>
  BY <1>3 DEF ScheduleInv, ScheduleType, Scheduled, Room
<1>4. \A s \in Sessions : Reject(s) \/ Fail(s) \/ Lose(s) \/ Reload(s) => UNCHANGED <<row, cycle, age>>
  BY DEF Reject, Fail, Lose, Reload
<1>5. UNCHANGED vars => UNCHANGED <<row, cycle, age>>
  BY DEF vars
<1>6. Next => Tick \/ (\E s \in Sessions : Serve(s)) \/ UNCHANGED <<row, cycle, age>>
  BY <1>4 DEF Next, Arrive
<1>. QED
  BY <1>1, <1>2, <1>3, <1>5, <1>6

\* No session, whatever the others do and however the cycle changes, is sent away for two
\* ping cycles.
THEOREM NobodyWaitsTwoCycles == Spec => []WithinTwoCycles
<1>1. ScheduleInv => WithinTwoCycles
  <2>. SUFFICES ASSUME ScheduleInv, NEW s \in DOMAIN row
                PROVE  row[s].next < 2 * (cycle + Second)
    BY DEF WithinTwoCycles
  <2>1. Room \in Nat
    BY TicksAssumption, TimesAssumption DEF ScheduleInv, ScheduleType, Room
  <2>. QED
    BY <2>1, TicksAssumption DEF ScheduleInv, ScheduleType, Scheduled
<1>. QED
  BY <1>1, ScheduleInit, ScheduleStep, PTL DEF Spec
----------------------------------------------------------------------------
\* Induction: a set with 0 and all successors of its members is Nat.
LEMMA FromZero ==
  ASSUME NEW S \in SUBSET Nat, 0 \in S, \A n \in S : n + 1 \in S
  PROVE  Nat \subseteq S
<1>. SUFFICES ASSUME Nat \ S # {} PROVE FALSE
  OBVIOUS
<1>1. PICK n \in Nat \ S : \A m \in Nat \ S : n <= m
  <2>. DEFINE R == Nat \ S
  <2>1. R \subseteq Nat /\ R # {}
    OBVIOUS
  <2>2. \E n \in R : \A m \in R : n <= m
    <3>. HIDE DEF R
    <3>. QED  BY <2>1, MinIsLeast
  <2>. QED
    BY <2>2
<1>2. n - 1 \in S
  BY <1>1
<1>. QED
  BY <1>1, <1>2

\* The total of a sequence is reached number by number.
Counting(upto, q) ==
  /\ Total(q) = upto[Len(q)] /\ upto[0] = 0
  /\ \A n \in 1..Len(q) : upto[n] = upto[n - 1] + q[n]

LEMMA TotalChain ==
  ASSUME NEW q, Len(q) \in Nat
  PROVE  \E upto : Counting(upto, q)
<1>. DEFINE Is(f, n) == f = [i \in 0..n |-> IF i = 0 THEN 0 ELSE f[i - 1] + q[i]]
            S == {n \in Nat : \E f : Is(f, n)}
            N == Len(q)
<1>1. 0 \in S
  <2>. DEFINE f == [i \in 0..0 |-> 0]
  <2>1. Is(f, 0)
    OBVIOUS
  <2>. QED
    BY <2>1
<1>2. ASSUME NEW n \in S
      PROVE  n + 1 \in S
  <2>1. PICK f : Is(f, n)
    OBVIOUS
  <2>. DEFINE g == [i \in 0..(n + 1) |-> IF i = n + 1 THEN f[n] + q[i] ELSE f[i]]
  <2>2. ASSUME NEW i \in 0..(n + 1)
        PROVE  g[i] = IF i = 0 THEN 0 ELSE g[i - 1] + q[i]
    <3>1. CASE i = n + 1
      <4>1. g[i - 1] = f[n]
        BY <3>1
      <4>. QED
        BY <3>1, <4>1
    <3>2. CASE i # n + 1
      <4>1. i \in 0..n /\ (i # 0 => g[i - 1] = f[i - 1])
        BY <3>2
      <4>. QED
        BY <2>1, <3>2, <4>1
    <3>. QED
      BY <3>1, <3>2
  <2>3. Is(g, n + 1)
    BY <2>2
  <2>. HIDE DEF Is
  <2>4. \E h : Is(h, n + 1)
    BY <2>3
  <2>. QED
    BY <2>4
<1>3. \E f : Is(f, N)
  <2>. HIDE DEF Is
  <2>. QED  BY <1>1, <1>2, FromZero
<1>. DEFINE upto == CHOOSE f : Is(f, N)
<1>4. Is(upto, N)
  <2>. HIDE DEF Is
  <2>. QED  BY <1>3
<1>5. Total(q) = upto[N]
  BY DEF Total
<1>6. upto[0] = 0 /\ \A i \in 1..N : upto[i] = upto[i - 1] + q[i]
  <2>. HIDE DEF upto
  <2>. QED  BY <1>4
<1>. HIDE DEF upto
<1>. QED
  BY <1>5, <1>6 DEF Counting

\* The average of adjustments is one: rounding down does not leave half a second.
LEMMA AverageAdjusts ==
  ASSUME NEW q \in Seq(Adjustment), q # <<>>
  PROVE  Average(q) \in Adjustment
<1>. DEFINE N == Len(q)
<1>1. PICK h \in Nat : Second = 2 * h /\ h > 0
  <2>1. Second \in Nat /\ Second % 2 = 0 /\ Second > 0
    BY TicksAssumption
  <2>2. Second = 2 * (Second \div 2) /\ Second \div 2 \in Nat /\ Second \div 2 > 0
    BY <2>1
  <2>. QED
    BY <2>2
<1>2. \A x \in Int : x \in Adjustment <=> -h <= x /\ x <= h - 1
  BY <1>1 DEF Adjustment
<1>3. N \in Nat /\ N > 0 /\ \A n \in 1..N : q[n] \in Int /\ -h <= q[n] /\ q[n] <= h - 1
  <2>1. \A x \in Adjustment : x \in Int
    BY DEF Adjustment
  <2>. QED
    BY <2>1, <1>2
<1>4. PICK upto : Counting(upto, q)
  BY <1>3, TotalChain
<1>. DEFINE S == {n \in Nat : n <= N => upto[n] \in Int /\ -(h * n) <= upto[n] /\ upto[n] <= h * n - n}
<1>5. 0 \in S
  BY <1>4 DEF Counting
<1>6. ASSUME NEW n \in S
      PROVE  n + 1 \in S
  <2>. SUFFICES ASSUME n + 1 <= N
                PROVE  /\ upto[n + 1] \in Int
                       /\ -(h * (n + 1)) <= upto[n + 1] /\ upto[n + 1] <= h * (n + 1) - (n + 1)
    OBVIOUS
  <2>1. n \in Nat /\ n + 1 \in 1..N
    BY <1>3
  <2>2. upto[n] \in Int /\ -(h * n) <= upto[n] /\ upto[n] <= h * n - n
    BY <1>3, <2>1
  <2>3. upto[n + 1] = upto[n] + q[n + 1]
    BY <1>4, <2>1 DEF Counting
  <2>4. q[n + 1] \in Int /\ -h <= q[n + 1] /\ q[n + 1] <= h - 1
    BY <1>3, <2>1
  <2>5. h * (n + 1) = h * n + h /\ h * n \in Int
    BY <2>1
  <2>. HIDE DEF S, N
  <2>. QED
    BY <2>1, <2>2, <2>3, <2>4, <2>5
<1>. DEFINE t == Total(q)
<1>7. t \in Int /\ -(h * N) <= t /\ t <= h * N - N
  <2>1. S \in SUBSET Nat
    OBVIOUS
  <2>2. N \in S
    <3>. HIDE DEF S
    <3>. QED  BY <1>3, <1>5, <1>6, <2>1, FromZero
  <2>3. t = upto[N]
    BY <1>4 DEF Counting
  <2>. QED
    BY <1>3, <2>2, <2>3
<1>. DEFINE d == t \div N
<1>8. d \in Int /\ N * d <= t /\ t < N * (d + 1)
  <2>. HIDE DEF t, N
  <2>. QED  BY <1>3, <1>7
<1>9. Average(q) = d
  BY DEF Average
<1>. HIDE DEF t, N, d
<1>10. -h <= d
  <2>. SUFFICES ASSUME d + 1 <= -h
                PROVE  FALSE
    BY <1>1, <1>8
  <2>1. N * (d + 1) <= N * (-h) /\ N * (d + 1) \in Int
    BY <1>1, <1>3, <1>8
  <2>2. N * (-h) = -(h * N) /\ h * N \in Int
    BY <1>1, <1>3
  <2>. QED
    BY <1>7, <1>8, <2>1, <2>2, <1>1, <1>3
<1>11. d <= h - 1
  <2>. SUFFICES ASSUME h <= d PROVE FALSE
    BY <1>1, <1>8
  <2>1. N * h <= N * d
    BY <1>1, <1>3, <1>8
  <2>2. N * h = h * N /\ h * N \in Int /\ N * d \in Int
    BY <1>1, <1>3, <1>8
  <2>. QED
    BY <1>3, <1>7, <1>8, <2>1, <2>2
<1>. QED
  BY <1>2, <1>8, <1>9, <1>10, <1>11

----------------------------------------------------------------------------
\* What the types add to the schedule.
Adjusted(r) == r.last <= Old /\ r.adj \in Seq(Adjustment) /\ Len(r.adj) <= Keep
Timed ==
  /\ DOMAIN timer = Sessions /\ DOMAIN interval = Sessions
  /\ \A s \in Sessions : timer[s] \in Nat /\ interval[s] \in Nat /\ interval[s] >= Second
Bounded ==
  /\ Timed
  /\ \A s \in DOMAIN row : Adjusted(row[s])
  /\ cycle <= MaxCycle

TypeInv == ScheduleInv /\ Bounded

\* A sequence cut to the numbers kept.
LEMMA LastOfAdjusts ==
  ASSUME NEW q \in Seq(Adjustment)
  PROVE  LastOf(q) \in Seq(Adjustment) /\ Len(LastOf(q)) <= Keep
<1>1. Keep \in Nat /\ Len(q) \in Nat /\ \A i \in 1..Len(q) : q[i] \in Adjustment
  BY TimesAssumption
<1>2. CASE Len(q) <= Keep
  BY <1>1, <1>2 DEF LastOf
<1>3. CASE Len(q) > Keep
  <2>. DEFINE m == Len(q) - Keep + 1
              n == Len(q)
  <2>1. m \in Int /\ n \in Int /\ n - m + 1 = Keep /\ \A i \in m..n : q[i] \in Adjustment
    BY <1>1, <1>3
  <2>2. LastOf(q) = SubSeq(q, m, n)
    BY <1>1, <1>3 DEF LastOf
  <2>. HIDE DEF m, n
  <2>3. SubSeq(q, m, n) \in Seq(Adjustment) /\ Len(SubSeq(q, m, n)) = IF m <= n THEN n - m + 1 ELSE 0
    BY <2>1, SubSeqProperties
  <2>. QED
    BY <1>1, <2>1, <2>2, <2>3
<1>. QED
  BY <1>1, <1>2, <1>3

\* The adjustments of a session, and the next ones.
LEMMA NextAdjustOk ==
  ASSUME TypeInv, NEW s \in Sessions
  PROVE  /\ LastAdjust(s) \in Adjustment /\ Late(s) \in Int
         /\ NextAdjust(s) \in Adjustment
         /\ NextAdjusts(s) \in Seq(Adjustment) /\ Len(NextAdjusts(s)) <= Keep
<1>1. Second \in Nat /\ Second > 0 /\ Keep \in Nat
  BY TicksAssumption, TimesAssumption
<1>2. 0 \in Adjustment
  BY <1>1 DEF Adjustment
<1>3. Adjusts(s) \in Seq(Adjustment)
  BY DEF Adjusts, Known, TypeInv, Bounded, Adjusted
<1>4. Late(s) \in Int
  BY DEF Late, Known, TypeInv, ScheduleInv, ScheduleType
<1>5. LastAdjust(s) \in Adjustment
  BY <1>2, <1>3 DEF LastAdjust, Last
<1>6. NextAdjust(s) \in Adjustment
  <2>1. CASE Known(s) /\ Small(Late(s))
    <3>1. Late(s) \in Adjustment
      BY <1>1, <1>4, <2>1 DEF Small, Adjustment
    <3>. DEFINE q == Append(Adjusts(s), Late(s))
    <3>2. q \in Seq(Adjustment) /\ q # <<>>
      BY <1>3, <3>1, AppendProperties
    <3>3. NextAdjust(s) = Average(q)
      BY <2>1 DEF NextAdjust
    <3>. HIDE DEF q
    <3>. QED
      BY <3>2, <3>3, AverageAdjusts
  <2>2. CASE ~ (Known(s) /\ Small(Late(s)))
    BY <1>2, <2>2 DEF NextAdjust
  <2>. QED
    BY <2>1, <2>2
<1>7. NextAdjusts(s) \in Seq(Adjustment) /\ Len(NextAdjusts(s)) <= Keep
  <2>1. CASE Known(s)
    <3>1. Append(Adjusts(s), NextAdjust(s)) \in Seq(Adjustment)
      BY <1>3, <1>6, AppendProperties
    <3>. QED
      BY <2>1, <3>1, LastOfAdjusts DEF NextAdjusts
  <2>2. CASE ~ Known(s)
    BY <1>1, <2>2 DEF NextAdjusts
  <2>. QED
    BY <2>1, <2>2
<1>. QED
  BY <1>4, <1>5, <1>6, <1>7

\* The client waits for an interval of at least a second, or for a minute.
LEMMA AnswerTimed ==
  ASSUME Timed, NEW s \in Sessions, NEW i \in Int, Answer(s, i)
  PROVE  Timed'
<1>1. Second \in Nat /\ Delay \in Nat
  BY TicksAssumption, TimesAssumption
<1>2. PICK d \in 0..Delay :
        /\ interval' = [interval EXCEPT ![s] = IF i >= Second THEN i ELSE interval[s]]
        /\ timer' = [timer EXCEPT ![s] = interval'[s] + d]
  BY DEF Answer
<1>3. interval'[s] \in Nat /\ interval'[s] >= Second
  BY <1>1, <1>2 DEF Timed
<1>4. timer'[s] = interval'[s] + d /\ d \in Nat
  BY <1>1, <1>2 DEF Timed
<1>5. timer'[s] \in Nat
  BY <1>3, <1>4
<1>6. /\ DOMAIN timer' = Sessions /\ DOMAIN interval' = Sessions
      /\ \A p \in Sessions \ {s} : timer'[p] = timer[p] /\ interval'[p] = interval[p]
  BY <1>2 DEF Timed
<1>. QED
  BY <1>3, <1>5, <1>6 DEF Timed

LEMMA NoAnswerTimed ==
  ASSUME Timed, NEW s \in Sessions, NoAnswer(s)
  PROVE  Timed'
BY TimesAssumption DEF Timed, NoAnswer

LEMMA ServeBounded ==
  ASSUME TypeInv, NEW s \in Sessions, Serve(s)
  PROVE  Bounded'
<1>1. PICK c \in NextCycles, purge \in BOOLEAN :
        LET kept == IF purge THEN {p \in DOMAIN row : row[p].next >= -Old} ELSE DOMAIN row
            mine == [next |-> NextAt(Interval(s, c)), last |-> 0, adj |-> NextAdjusts(s)]
        IN  /\ c <= MaxCycle
            /\ cycle' = c
            /\ row' = [p \in kept \union {s} |-> IF p = s THEN mine ELSE row[p]]
            /\ Answer(s, Interval(s, c) - NextAdjust(s)) \/ (Losses /\ NoAnswer(s))
  BY DEF Serve
<1>. DEFINE kept == IF purge THEN {p \in DOMAIN row : row[p].next >= -Old} ELSE DOMAIN row
            mine == [next |-> NextAt(Interval(s, c)), last |-> 0, adj |-> NextAdjusts(s)]
<1>2. Interval(s, c) \in Int
  BY IntervalBounded DEF TypeInv
<1>3. NextAdjust(s) \in Int
  <2>1. NextAdjust(s) \in Adjustment
    BY NextAdjustOk
  <2>. QED
    BY <2>1 DEF Adjustment
<1>4. Timed'
  <2>. DEFINE i == Interval(s, c) - NextAdjust(s)
  <2>1. i \in Int
    BY <1>2, <1>3
  <2>2. Answer(s, i) \/ NoAnswer(s)
    BY <1>1
  <2>. HIDE DEF i
  <2>. QED
    BY <2>1, <2>2, AnswerTimed, NoAnswerTimed DEF TypeInv, Bounded
<1>5. Adjusted(mine)
  BY NextAdjustOk, TimesAssumption DEF Adjusted
<1>6. kept \subseteq DOMAIN row /\ row' = [p \in kept \union {s} |-> IF p = s THEN mine ELSE row[p]]
  BY <1>1
<1>. HIDE DEF kept, mine
<1>7. \A p \in DOMAIN row' : Adjusted(row'[p])
  BY <1>5, <1>6 DEF TypeInv, Bounded
<1>8. cycle' <= MaxCycle
  BY <1>1
<1>. QED
  BY <1>4, <1>7, <1>8 DEF Bounded, Adjusted

LEMMA TickBounded ==
  ASSUME TypeInv, Tick
  PROVE  Bounded'
<1>1. /\ timer' = [s \in Sessions |-> timer[s] - 1] /\ \A s \in Sessions : timer[s] # 0
      /\ row' = [s \in DOMAIN row |-> Passed(row[s])]
      /\ interval' = interval /\ cycle' = cycle
  BY DEF Tick, Due
<1>2. Timed'
  BY <1>1 DEF Timed, TypeInv, Bounded
<1>3. ASSUME NEW s \in DOMAIN row
      PROVE  Adjusted(Passed(row[s]))
  <2>. DEFINE n == Max({row[s].next - 1, -Old - 1})
              l == Min({row[s].last + 1, Old})
  <2>1. row[s] = [next |-> row[s].next, last |-> row[s].last, adj |-> row[s].adj]
        /\ row[s].last \in Nat /\ Adjusted(row[s]) /\ Old \in Nat
    BY TimesAssumption DEF TypeInv, Bounded, ScheduleInv, ScheduleType
  <2>2. Passed(row[s]) = [next |-> n, last |-> l, adj |-> row[s].adj]
    <3>. DEFINE r == row[s]
                u == r.next
                v == r.last
                w == r.adj
    <3>1. r = [next |-> u, last |-> v, adj |-> w]
      BY <2>1
    <3>2. Passed(r) = [r EXCEPT !.next = n, !.last = l]
      BY DEF Passed
    <3>. HIDE DEF n, l, r, u, v, w
    <3>3. Passed(r) = [next |-> n, last |-> l, adj |-> w]
      BY <3>1, <3>2
    <3>. QED
      BY <3>3 DEF r, w
  <2>3. l <= Old
    <3>. DEFINE S == {row[s].last + 1, Old}
    <3>1. S \subseteq Nat /\ S # {} /\ Old \in S
      BY <2>1
    <3>2. Min(S) <= Old
      <4>. HIDE DEF S
      <4>. QED  BY <3>1, MinIsLeast
    <3>. QED
      BY <3>2
  <2>. HIDE DEF n, l
  <2>. QED
    BY <2>1, <2>2, <2>3 DEF Adjusted
<1>4. \A s \in DOMAIN row' : Adjusted(row'[s])
  <2>. HIDE DEF Adjusted
  <2>. QED  BY <1>1, <1>3
<1>5. cycle' <= MaxCycle
  BY <1>1 DEF TypeInv, Bounded
<1>. QED
  BY <1>2, <1>4, <1>5 DEF Bounded, Adjusted

\* The other steps change nothing but when their session pings.
LEMMA BoundedStep == TypeInv /\ [Next]_vars => TypeInv'
<1>. SUFFICES ASSUME TypeInv, [Next]_vars
              PROVE  Bounded'
  BY ScheduleStep DEF TypeInv
<1>. DEFINE Rest == UNCHANGED <<row, cycle, age>>
<1>1. Rest /\ Timed' => Bounded'
  BY DEF TypeInv, Bounded, Adjusted
<1>2. CASE Tick
  BY <1>2, TickBounded
<1>3. ASSUME NEW s \in Sessions, Serve(s)
      PROVE  Bounded'
  BY <1>3, ServeBounded
<1>4. ASSUME NEW s \in Sessions, Reject(s)
      PROVE  Bounded'
  <2>. DEFINE i == -(Late(s) + LastAdjust(s)) - LastAdjust(s)
  <2>1. i \in Int
    <3>1. Late(s) \in Int /\ LastAdjust(s) \in Adjustment
      BY NextAdjustOk
    <3>2. LastAdjust(s) \in Int
      BY <3>1 DEF Adjustment
    <3>. QED
      BY <3>1, <3>2
  <2>2. Answer(s, i) /\ Rest
    BY <1>4 DEF Reject
  <2>. HIDE DEF i
  <2>. QED
    BY <2>1, <2>2, <1>1, AnswerTimed DEF TypeInv, Bounded
<1>5. ASSUME NEW s \in Sessions, Fail(s)
      PROVE  Bounded'
  <2>1. Answer(s, Offline) /\ Rest /\ Offline \in Int
    BY <1>5, TimesAssumption DEF Fail
  <2>. QED
    BY <2>1, <1>1, AnswerTimed DEF TypeInv, Bounded
<1>6. ASSUME NEW s \in Sessions, Lose(s)
      PROVE  Bounded'
  BY <1>6, <1>1, NoAnswerTimed DEF Lose, TypeInv, Bounded
<1>7. ASSUME NEW s \in Sessions, Reload(s)
      PROVE  Bounded'
  <2>1. cycle \in Nat /\ cycle >= Second
    BY TicksAssumption DEF TypeInv, ScheduleInv, ScheduleType
  <2>2. Timed'
    BY <1>7, <2>1 DEF Reload, Timed, TypeInv, Bounded
  <2>. QED
    BY <1>1, <1>7, <2>2 DEF Reload
<1>8. CASE UNCHANGED vars
  BY <1>8 DEF vars, TypeInv, Bounded, Timed, Adjusted
<1>. QED
  BY <1>2, <1>3, <1>4, <1>5, <1>6, <1>7, <1>8 DEF Next, Arrive

\* Adjustments stay within half a second and every list within the numbers kept, however late
\* pings are and whatever is lost; no client waits for less than a second between two pings.
THEOREM AdjustmentsStaySmall == Spec => []TypeOK
<1>1. Init => TypeInv
  <2>. SUFFICES ASSUME Init PROVE Bounded
    BY ScheduleInit DEF TypeInv
  <2>1. FirstCycle \in Nat /\ FirstCycle >= Second /\ FirstCycle <= MaxCycle
    BY TicksAssumption, TimesAssumption
  <2>. QED
    BY <2>1 DEF Init, Bounded, Timed
<1>2. TypeInv => TypeOK
  <2>. SUFFICES ASSUME TypeInv PROVE TypeOK
    OBVIOUS
  <2>1. Old \in Nat /\ MaxCycle \in Nat /\ Second \in Nat
    BY TicksAssumption, TimesAssumption
  <2>2. \A s \in DOMAIN row : /\ row[s].next \in Int /\ row[s].last \in 0..Old
                              /\ row[s].adj \in Seq(Adjustment) /\ Len(row[s].adj) <= Keep
    BY <2>1 DEF TypeInv, ScheduleInv, ScheduleType, Bounded, Adjusted
  <2>3. cycle \in 2 * Second..MaxCycle /\ age \in 0..Hold
    BY <2>1 DEF TypeInv, ScheduleInv, ScheduleType, Bounded
  <2>. QED
    BY <2>2, <2>3 DEF TypeOK, TypeInv, ScheduleInv, ScheduleType, Bounded, Timed
<1>. QED
  BY <1>1, <1>2, BoundedStep, PTL DEF Spec
===========================================================================
