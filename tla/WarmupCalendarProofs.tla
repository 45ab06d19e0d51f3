------------------------ MODULE WarmupCalendarProofs ------------------------
(***************************************************************************)
(* What holds of the daily warmup action and of the schedule for every     *)
(* number of workers, length of the day, office window, offset of a proxy  *)
(* and draw of rest days.  Three parts: the key of the day; the openings   *)
(* of the schedule, from a few facts about division; and the deferrals,    *)
(* whose end follows from where two openings in a row can fall.            *)
(***************************************************************************)
EXTENDS WarmupCalendar, TLAPS

-----------------------------------------------------------------------------
(* The key of the day                                                       *)

\* Two ticks under way make a rival.  With neither a rival nor a crash there is at most
\* one tick, it has found the key absent, and rows says how far it came.
DayInv ==
    /\ tick \in [Workers -> TickPhases]
    /\ rows \in 0..MaxRows
    /\ \A v, w \in Workers : v # w /\ tick[v] # "idle" /\ tick[w] # "idle" => rival
    /\ \A w \in Workers : tick[w] \in {"committed", "enqueued"} => rows > 0
    /\ done => rows > 0
    /\ ~ rival /\ ~ crashed =>
         /\ \A w \in Workers : tick[w] = "checked" => rows = 0
         /\ \A w \in Workers : tick[w] # "idle" => ~ done
         /\ Idle /\ ~ done => rows = 0
         /\ rows <= 1

LEMMA InitDay == Init => DayInv
BY CalendarConstants DEF Init, DayInv, TickPhases, Idle

LEMMA NextDay == DayInv /\ [Next]_vars => DayInv'
<1> SUFFICES ASSUME DayInv, [Next]_vars PROVE DayInv'
  OBVIOUS
<1> USE CalendarConstants
<1>1. ASSUME NEW w \in Workers, Begin(w) PROVE DayInv'
  BY <1>1 DEF DayInv, Begin, Idle, TickPhases
<1>2. ASSUME NEW w \in Workers, Insert(w) PROVE DayInv'
  <2>1. /\ tick' = [tick EXCEPT ![w] = "committed"] /\ rows' = rows + 1
        /\ tick[w] = "checked" /\ rows < MaxRows
        /\ UNCHANGED <<done, rival, crashed>>
    BY <1>2 DEF Insert
  <2>2. ASSUME ~ rival, NEW v \in Workers, v # w PROVE tick[v] = "idle"
    BY <2>1, <2>2 DEF DayInv
  <2>3. ~ rival /\ ~ crashed => rows = 0 /\ ~ done
    BY <2>1 DEF DayInv
  <2> QED
    BY <2>1, <2>2, <2>3 DEF DayInv, Idle, TickPhases
<1>3. ASSUME NEW w \in Workers, Enqueue(w) PROVE DayInv'
  BY <1>3 DEF DayInv, Enqueue, Idle, TickPhases
<1>4. ASSUME NEW w \in Workers, SetKey(w) PROVE DayInv'
  <2>1. /\ tick' = [tick EXCEPT ![w] = "idle"] /\ done' = TRUE
        /\ tick[w] = "enqueued"
        /\ UNCHANGED <<rows, rival, crashed>>
    BY <1>4 DEF SetKey
  <2>2. ASSUME ~ rival, NEW v \in Workers PROVE tick'[v] = "idle"
    BY <2>1, <2>2 DEF DayInv
  <2> QED
    BY <2>1, <2>2 DEF DayInv, Idle, TickPhases
<1>5. ASSUME NEW w \in Workers, Crash(w) PROVE DayInv'
  BY <1>5 DEF DayInv, Crash, Idle, TickPhases
<1>6. CASE Pass
  <2>1. /\ Idle /\ tick' = tick
        /\ \/ done' = FALSE /\ rows' = 0 /\ rival' = FALSE /\ crashed' = FALSE
           \/ UNCHANGED <<done, rows, rival, crashed>>
    BY <1>6 DEF Pass
  <2> QED
    BY <2>1 DEF DayInv, Idle, TickPhases
<1>7. CASE Dispatch \/ UNCHANGED vars
  BY <1>7 DEF DayInv, Dispatch, driver, vars, Idle
<1> QED
  BY <1>1, <1>2, <1>3, <1>4, <1>5, <1>6, <1>7 DEF Next, Ticks

\* warmup.py:163-166, 243: however many workers tick, and in whatever order, a second
\* row for an account and a day takes two ticks that overlap or one that died; and the
\* key never stands for a day without a row.
THEOREM OneWarmupPerDay == Spec => []OneActionPerDay
<1>1. DayInv => OneActionPerDay
  BY DEF DayInv, OneActionPerDay
<1> QED
  BY <1>1, InitDay, NextDay, PTL DEF Spec

-----------------------------------------------------------------------------
(* The openings of the schedule                                             *)

LEMMA Quotient ==
  ASSUME NEW a \in Int, NEW b \in Nat \ {0}
  PROVE  a \div b \in Int /\ a % b \in 0..b - 1 /\ a = b * (a \div b) + (a % b)
OBVIOUS

LEMMA Multiples ==
  ASSUME NEW p \in Int, NEW q \in Int, NEW b \in Nat, p < q
  PROVE  b * p + b <= b * q
<1>1. b * (p + 1) <= b * q
  OBVIOUS
<1> QED BY <1>1

\* The quotient and the rest are the only ones.
LEMMA QuotientIs ==
  ASSUME NEW a \in Int, NEW b \in Nat \ {0}, NEW q \in Int, NEW r \in 0..b - 1,
         a = b * q + r
  PROVE  a \div b = q /\ a % b = r
<1>1. PICK d \in Int, m \in 0..b - 1 : d = a \div b /\ m = a % b /\ a = b * d + m
  BY Quotient
<1>2. ~ (d < q)
  BY <1>1, Multiples
<1>3. ~ (q < d)
  BY <1>1, Multiples
<1> QED BY <1>1, <1>2, <1>3

LEMMA Distribute ==
  ASSUME NEW b \in Int, NEW p \in Int, NEW q \in Int
  PROVE  b * (p - q) = b * p - b * q /\ b * p \in Int /\ b * q \in Int
OBVIOUS

LEMMA WeekIs ==
  ASSUME NEW t \in Int, NEW week \in Nat \ {0}, week = Days * Hours
  PROVE  \E v \in Int, m \in 0..week - 1 : v = Week(t) /\ t = week * v + m
<1>1. Week(t) = t \div week
  BY DEF Week
<1> QED BY <1>1, Quotient

\* Days less than a week apart are different weekdays.
LEMMA OtherWeekday ==
  ASSUME NEW x \in Int, NEW y \in Int, NEW b \in Nat \ {0}, x < y, y - x < b
  PROVE  x % b # y % b
<1>1. PICK d \in Int, m \in 0..b - 1 : m = x % b /\ x = b * d + m
  BY Quotient
<1>2. PICK e \in Int, n \in 0..b - 1 : n = y % b /\ y = b * e + n
  BY Quotient
<1> SUFFICES ASSUME m = n PROVE FALSE
  BY <1>1, <1>2
<1>3. ~ (d < e)
  <2> SUFFICES ASSUME d < e PROVE FALSE
    OBVIOUS
  <2>1. PICK f \in Int, g \in Int : f = b * d /\ g = b * e /\ f + b <= g
    BY Multiples
  <2>2. x = f + m /\ y = g + m
    BY <1>1, <1>2, <2>1
  <2> QED BY <2>1, <2>2
<1>4. ~ (e < d)
  <2> SUFFICES ASSUME e < d PROVE FALSE
    OBVIOUS
  <2>1. b * e + b <= b * d
    BY Multiples
  <2> QED BY <1>1, <1>2, <2>1
<1> QED BY <1>1, <1>2, <1>3, <1>4

LEMMA FourWeekdays ==
  ASSUME NEW q \in Int
  PROVE  /\ q % Days # (q + 1) % Days /\ q % Days # (q + 2) % Days
         /\ (q + 1) % Days # (q + 2) % Days /\ (q + 1) % Days # (q + 3) % Days
         /\ (q + 2) % Days # (q + 3) % Days
<1>1. PICK x \in Int, y \in Int, z \in Int : x = q + 1 /\ y = q + 2 /\ z = q + 3
  OBVIOUS
<1>2. Days \in Nat \ {0} /\ Days >= 5
  BY ScheduleConstants
<1>3. /\ q < x /\ x - q < Days /\ q < y /\ y - q < Days
      /\ x < y /\ y - x < Days /\ x < z /\ z - x < Days /\ y < z /\ z - y < Days
  BY <1>1, <1>2
<1>4. q % Days # x % Days /\ q % Days # y % Days
  BY <1>2, <1>3, OtherWeekday
<1>5. x % Days # y % Days /\ x % Days # z % Days /\ y % Days # z % Days
  BY <1>2, <1>3, OtherWeekday
<1> QED BY <1>1, <1>4, <1>5

\* Local day and hour of an instant.
Day(t) == Local(t) \div Hours
Hour(t) == Local(t) % Hours

LEMMA DayAndHour ==
  ASSUME ScheduleTypeOK, NEW t \in Int
  PROVE  /\ zone \in Int /\ Day(t) \in Int /\ Hour(t) \in 0..Hours - 1
         /\ t = Hours * Day(t) + Hour(t) - zone
<1>1. zone \in Int /\ Hours \in Nat \ {0} /\ t + zone \in Int
  BY ScheduleConstants DEF ScheduleTypeOK
<1> QED
  BY <1>1, Quotient DEF Day, Hour, Local

LEMMA DayAndHourAre ==
  ASSUME ScheduleTypeOK, NEW t \in Int, NEW q \in Int, NEW r \in 0..Hours - 1,
         t = Hours * q + r - zone
  PROVE  Day(t) = q /\ Hour(t) = r
<1>1. zone \in Int /\ Hours \in Nat \ {0} /\ t + zone \in Int /\ t + zone = Hours * q + r
  BY ScheduleConstants DEF ScheduleTypeOK
<1> QED
  BY <1>1, QuotientIs DEF Day, Hour, Local

LEMMA WindowIs ==
  ASSUME ScheduleTypeOK
  PROVE  /\ window[1] \in Int /\ window[2] \in Int
         /\ Answers => window[1] \in 0..Hours - 1
         /\ Proper => Answers /\ window[1] < window[2]
<1>1. window \in Int \X Int
  BY ScheduleConstants DEF ScheduleTypeOK
<1> QED BY <1>1 DEF Answers, Proper

\* A week names at most two rest days, and the instant matters to it only by its week.
LEMMA TwoRestDays ==
  ASSUME ScheduleTypeOK, NEW t \in Int
  PROVE  \E x, y : RestDays(t) \subseteq {x, y}
<1>1. Week(t) % 2 \in {0, 1}
  <2>1. Days * Hours \in Nat \ {0}
    BY ScheduleConstants
  <2>2. Week(t) \in Int
    BY <2>1, WeekIs
  <2> QED BY <2>2
<1>2. rest[Week(t) % 2] \in RestSets
  BY <1>1 DEF ScheduleTypeOK
<1>3. PICK x \in 0..Days - 1, y \in 0..Days - 1 : rest[Week(t) % 2] = {x, y}
  BY <1>2, ScheduleConstants
<1>4. RestDays(t) \subseteq {x, y}
  BY <1>3 DEF RestDays
<1> QED BY <1>4

LEMMA ActiveIs ==
  ASSUME NEW t
  PROVE  ShouldBeActive(t) <=> /\ Day(t) % Days \notin RestDays(t)
                               /\ Hour(t) \in window[1]..window[2] - 1
BY DEF ShouldBeActive, Weekday, Day, Hour

LEMMA ProbesAre ==
  ASSUME ScheduleTypeOK, NEW t \in Int, NEW d \in 0..Days
  PROVE  /\ Opening(t, d) = Hours * (Day(t) + d) + window[1] - zone
         /\ d \in Probes(t) <=> /\ (Day(t) + d) % Days \notin RestDays(t)
                                /\ Opening(t, d) > t
<1> USE ScheduleConstants
<1> DEFINE q == Day(t)  r == Hour(t)
<1>1. q \in Int /\ r \in 0..Hours - 1 /\ zone \in Int /\ t = Hours * q + r - zone
  BY DayAndHour
<1>2. d \in Nat /\ Hours \in Nat \ {0}
  OBVIOUS
<1>3. (Local(t) + d * Hours) \div Hours = q + d
  <2> HIDE DEF q, r
  <2>1. Local(t) + d * Hours = Hours * (q + d) + r
    BY <1>1, <1>2 DEF Local
  <2>2. q + d \in Int /\ Local(t) + d * Hours \in Int
    BY <1>1, <1>2 DEF Local
  <2> QED BY <1>1, <1>2, <2>1, <2>2, QuotientIs
<1>4. Weekday(Local(t) + d * Hours) = (q + d) % Days
  BY <1>3 DEF Weekday
<1>5. Opening(t, d) = Hours * (q + d) + window[1] - zone
  <2>1. (q + d) * Hours = Hours * (q + d)
    BY <1>1, <1>2
  <2> QED BY <2>1 DEF Opening, Day
<1> QED
  BY <1>4, <1>5 DEF Probes

\* The probing succeeds within three days, and stops at the first day that will do.
LEMMA NextOpenIs ==
  ASSUME ScheduleTypeOK, Answers, NEW t \in Int
  PROVE  \E d \in 0..3 :
            /\ NextOpen(t) = Hours * (Day(t) + d) + window[1] - zone
            /\ NextOpen(t) > t
            /\ (Day(t) + d) % Days \notin RestDays(t)
            /\ d \in Probes(t) /\ \A e \in 0..d - 1 : e \notin Probes(t)
<1> DEFINE q == Day(t)  P == Probes(t)  first == CHOOSE d \in P : \A e \in P : d <= e
<1>1. P \subseteq 0..Days /\ 0..3 \subseteq 0..Days /\ Days \in Nat /\ Days >= 5
  BY ScheduleConstants DEF Probes
<1>2. \E d \in 1..3 : d \in P
  <2>1. PICK x, y : RestDays(t) \subseteq {x, y}
    BY TwoRestDays
  <2>2. PICK d \in 1..3 : (q + d) % Days \notin RestDays(t)
    <3>1. q \in Int
      BY DayAndHour
    <3>2. /\ (q + 1) % Days # (q + 2) % Days
          /\ (q + 1) % Days # (q + 3) % Days
          /\ (q + 2) % Days # (q + 3) % Days
      <4> HIDE DEF q
      <4> QED BY <3>1, FourWeekdays
    <3>3. \/ (q + 1) % Days \notin RestDays(t)
          \/ (q + 2) % Days \notin RestDays(t)
          \/ (q + 3) % Days \notin RestDays(t)
      BY <2>1, <3>2, Zenon
    <3> QED BY <3>3
  <2>3. Opening(t, d) > t
    <3>1. /\ Opening(t, d) = Hours * (q + d) + window[1] - zone
          /\ q \in Int /\ Hour(t) \in 0..Hours - 1 /\ zone \in Int /\ Hours \in Nat
          /\ t = Hours * q + Hour(t) - zone /\ window[1] \in 0..Hours - 1
      <4>1. d \in 0..Days
        BY <1>1
      <4>2. Opening(t, d) = Hours * (q + d) + window[1] - zone
        BY <4>1, ProbesAre
      <4> QED BY <4>2, DayAndHour, WindowIs, ScheduleConstants
    <3>2. Hours * q + Hours <= Hours * (q + d)
      <4> HIDE DEF q
      <4>1. q + d \in Int /\ q < q + d
        BY <3>1
      <4> QED BY <3>1, <4>1, Multiples
    <3>3. Hours * (q + d) \in Int
      BY <3>1
    <3> HIDE DEF q
    <3> QED BY <3>1, <3>2, <3>3
  <2> QED BY <1>1, <2>2, <2>3, ProbesAre
<1>3. \E d \in P : \A e \in P : d <= e
  <2> HIDE DEF P
  <2> QED BY <1>1, <1>2
<1>4. first \in P /\ \A e \in P : first <= e
  BY <1>3, Zenon
<1>5. first \in 0..3 /\ \A e \in 0..first - 1 : e \notin P
  <2> HIDE DEF first, P
  <2> QED BY <1>1, <1>2, <1>4
<1>6. NextOpen(t) = Opening(t, first)
  BY <1>2 DEF NextOpen
<1>7. first \in 0..Days
  BY <1>1, <1>5
<1> HIDE DEF first
<1> QED
  BY <1>4, <1>5, <1>6, <1>7, ProbesAre

\* The local clock at an opening reads the start of the window.
LEMMA OpeningReads ==
  ASSUME ScheduleTypeOK, Answers, NEW t \in Int, NEW d \in 0..3,
         NextOpen(t) = Hours * (Day(t) + d) + window[1] - zone
  PROVE  /\ NextOpen(t) \in Int
         /\ Day(NextOpen(t)) = Day(t) + d
         /\ Hour(NextOpen(t)) = window[1]
         /\ NextOpen(t) = t - Hour(t) + Hours * d + window[1]
<1> DEFINE q == Day(t)  s == window[1]
<1>1. /\ q \in Int /\ zone \in Int /\ Hours \in Nat \ {0} /\ s \in 0..Hours - 1
      /\ q + d \in Int /\ Hour(t) \in 0..Hours - 1 /\ t = Hours * q + Hour(t) - zone
  BY DayAndHour, WindowIs, ScheduleConstants
<1>2. Hours * (q + d) = Hours * q + Hours * d /\ Hours * (q + d) \in Int
      /\ Hours * q \in Int /\ Hours * d \in Int
  <2> HIDE DEF q
  <2> QED BY <1>1
<1>3. NextOpen(t) = Hours * (q + d) + s - zone
  OBVIOUS
<1> HIDE DEF q, s
<1>4. NextOpen(t) \in Int
  BY <1>1, <1>2, <1>3
<1>5. Day(NextOpen(t)) = q + d /\ Hour(NextOpen(t)) = s
  BY <1>1, <1>3, <1>4, DayAndHourAre
<1>6. NextOpen(t) = t - Hour(t) + Hours * d + s
  BY <1>1, <1>2, <1>3
<1> QED
  BY <1>4, <1>5, <1>6 DEF q, s

\* Between an instant at which the account is closed and the opening it is put off to,
\* nothing of the same week is open.
LEMMA NoneIsPassedOver ==
  ASSUME ScheduleTypeOK, Proper, NEW t \in Int, ~ ShouldBeActive(t),
         NEW u \in t..NextOpen(t), Week(u) = Week(t)
  PROVE  ShouldBeActive(u) <=> u = NextOpen(t)
<1>0. Answers
  BY DEF Proper
<1> USE <1>0
<1>1. PICK d \in 0..3 : /\ NextOpen(t) = Hours * (Day(t) + d) + window[1] - zone
                        /\ (Day(t) + d) % Days \notin RestDays(t)
                        /\ \A e \in 0..d - 1 : e \notin Probes(t)
  BY NextOpenIs
<1>2. RestDays(u) = RestDays(t)
  BY DEF RestDays
<1>3. /\ NextOpen(t) \in Int /\ Day(NextOpen(t)) = Day(t) + d
      /\ Hour(NextOpen(t)) = window[1]
  BY <1>1, OpeningReads
<1>4. window[1] \in 0..Hours - 1 /\ window[2] \in Int /\ window[1] < window[2]
  BY WindowIs
<1>5. CASE u = NextOpen(t)
  BY <1>1, <1>2, <1>3, <1>4, <1>5, ActiveIs
<1>6. CASE u # NextOpen(t)
  <2> SUFFICES ASSUME ShouldBeActive(u) PROVE FALSE
    BY <1>6
  <2>1. u \in Int /\ t <= u /\ u < NextOpen(t)
    BY <1>3, <1>6
  <2>2. Day(u) % Days \notin RestDays(t) /\ Hour(u) \in window[1]..window[2] - 1
    BY <1>2, ActiveIs
  <2>3. PICK q \in Int, r \in 0..Hours - 1 :
           q = Day(t) /\ r = Hour(t) /\ t = Hours * q + r - zone /\ zone \in Int
    BY DayAndHour
  <2>4. PICK p \in Int, h \in 0..Hours - 1 :
           p = Day(u) /\ h = Hour(u) /\ u = Hours * p + h - zone
    BY <2>1, DayAndHour
  <2>5. Hours \in Nat \ {0}
    BY ScheduleConstants
  <2>6. q <= p
    <3>1. ~ (p < q)
      BY <2>1, <2>3, <2>4, <2>5, Multiples
    <3> QED BY <3>1, <2>3, <2>4
  <2>7. p <= q + d
    <3>1. NextOpen(t) = Hours * (q + d) + window[1] - zone /\ q + d \in Int
      BY <1>1, <2>3
    <3>2. ~ (q + d < p)
      BY <1>4, <2>1, <2>3, <2>4, <2>5, <3>1, Multiples
    <3> QED BY <2>4, <3>1, <3>2
  <2>8. PICK e \in 0..d : p = q + e
    BY <2>6, <2>7
  <2>9. e \in 0..Days /\ e \in Int
    BY ScheduleConstants
  <2>10. Opening(t, e) = Hours * p + window[1] - zone
    BY <2>3, <2>8, <2>9, ProbesAre
  <2>11. CASE Opening(t, e) > t
    <3>1. e \in Probes(t)
      BY <2>2, <2>3, <2>4, <2>8, <2>9, <2>11, ProbesAre
    <3>2. e = d
      BY <1>1, <3>1
    <3>3. NextOpen(t) = Hours * p + window[1] - zone
      BY <1>1, <2>3, <2>8, <3>2
    <3>4. h >= window[1] /\ Hours * p \in Int
      BY <1>4, <2>2, <2>4, <2>5
    <3> QED
      BY <1>4, <2>1, <2>3, <2>4, <2>5, <3>3, <3>4
  <2>12. CASE ~ (Opening(t, e) > t)
    <3>1. /\ Hours * p \in Int /\ Hours * q \in Int
          /\ Hours * p + window[1] - zone <= t
      BY <1>4, <2>3, <2>4, <2>5, <2>10, <2>12
    <3>2. ~ (q < p)
      BY <1>4, <2>3, <2>4, <2>5, <3>1, Multiples
    <3>3. p = q
      BY <2>6, <3>2
    <3>4. r \in window[1]..window[2] - 1
      BY <1>4, <2>1, <2>2, <2>3, <2>4, <3>1, <3>3
    <3> QED
      BY <2>2, <2>3, <2>4, <3>3, <3>4, ActiveIs
  <2> QED BY <2>11, <2>12
<1> QED BY <1>5, <1>6

-----------------------------------------------------------------------------
(* Deferrals                                                                *)

\* A closed account has its opening less than three days ahead: of the days to come the
\* third is needed only if both days before it are rest days, and then this day is none
\* and its window is past.
LEMMA FirstWait ==
  ASSUME ScheduleTypeOK, Proper, NEW t \in Int, ~ ShouldBeActive(t)
  PROVE  NextOpen(t) < t + Hours * 3
<1>0. Answers
  BY DEF Proper
<1> USE <1>0
<1>1. PICK d \in 0..3 : /\ NextOpen(t) = Hours * (Day(t) + d) + window[1] - zone
                        /\ \A e \in 0..d - 1 : e \notin Probes(t)
  BY NextOpenIs
<1>2. /\ NextOpen(t) \in Int
      /\ NextOpen(t) = t - Hour(t) + Hours * d + window[1]
  BY <1>1, OpeningReads
<1>3. /\ window[1] \in 0..Hours - 1 /\ window[2] \in Int /\ window[1] < window[2]
      /\ Hours \in Nat \ {0}
  BY WindowIs, ScheduleConstants
<1>4. PICK q \in Int, r \in 0..Hours - 1 :
         q = Day(t) /\ r = Hour(t) /\ t = Hours * q + r - zone /\ zone \in Int
  BY DayAndHour
<1>5. CASE d # 3
  <2>1. d = 0 \/ d = 1 \/ d = 2
    BY <1>5
  <2> QED BY <1>2, <1>3, <1>4, <2>1
<1>6. CASE d = 3
  <2>1. 0 \in 0..Days /\ 1 \in 0..Days /\ 2 \in 0..Days
    BY ScheduleConstants
  <2>2. 0 \notin Probes(t) /\ 1 \notin Probes(t) /\ 2 \notin Probes(t)
    BY <1>1, <1>6
  <2>3. Opening(t, 1) > t /\ Opening(t, 2) > t
    <3>1. Opening(t, 1) = Hours * (q + 1) + window[1] - zone
      BY <1>4, <2>1, ProbesAre
    <3>2. Opening(t, 2) = Hours * (q + 2) + window[1] - zone
      BY <1>4, <2>1, ProbesAre
    <3>3. /\ Hours * (q + 1) = Hours * q + Hours
          /\ Hours * (q + 2) = Hours * q + Hours * 2
          /\ Hours * q \in Int
      BY <1>3, <1>4
    <3> QED BY <1>3, <1>4, <3>1, <3>2, <3>3
  <2>4. (q + 1) % Days \in RestDays(t) /\ (q + 2) % Days \in RestDays(t)
    BY <1>4, <2>1, <2>2, <2>3, ProbesAre
  <2>5. q % Days \notin RestDays(t)
    <3>1. PICK x, y : RestDays(t) \subseteq {x, y}
      BY TwoRestDays
    <3> QED BY <2>4, <3>1, FourWeekdays, Zenon
  <2>6. ~ (r \in window[1]..window[2] - 1)
    BY <1>4, <2>5, ActiveIs
  <2>7. ~ (Opening(t, 0) > t)
    <3>1. q + 0 = q
      OBVIOUS
    <3> QED BY <1>4, <2>1, <2>2, <2>5, <3>1, ProbesAre
  <2>8. Opening(t, 0) = Hours * q + window[1] - zone
    <3>1. q + 0 = q
      OBVIOUS
    <3> QED BY <1>4, <2>1, <3>1, ProbesAre
  <2>9. r >= window[2]
    BY <1>3, <1>4, <2>6, <2>7, <2>8
  <2> QED BY <1>2, <1>3, <1>4, <1>6, <2>9
<1> QED BY <1>5, <1>6

\* An opening that is closed when it comes lies in a new week, which rests on that day
\* and so on one other day at most; and the five days are not over before that week is.
LEMMA SecondWait ==
  ASSUME ScheduleTypeOK, Proper, NEW t \in Int, ~ ShouldBeActive(t), ~ ShouldBeActive(NextOpen(t))
  PROVE  /\ NextOpen(NextOpen(t)) < t + LongestWait
         /\ ShouldBeActive(NextOpen(NextOpen(t)))
<1>0. Answers
  BY DEF Proper
<1> USE <1>0
<1>1. PICK d \in 0..3 : /\ NextOpen(t) = Hours * (Day(t) + d) + window[1] - zone
                        /\ NextOpen(t) > t
                        /\ (Day(t) + d) % Days \notin RestDays(t)
  BY NextOpenIs
<1>2. PICK o \in Int : o = NextOpen(t)
  BY <1>1, OpeningReads
<1>3. Day(o) = Day(t) + d /\ Hour(o) = window[1]
  BY <1>1, <1>2, OpeningReads
<1>4. /\ window[1] \in 0..Hours - 1 /\ window[2] \in Int /\ window[1] < window[2]
      /\ Hours \in Nat \ {0} /\ Days \in Nat \ {0} /\ Days >= 5
  BY WindowIs, ScheduleConstants
<1>5. Day(o) % Days \in RestDays(o)
  BY <1>2, <1>3, <1>4, ActiveIs
<1>6. Week(o) # Week(t)
  BY <1>1, <1>3, <1>5 DEF RestDays
<1>7. t < o /\ o < t + Hours * 3
  BY <1>1, <1>2, FirstWait
<1>8. PICK c \in 0..3 : /\ NextOpen(o) = Hours * (Day(o) + c) + window[1] - zone
                        /\ NextOpen(o) > o
                        /\ (Day(o) + c) % Days \notin RestDays(o)
                        /\ \A e \in 0..c - 1 : e \notin Probes(o)
  BY NextOpenIs
<1>9. /\ NextOpen(o) \in Int /\ Day(NextOpen(o)) = Day(o) + c
      /\ Hour(NextOpen(o)) = window[1]
      /\ NextOpen(o) = o + Hours * c
  <2>1. NextOpen(o) = o - Hour(o) + Hours * c + window[1] /\ NextOpen(o) \in Int
    BY <1>8, OpeningReads
  <2>2. NextOpen(o) = o + Hours * c
    BY <1>3, <1>4, <2>1
  <2> QED BY <1>8, <2>1, <2>2, OpeningReads
<1>10. c \in 1..2
  <2>1. c # 0
    BY <1>4, <1>8, <1>9
  <2>2. ASSUME c = 3 PROVE FALSE
    <3>1. PICK q \in Int : q = Day(o)
      BY DayAndHour
    <3>2. 1 \in 0..Days /\ 2 \in 0..Days /\ 1 \notin Probes(o) /\ 2 \notin Probes(o)
      BY <1>4, <1>8, <2>2
    <3>3. Opening(o, 1) > o /\ Opening(o, 2) > o
      <4>1. Opening(o, 1) = Hours * (q + 1) + window[1] - zone
        BY <3>1, <3>2, ProbesAre
      <4>2. Opening(o, 2) = Hours * (q + 2) + window[1] - zone
        BY <3>1, <3>2, ProbesAre
      <4>3. o = Hours * q + window[1] - zone /\ zone \in Int
        BY <1>3, <3>1, DayAndHour
      <4>4. /\ Hours * (q + 1) = Hours * q + Hours
            /\ Hours * (q + 2) = Hours * q + Hours * 2
            /\ Hours * q \in Int
        BY <1>4, <3>1
      <4> QED BY <1>4, <4>1, <4>2, <4>3, <4>4
    <3>4. (q + 1) % Days \in RestDays(o) /\ (q + 2) % Days \in RestDays(o)
      BY <3>1, <3>2, <3>3, ProbesAre
    <3>5. PICK x, y : RestDays(o) \subseteq {x, y}
      BY TwoRestDays
    <3> QED BY <1>5, <3>1, <3>4, <3>5, FourWeekdays, Zenon
  <2> QED BY <2>1, <2>2
<1>11. NextOpen(o) <= o + Hours * 2
  <2>1. c = 1 \/ c = 2
    BY <1>10
  <2> QED BY <1>4, <1>9, <2>1
<1>12. Week(NextOpen(o)) = Week(o)
  <2>1. PICK week \in Nat \ {0} : week = Days * Hours
    BY <1>4
  <2>2. Hours * 5 <= week
    <3>1. Hours * 5 <= Hours * Days
      BY <1>4
    <3> QED BY <1>4, <2>1, <3>1
  <2>3. PICK v \in Int, m \in 0..week - 1 : v = Week(t) /\ t = week * v + m
    BY <2>1, WeekIs
  <2>4. PICK w \in Int, n \in 0..week - 1 : w = Week(o) /\ o = week * w + n
    BY <2>1, WeekIs
  <2>5. v < w
    <3>1. ~ (w < v)
      BY <1>7, <2>3, <2>4, Multiples
    <3> QED BY <1>6, <2>3, <2>4, <3>1
  <2>6. week * v + week <= week * w
    BY <2>5, Multiples
  <2>7. n < Hours * 3
    BY <1>4, <1>7, <2>3, <2>4, <2>6
  <2>8. PICK k \in 0..week - 1 : NextOpen(o) = week * w + k
    <3>1. n + (NextOpen(o) - o) \in 0..week - 1
      BY <1>4, <1>8, <1>9, <1>11, <2>2, <2>7
    <3> QED BY <1>9, <2>4, <3>1
  <2>9. NextOpen(o) \div week = w
    BY <1>9, <2>8, QuotientIs
  <2> QED BY <2>1, <2>4, <2>9 DEF Week
<1>13. NextOpen(o) < t + LongestWait
  BY <1>4, <1>7, <1>9, <1>11 DEF LongestWait
<1>14. ShouldBeActive(NextOpen(o))
  <2>1. RestDays(NextOpen(o)) = RestDays(o)
    BY <1>12 DEF RestDays
  <2> QED BY <1>4, <1>8, <1>9, <2>1, ActiveIs
<1> QED BY <1>2, <1>13, <1>14

\* now is taken modulo two weeks: the schedule of two weeks ago is the schedule of now.
LEMMA Fortnight ==
  ASSUME ScheduleTypeOK, Answers, NEW t \in Int, NEW u \in Int, u = t - Horizon
  PROVE  /\ ShouldBeActive(u) <=> ShouldBeActive(t)
         /\ NextOpen(u) = NextOpen(t) - Horizon
<1>1. PICK week \in Nat \ {0} : week = Days * Hours
  BY ScheduleConstants
<1>2. PICK twice \in Nat : twice = Days * 2
  BY ScheduleConstants
<1>3. /\ Horizon = week * 2 /\ Horizon = Hours * twice /\ Horizon \in Nat
      /\ Hours \in Nat \ {0} /\ Days \in Nat \ {0} /\ Days >= 5
  BY <1>1, <1>2, ScheduleConstants DEF Horizon
<1>4. Week(u) = Week(t) - 2
  <2>1. PICK v \in Int, m \in 0..week - 1 : v = Week(t) /\ t = week * v + m
    BY <1>1, WeekIs
  <2>2. v - 2 \in Int /\ u = week * (v - 2) + m
    BY <1>3, <2>1
  <2>3. u \div week = v - 2
    BY <2>2, QuotientIs
  <2> QED BY <1>1, <2>1, <2>3 DEF Week
<1>5. RestDays(u) = RestDays(t)
  <2>1. Week(t) \in Int
    BY <1>1, WeekIs
  <2>2. (Week(t) - 2) % 2 = Week(t) % 2
    BY <2>1
  <2> QED BY <1>4, <2>2 DEF RestDays
<1>6. PICK q \in Int, r \in 0..Hours - 1 :
         q = Day(t) /\ r = Hour(t) /\ t = Hours * q + r - zone /\ zone \in Int
  BY DayAndHour
<1>7. Day(u) = q - twice /\ Hour(u) = r
  <2>1. /\ q - twice \in Int /\ Hours * (q - twice) = Hours * q - Hours * twice
        /\ Hours * q \in Int
    BY <1>2, <1>3, <1>6, Distribute
  <2>2. u = Hours * (q - twice) + r - zone
    BY <1>3, <1>6, <2>1
  <2> QED BY <2>1, <2>2, DayAndHourAre
<1>8. \A e \in 0..Days : ((q - twice) + e) % Days = (q + e) % Days
  <2> SUFFICES ASSUME NEW e \in 0..Days PROVE ((q - twice) + e) % Days = (q + e) % Days
    OBVIOUS
  <2>1. PICK x \in Int, y \in Int : x = q + e /\ y = (q - twice) + e /\ y = x - twice
    BY <1>2, <1>6
  <2>2. Days \in Nat \ {0}
    BY <1>3
  <2>3. PICK k \in Int, m \in 0..Days - 1 : m = x % Days /\ x = Days * k + m
    BY <2>2, Quotient
  <2>4. k - 2 \in Int /\ Days * (k - 2) = Days * k - Days * 2
    BY <2>2, Distribute
  <2>5. y = Days * (k - 2) + m
    BY <1>2, <2>1, <2>2, <2>3, <2>4
  <2>6. y % Days = m
    BY <2>2, <2>4, <2>5, QuotientIs
  <2> QED BY <2>1, <2>3, <2>6
<1>9. (q - twice) % Days = q % Days
  <2>1. (q - twice) + 0 = q - twice /\ q + 0 = q /\ 0 \in 0..Days
    BY <1>2, <1>3
  <2> QED BY <1>8, <2>1
<1>10. ShouldBeActive(u) <=> ShouldBeActive(t)
  BY <1>5, <1>6, <1>7, <1>9, ActiveIs
<1>11. window[1] \in 0..Hours - 1
  BY WindowIs
<1>12. \A e \in 0..Days : /\ Opening(u, e) = Opening(t, e) - Horizon
                          /\ e \in Probes(u) <=> e \in Probes(t)
  <2> SUFFICES ASSUME NEW e \in 0..Days
               PROVE  /\ Opening(u, e) = Opening(t, e) - Horizon
                      /\ e \in Probes(u) <=> e \in Probes(t)
    OBVIOUS
  <2>1. /\ Opening(t, e) = Hours * (q + e) + window[1] - zone
        /\ e \in Probes(t) <=> (q + e) % Days \notin RestDays(t) /\ Opening(t, e) > t
    BY <1>6, ProbesAre
  <2>2. /\ Opening(u, e) = Hours * ((q - twice) + e) + window[1] - zone
        /\ e \in Probes(u) <=>
              ((q - twice) + e) % Days \notin RestDays(u) /\ Opening(u, e) > u
    BY <1>7, ProbesAre
  <2>3. PICK x \in Int, big \in Int : x = q + e /\ big = Hours * x
    BY <1>3, <1>6
  <2>4. (q - twice) + e = x - twice /\ Hours * (x - twice) = big - Horizon
    <3>1. (q - twice) + e = x - twice
      <4>1. e \in Int
        BY <1>3
      <4> QED BY <1>2, <2>3, <4>1
    <3>2. Hours * (x - twice) = Hours * x - Hours * twice
      BY <1>2, <1>3, Distribute
    <3> QED BY <1>3, <2>3, <3>1, <3>2
  <2>5. Opening(u, e) = Opening(t, e) - Horizon /\ Opening(t, e) \in Int
    <3>1. Opening(t, e) = big + window[1] - zone
      BY <2>1, <2>3
    <3>2. Opening(u, e) = (big - Horizon) + window[1] - zone
      BY <2>2, <2>4
    <3>3. Horizon \in Int /\ window[1] \in Int
      BY <1>3, <1>11
    <3> QED BY <1>6, <3>1, <3>2, <3>3
  <2>6. Opening(u, e) > u <=> Opening(t, e) > t
    BY <1>3, <2>5
  <2> QED BY <1>5, <1>8, <2>1, <2>2, <2>5, <2>6
<1>13. NextOpen(u) = NextOpen(t) - Horizon
  <2>1. PICK d \in 0..3 : /\ NextOpen(t) = Hours * (Day(t) + d) + window[1] - zone
                          /\ d \in Probes(t)
                          /\ \A e \in 0..d - 1 : e \notin Probes(t)
    BY NextOpenIs
  <2>2. PICK c \in 0..3 : /\ NextOpen(u) = Hours * (Day(u) + c) + window[1] - zone
                          /\ c \in Probes(u)
                          /\ \A e \in 0..c - 1 : e \notin Probes(u)
    BY NextOpenIs
  <2>3. c \in 0..Days /\ d \in 0..Days
    BY <1>3
  <2>4. c \in Probes(t) /\ d \in Probes(u)
    BY <1>12, <2>1, <2>2, <2>3
  <2>5. c = d
    BY <2>1, <2>2, <2>4
  <2>6. NextOpen(t) = Opening(t, d) /\ NextOpen(u) = Opening(u, d)
    BY <2>1, <2>2, <2>3, <2>5, ProbesAre
  <2> QED BY <1>12, <2>3, <2>6
<1> QED BY <1>10, <1>13

\* Nothing but the schedule matters to the openings, and no step changes it.
LEMMA Unmoved ==
  ASSUME UNCHANGED schedule, NEW t
  PROVE  /\ ShouldBeActive(t)' <=> ShouldBeActive(t)
         /\ NextOpen(t)' = NextOpen(t)
<1>1. window' = window /\ zone' = zone /\ rest' = rest
  BY DEF schedule
<1>2. ShouldBeActive(t)' <=> ShouldBeActive(t)
  BY <1>1 DEF ShouldBeActive, RestDays, Disabled, Local, Week, Weekday
<1>3. Probes(t)' = Probes(t)
  BY <1>1 DEF Probes, Opening, RestDays, Disabled, Local, Week, Weekday
<1>4. \A d : Opening(t, d)' = Opening(t, d)
  BY <1>1 DEF Opening, Local
<1>5. NextOpen(t)' = NextOpen(t)
  BY <1>3, <1>4 DEF NextOpen
<1> QED BY <1>2, <1>5

\* What a deferral that began at b waits for, when its end is u: it is still to be looked
\* at, or u is the first opening, or that opening was closed and u is the one after it.
Waits(b, u) ==
    \/ b = u
    \/ /\ ~ ShouldBeActive(b)
       /\ \/ u = NextOpen(b)
          \/ \E o : /\ o = NextOpen(b) /\ ~ ShouldBeActive(o)
                    /\ u = NextOpen(o)

DeferralInv ==
    Proper /\ task # None =>
        /\ task.age < LongestWait
        /\ \A b, u : b = now - task.age /\ u = now + task.left => Waits(b, u)

CalendarInv == TypeOK /\ DayInv /\ DeferralInv

LEMMA NextOpenType ==
  ASSUME ScheduleTypeOK, Answers, NEW t \in Int
  PROVE  NextOpen(t) \in Int /\ NextOpen(t) > t
BY NextOpenIs, OpeningReads

LEMMA WaitsEnd ==
  ASSUME ScheduleTypeOK, Proper, NEW b \in Int, NEW u, Waits(b, u)
  PROVE  u < b + LongestWait
<1>0. Answers
  BY DEF Proper
<1> USE <1>0
<1>1. Hours \in Nat \ {0} /\ LongestWait = Hours * 5
  BY ScheduleConstants DEF LongestWait
<1>2. CASE b = u
  BY <1>1, <1>2
<1>3. CASE ~ ShouldBeActive(b) /\ u = NextOpen(b)
  BY <1>1, <1>3, FirstWait, NextOpenType
<1>4. CASE ~ ShouldBeActive(b) /\ ~ ShouldBeActive(NextOpen(b)) /\ u = NextOpen(NextOpen(b))
  BY <1>4, SecondWait
<1> QED BY <1>2, <1>3, <1>4 DEF Waits

\* Put off again, a task waits for the next opening; after two of them it is not put off.
LEMMA WaitsOn ==
  ASSUME ScheduleTypeOK, Proper, NEW b \in Int, NEW n \in Int, Waits(b, n), ~ ShouldBeActive(n)
  PROVE  Waits(b, NextOpen(n))
<1>0. Answers
  BY DEF Proper
<1> USE <1>0
<1>1. CASE b = n
  BY <1>1 DEF Waits
<1>2. CASE ~ ShouldBeActive(b) /\ n = NextOpen(b)
  BY <1>2 DEF Waits
<1>3. CASE ~ ShouldBeActive(b) /\ ~ ShouldBeActive(NextOpen(b)) /\ n = NextOpen(NextOpen(b))
  BY <1>3, SecondWait
<1> QED BY <1>1, <1>2, <1>3 DEF Waits

LEMMA WaitsFortnight ==
  ASSUME ScheduleTypeOK, Proper, Horizon \in Int, NEW b \in Int, NEW u \in Int, Waits(b, u)
  PROVE  Waits(b - Horizon, u - Horizon)
<1>0. Answers
  BY DEF Proper
<1> USE <1>0
<1>1. PICK c \in Int, o \in Int, p \in Int :
         c = b - Horizon /\ o = NextOpen(b) /\ p = o - Horizon
  BY NextOpenType
<1>2. /\ ShouldBeActive(c) <=> ShouldBeActive(b)
      /\ NextOpen(c) = p
  BY <1>1, Fortnight
<1>3. /\ ShouldBeActive(p) <=> ShouldBeActive(o)
      /\ NextOpen(p) = NextOpen(o) - Horizon
  BY <1>1, Fortnight
<1> QED BY <1>1, <1>2, <1>3 DEF Waits

LEMMA WaitsUnmoved ==
  ASSUME UNCHANGED schedule
  PROVE  \A b, u : Waits(b, u)' <=> Waits(b, u)
BY Unmoved DEF Waits

LEMMA HorizonIsPositive == Horizon \in Nat \ {0}
<1>1. PICK week \in Nat \ {0} : week = Days * Hours
  BY ScheduleConstants
<1>2. Horizon = 2 * week
  BY <1>1, ScheduleConstants DEF Horizon
<1> QED BY <1>2

LEMMA LongestIsPositive == LongestWait \in Nat \ {0}
BY ScheduleConstants DEF LongestWait

LEMMA InitCalendar == Init => CalendarInv
<1> SUFFICES ASSUME Init PROVE CalendarInv
  OBVIOUS
<1>1. 0 \in 0..Horizon - 1
  BY HorizonIsPositive
<1>2. cronDue \in BOOLEAN /\ done \in BOOLEAN /\ rival \in BOOLEAN /\ crashed \in BOOLEAN
  BY DEF Init
<1>3. /\ ScheduleTypeOK /\ now \in 0..Horizon - 1
      /\ tick \in [Workers -> TickPhases] /\ rows \in 0..MaxRows
      /\ task \in [age : 0..LongestWait, left : Nat] \cup {None}
  BY <1>1, CalendarConstants DEF Init, ScheduleInit, TickPhases
<1>4. TypeOK
  BY <1>2, <1>3 DEF TypeOK
<1>5. DeferralInv
  BY DEF Init, DeferralInv
<1> QED BY <1>4, <1>5, InitDay DEF CalendarInv

\* The steps that leave the clock, the schedule and the followed task alone.
Elsewhere(w) ==
    Begin(w) \/ Insert(w) \/ SetKey(w) \/ Crash(w)

LEMMA ElsewhereType ==
  ASSUME TypeOK, NEW w \in Workers, Elsewhere(w)
  PROVE  TypeOK'
<1>1. UNCHANGED <<schedule, now, task>>
  BY DEF Elsewhere, Begin, Insert, SetKey, Crash
<1>2. ScheduleTypeOK' /\ now' \in 0..Horizon - 1 /\ task' \in [age : 0..LongestWait, left : Nat] \cup {None}
  BY <1>1 DEF TypeOK, ScheduleTypeOK, schedule, Horizon, LongestWait
<1>3. tick' \in [Workers -> TickPhases]
  BY DEF Elsewhere, Begin, Insert, SetKey, Crash, TypeOK, TickPhases
<1>4. rows' \in 0..MaxRows
  BY CalendarConstants DEF Elsewhere, Begin, Insert, SetKey, Crash, TypeOK
<1>5. cronDue' \in BOOLEAN /\ done' \in BOOLEAN /\ rival' \in BOOLEAN /\ crashed' \in BOOLEAN
  BY DEF Elsewhere, Begin, Insert, SetKey, Crash, TypeOK
<1> QED BY <1>2, <1>3, <1>4, <1>5 DEF TypeOK

LEMMA EnqueueType ==
  ASSUME TypeOK, NEW w \in Workers, Enqueue(w)
  PROVE  /\ TypeOK'
         /\ UNCHANGED <<schedule, now>>
         /\ task' = task \/ task' = None \/ task' = [age |-> 0, left |-> 0]
<1>1. UNCHANGED <<schedule, now, cronDue, done, rows, rival, crashed>>
  BY DEF Enqueue
<1>2. task' = task \/ task' = None \/ task' = [age |-> 0, left |-> 0]
  BY DEF Enqueue
<1>3. tick' \in [Workers -> TickPhases]
  BY DEF Enqueue, TypeOK, TickPhases
<1>4. task' \in [age : 0..LongestWait, left : Nat] \cup {None}
  BY <1>2, LongestIsPositive DEF TypeOK
<1> QED BY <1>1, <1>2, <1>3, <1>4 DEF TypeOK, ScheduleTypeOK, schedule, Horizon, LongestWait

\* The clock as a step of Pass leaves it: one slot on, or one slot on and two weeks back.
LEMMA PassType ==
  ASSUME TypeOK, Pass
  PROVE  /\ TypeOK'
         /\ UNCHANGED schedule
         /\ now' = now + 1 \/ now' = now + 1 - Horizon
         /\ task' = None \/ /\ task # None /\ task' = Older(task)
                            /\ Answers => task.left # 0
<1>1. /\ Due => Raises
      /\ now' = (now + 1) % Horizon
      /\ task' = IF task = None THEN None ELSE Older(task)
      /\ UNCHANGED <<schedule, tick>>
  BY DEF Pass
<1>2. Horizon \in Nat \ {0} /\ now \in 0..Horizon - 1
  BY HorizonIsPositive DEF TypeOK
<1>3. /\ now' \in 0..Horizon - 1
      /\ now' = now + 1 \/ now' = now + 1 - Horizon
  <2>1. CASE now + 1 < Horizon
    <3>1. (now + 1) % Horizon = now + 1
      BY <1>2, <2>1
    <3> QED BY <1>1, <1>2, <2>1, <3>1
  <2>2. CASE now + 1 = Horizon
    <3>1. (now + 1) % Horizon = 0
      BY <1>2, <2>2
    <3> QED BY <1>1, <1>2, <2>2, <3>1
  <2> QED BY <1>2, <2>1, <2>2
<1>4. /\ task' \in [age : 0..LongestWait, left : Nat] \cup {None}
      /\ task' = None \/ /\ task # None /\ task' = Older(task)
                         /\ Answers => task.left # 0
  <2>1. CASE task = None
    BY <1>1, <2>1
  <2>2. CASE task # None
    <3>1. PICK a \in 0..LongestWait, l \in Nat : task = [age |-> a, left |-> l]
      BY <2>2 DEF TypeOK
    <3>2. Older(task) \in [age : 0..LongestWait, left : Nat]
      <4>1. /\ Older(task).age = (IF a < LongestWait THEN a + 1 ELSE a)
            /\ Older(task).left = (IF l = 0 THEN 0 ELSE l - 1)
            /\ Older(task) = [age |-> IF a < LongestWait THEN a + 1 ELSE a,
                              left |-> IF l = 0 THEN 0 ELSE l - 1]
        BY <3>1 DEF Older
      <4>2. (IF a < LongestWait THEN a + 1 ELSE a) \in 0..LongestWait
        BY LongestIsPositive
      <4>3. (IF l = 0 THEN 0 ELSE l - 1) \in Nat
        OBVIOUS
      <4> QED BY <4>1, <4>2, <4>3
    <3>3. Answers => task.left # 0
      BY <1>1, <2>2 DEF Due, Raises
    <3> QED BY <1>1, <2>2, <3>2, <3>3
  <2> QED BY <2>1, <2>2
<1>5. rows' \in 0..MaxRows
  BY CalendarConstants DEF Pass, TypeOK
<1>6. done' \in BOOLEAN /\ rival' \in BOOLEAN /\ crashed' \in BOOLEAN
  BY DEF Pass, TypeOK
<1>7. cronDue' \in BOOLEAN
  BY DEF Pass
<1>8. Horizon' = Horizon /\ LongestWait' = LongestWait
  BY DEF Horizon, LongestWait
<1> QED
  BY <1>1, <1>3, <1>4, <1>5, <1>6, <1>7, <1>8 DEF TypeOK, ScheduleTypeOK, schedule

LEMMA DispatchType ==
  ASSUME TypeOK, Dispatch
  PROVE  /\ TypeOK'
         /\ UNCHANGED <<schedule, now>>
         /\ task # None /\ task.left = 0
         /\ task' = None \/ /\ ~ ShouldBeActive(now) /\ Answers
                            /\ task' = [age |-> task.age, left |-> NextOpen(now) - now]
<1>1. /\ task # None /\ task.left = 0 /\ UNCHANGED <<schedule, now, driver>>
      /\ ShouldBeActive(now) \/ Answers
      /\ task' = IF ShouldBeActive(now) THEN None
                 ELSE [task EXCEPT !.left = NextOpen(now) - now]
  BY DEF Dispatch, Due, Raises
<1>2. ScheduleTypeOK /\ now \in Int
  BY HorizonIsPositive DEF TypeOK
<1>3. PICK a \in 0..LongestWait : task = [age |-> a, left |-> 0]
  BY <1>1 DEF TypeOK
<1>4. Answers => NextOpen(now) - now \in Nat
  <2> SUFFICES ASSUME Answers PROVE NextOpen(now) - now \in Nat
    OBVIOUS
  <2>1. NextOpen(now) \in Int /\ NextOpen(now) > now
    BY <1>2, NextOpenType
  <2> QED BY <1>2, <2>1
<1>5. task' = None \/ /\ ~ ShouldBeActive(now) /\ Answers
                      /\ task' = [age |-> task.age, left |-> NextOpen(now) - now]
  BY <1>1, <1>3
<1>6. task' \in [age : 0..LongestWait, left : Nat] \cup {None}
  BY <1>3, <1>4, <1>5
<1> QED
  BY <1>1, <1>5, <1>6 DEF TypeOK, ScheduleTypeOK, schedule, driver, Horizon, LongestWait

LEMMA WindowsStay ==
  ASSUME UNCHANGED schedule
  PROVE  /\ Answers' <=> Answers
         /\ Proper' <=> Proper
         /\ LongestWait' = LongestWait
BY DEF schedule, Answers, Proper, LongestWait

\* The followed task is none, or new, or as it was.
LEMMA SameDeferral ==
  ASSUME TypeOK, DeferralInv, UNCHANGED <<schedule, now>>,
         task' = task \/ task' = None \/ task' = [age |-> 0, left |-> 0]
  PROVE  DeferralInv'
<1> SUFFICES ASSUME Proper, task' # None
             PROVE  /\ task'.age < LongestWait
                    /\ \A b, u : b = now - task'.age /\ u = now + task'.left => Waits(b, u)
  BY WaitsUnmoved, WindowsStay DEF DeferralInv
<1>1. CASE task' = task
  BY <1>1 DEF DeferralInv
<1>2. CASE task' = [age |-> 0, left |-> 0]
  <2>1. task'.age = 0 /\ task'.left = 0 /\ now \in Int
    BY <1>2, HorizonIsPositive DEF TypeOK
  <2> QED BY <2>1, LongestIsPositive DEF Waits
<1> QED BY <1>1, <1>2

LEMMA DispatchDefers ==
  ASSUME TypeOK, DeferralInv, Dispatch
  PROVE  DeferralInv'
<1>1. /\ UNCHANGED <<schedule, now>> /\ task # None /\ task.left = 0
      /\ task' = None \/ /\ ~ ShouldBeActive(now) /\ Answers
                         /\ task' = [age |-> task.age, left |-> NextOpen(now) - now]
  BY DispatchType
<1>2. CASE task' = None
  BY <1>1, <1>2, SameDeferral
<1>3. CASE ~ ShouldBeActive(now) /\ task' = [age |-> task.age, left |-> NextOpen(now) - now]
  <2> SUFFICES ASSUME Proper
               PROVE  /\ task'.age < LongestWait
                      /\ \A b, u : b = now - task'.age /\ u = now + task'.left => Waits(b, u)
    BY <1>1, WaitsUnmoved, WindowsStay DEF DeferralInv
  <2>1. PICK a \in Nat : task = [age |-> a, left |-> 0] /\ a < LongestWait
    BY <1>1, LongestIsPositive DEF TypeOK, DeferralInv
  <2>2. now \in Int /\ ScheduleTypeOK /\ Answers
    BY HorizonIsPositive DEF TypeOK, Proper
  <2>3. PICK b \in Int, o \in Int : b = now - a /\ o = NextOpen(now)
    BY <2>2, NextOpenType
  <2>4. b = now - task.age /\ now = now + task.left
    BY <2>1, <2>2, <2>3
  <2>5. Waits(b, now)
    BY <1>1, <2>4 DEF DeferralInv
  <2>6. Waits(b, o)
    BY <1>3, <2>2, <2>3, <2>5, WaitsOn
  <2>7. task'.age = a /\ now - task'.age = b /\ now + task'.left = o
    BY <1>3, <2>1, <2>2, <2>3
  <2> QED BY <2>1, <2>6, <2>7
<1> QED BY <1>1, <1>2, <1>3

\* A slot later, the wait has not ended: it ends where Waits says, and that is near.
LEMMA PassDefers ==
  ASSUME TypeOK, DeferralInv, Pass
  PROVE  DeferralInv'
<1>1. /\ UNCHANGED schedule /\ TypeOK'
      /\ now' = now + 1 \/ now' = now + 1 - Horizon
      /\ task' = None \/ /\ task # None /\ task' = Older(task)
                         /\ Answers => task.left # 0
  BY PassType
<1> SUFFICES ASSUME Proper, task' # None
             PROVE  /\ task'.age < LongestWait
                    /\ \A b, u : b = now' - task'.age /\ u = now' + task'.left => Waits(b, u)
  BY <1>1, WaitsUnmoved, WindowsStay DEF DeferralInv
<1>2. now \in Int /\ ScheduleTypeOK /\ Answers /\ Horizon \in Int /\ LongestWait \in Int
  BY HorizonIsPositive, LongestIsPositive DEF TypeOK, Proper
<1>3. PICK a \in Nat, l \in Nat : /\ task = [age |-> a, left |-> l] /\ a < LongestWait
                                  /\ l # 0
  BY <1>1, <1>2, LongestIsPositive DEF TypeOK, DeferralInv
<1>4. task'.age = a + 1 /\ task'.left = l - 1
  BY <1>1, <1>3 DEF Older
<1>5. PICK b \in Int, u \in Int : b = now - a /\ u = now + l
  BY <1>2
<1>6. Waits(b, u)
  BY <1>1, <1>3, <1>5 DEF DeferralInv
<1>7. Waits(b - Horizon, u - Horizon)
  BY <1>2, <1>6, WaitsFortnight
<1>8. u < b + LongestWait
  BY <1>2, <1>6, WaitsEnd
<1>9. a + 1 < LongestWait
  <2>1. a + l < LongestWait
    BY <1>2, <1>5, <1>8
  <2> QED BY <1>2, <1>3, <2>1
<1>10. \/ now' - task'.age = b /\ now' + task'.left = u
       \/ now' - task'.age = b - Horizon /\ now' + task'.left = u - Horizon
  BY <1>1, <1>2, <1>4, <1>5
<1> QED BY <1>4, <1>6, <1>7, <1>9, <1>10

LEMMA NextCalendar == CalendarInv /\ [Next]_vars => CalendarInv'
<1> SUFFICES ASSUME CalendarInv, [Next]_vars PROVE CalendarInv'
  OBVIOUS
<1>1. TypeOK /\ DeferralInv /\ DayInv'
  BY NextDay DEF CalendarInv
<1> SUFFICES TypeOK' /\ DeferralInv'
  BY <1>1 DEF CalendarInv
<1>2. ASSUME NEW w \in Workers, Elsewhere(w) PROVE TypeOK' /\ DeferralInv'
  <2>1. UNCHANGED <<schedule, now, task>>
    BY <1>2 DEF Elsewhere, Begin, Insert, SetKey, Crash
  <2> QED BY <1>1, <1>2, <2>1, ElsewhereType, SameDeferral
<1>3. ASSUME NEW w \in Workers, Enqueue(w) PROVE TypeOK' /\ DeferralInv'
  BY <1>1, <1>3, EnqueueType, SameDeferral
<1>4. CASE Dispatch
  BY <1>1, <1>4, DispatchType, DispatchDefers
<1>5. CASE Pass
  BY <1>1, <1>5, PassType, PassDefers
<1>6. CASE UNCHANGED vars
  <2>1. TypeOK'
    BY <1>1, <1>6 DEF TypeOK, ScheduleTypeOK, schedule, driver, vars, Horizon, LongestWait
  <2> QED BY <1>1, <1>6, <2>1, SameDeferral DEF vars
<1> QED BY <1>2, <1>3, <1>4, <1>5, <1>6 DEF Next, Ticks, Elsewhere

LEMMA Calendar == Spec => []CalendarInv
BY InitCalendar, NextCalendar, PTL DEF Spec

\* schedule_service.py, warmup.py: the types.  That a deferral never has a negative rest
\* is the substance: when next_open answers at all, it names a later instant, and that
\* also in a window that is never open.
THEOREM CalendarType == Spec => []TypeOK
<1>1. CalendarInv => TypeOK
  BY DEF CalendarInv
<1> QED BY <1>1, Calendar, PTL

\* schedule_service.py:201-222: at every instant, for every offset and draw of rest days
\* and every window whose start is before its end, a closed account is put off to a
\* later opening of its schedule, and no open instant of the same week is passed over.
\* Of a window whose start is not before its end, which the account API accepts, it says
\* nothing: what next_open names is then not open.
THEOREM OpeningsAreRight == Spec => []OpeningIsRight
<1>1. CalendarInv => OpeningIsRight
  <2> SUFFICES ASSUME CalendarInv, Proper, ~ ShouldBeActive(now)
               PROVE  /\ NextOpen(now) > now
                      /\ \A t \in now..NextOpen(now) :
                             Week(t) = Week(now) => (ShouldBeActive(t) <=> t = NextOpen(now))
    BY DEF OpeningIsRight
  <2>1. ScheduleTypeOK /\ now \in Int /\ Answers
    BY HorizonIsPositive DEF CalendarInv, TypeOK, Proper
  <2> QED BY <2>1, NextOpenType, NoneIsPassedOver
<1> QED BY <1>1, Calendar, PTL

\* base_task.py:387-395: in every window whose start is before its end, a deferral ends
\* within five days, however the rest days of the weeks fall; a task is put off twice at
\* most.  In a window whose start is an hour and not before its end it never ends.
THEOREM DeferralsEnd == Spec => []DeferralEnds
<1>1. CalendarInv => DeferralEnds
  BY DEF CalendarInv, DeferralInv, DeferralEnds
<1> QED BY <1>1, Calendar, PTL

=============================================================================
