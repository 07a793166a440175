-------------------------- MODULE RateLimiter_proofs --------------------------
(***************************************************************************)
(* Proofs about RateLimiter for every number of tasks and keys, every      *)
(* limit, every window length and every bound on the clock; then, with the *)
(* log of admissions, how many fall into one interval and what a refusal   *)
(* says about those before it.                                             *)
(***************************************************************************)
EXTENDS RateLimiterLog, FiniteSetTheorems, TLAPS

\* Multiplication by a natural number keeps an inequality.
LEMMA TimesMonotone ==
    ASSUME NEW a \in Int, NEW b \in Int, NEW c \in Nat, a <= b
    PROVE  a * c <= b * c
  BY SMT

\* Multiplying out one more factor.
LEMMA OneMore ==
    ASSUME NEW a \in Int, NEW n \in Int
    PROVE  /\ a * ((n + 1) - 1) = a * (n - 1) + a
           /\ ((n + 1) - 1) * a = (n - 1) * a + a
           /\ a * (n - 1) \in Int
           /\ (n - 1) * a \in Int
  BY SMT

(* The bookkeeping of check (proxy.rs:1070-1090) keeps its types, counts   *)
(* at most Limit in a window, starts windows at least Window apart and     *)
(* counts every admission in exactly one window, whatever the order in     *)
(* which tasks that have read the clock take the lock.                     *)
THEOREM RateInvariant == Spec => []RateInv
<1> USE LimitAssumption, WindowAssumption, TimeAssumption
<1>1. Init => RateInv
  BY DEF Init, RateInv, TypeOK, RateWindow
<1>2. RateInv /\ [Next]_vars => RateInv'
  <2> SUFFICES ASSUME RateInv, [Next]_vars PROVE RateInv'
    OBVIOUS
  <2>1. ASSUME NEW t \in Tasks, NEW k \in Keys, ReadClock(t, k) PROVE RateInv'
    BY <2>1 DEF ReadClock, RateInv, TypeOK, RateWindow, history
  <2>2. ASSUME NEW t \in Tasks, Check(t) PROVE RateInv'
    <3> DEFINE k == key[t]
               w == CurrentWindow(k, now[t])
               full == w.count >= Limit
               new == k \notin entries \/ Expired(windows[k], now[t])
    <3>1. k \in Keys /\ now[t] \in Nat /\ now[t] <= clock /\ clock \in Nat
      BY DEF RateInv, TypeOK
    <3>2. w \in RateWindow /\ w.count <= Limit /\ w.started <= clock
      BY <3>1 DEF RateInv, TypeOK, RateWindow, CurrentWindow
    <3>3. ~full => w.count + 1 <= Limit
      BY <3>2 DEF RateWindow
    <3>4. TypeOK'
      BY <2>2, <3>1, <3>2, <3>3 DEF Check, RateInv, TypeOK, RateWindow
    <3>5. \A u \in Tasks : now'[u] <= clock'
      BY <2>2, <3>1 DEF Check, RateInv, TypeOK
    <3>6. \A j \in Keys \ entries' : admitted'[j] = 0 /\ opened'[j] = 0
      BY <2>2, <3>1 DEF Check, RateInv, TypeOK
    <3>7. ASSUME NEW j \in entries', j # k
          PROVE  /\ windows'[j].count <= Limit
                 /\ windows'[j].started <= clock'
                 /\ opened'[j] >= 1
                 /\ first'[j] + (opened'[j] - 1) * Window <= windows'[j].started
                 /\ admitted'[j] <= Limit * (opened'[j] - 1) + windows'[j].count
      <4>1. /\ j \in entries /\ windows'[j] = windows[j] /\ clock' = clock
            /\ opened'[j] = opened[j] /\ first'[j] = first[j]
            /\ admitted'[j] = admitted[j]
        BY <2>2, <3>1, <3>7 DEF Check, RateInv, TypeOK
      <4> QED BY <4>1 DEF RateInv
    <3>8. /\ windows'[k].started = w.started
          /\ windows'[k].count = IF full THEN w.count ELSE w.count + 1
          /\ opened'[k] = IF new THEN opened[k] + 1 ELSE opened[k]
          /\ first'[k] = IF k \in entries THEN first[k] ELSE now[t]
          /\ admitted'[k] = IF full THEN admitted[k] ELSE admitted[k] + 1
          /\ clock' = clock
      BY <2>2, <3>1, <3>2 DEF Check, RateInv, TypeOK, RateWindow
    <3>9. /\ windows'[k].count <= Limit
          /\ windows'[k].started <= clock'
          /\ opened'[k] >= 1
          /\ first'[k] + (opened'[k] - 1) * Window <= windows'[k].started
          /\ admitted'[k] <= Limit * (opened'[k] - 1) + windows'[k].count
      <4>0. /\ opened[k] \in Nat /\ first[k] \in Nat /\ admitted[k] \in Nat
            /\ w.count \in Nat /\ w.started \in Nat
        BY <3>1, <3>2 DEF RateInv, TypeOK, RateWindow
      <4>1. CASE k \notin entries
        <5>1. w = [started |-> now[t], count |-> 0]
          BY <4>1 DEF CurrentWindow
        <5>2. admitted[k] = 0 /\ opened[k] = 0
          BY <3>1, <4>1 DEF RateInv
        <5> HIDE DEF w
        <5> QED BY <3>1, <3>2, <3>3, <3>8, <4>0, <4>1, <5>1, <5>2
      <4>2. CASE k \in entries /\ Expired(windows[k], now[t])
        <5>1. w = [started |-> now[t], count |-> 0]
          BY <4>2 DEF CurrentWindow
        <5>2. windows[k].started \in Nat /\ windows[k].count \in Nat
          BY <3>1 DEF RateInv, TypeOK, RateWindow
        <5>3. windows[k].started + Window <= now[t]
          BY <3>1, <4>2, <5>2 DEF Expired, Elapsed
        <5>4. /\ windows[k].count <= Limit
              /\ opened[k] >= 1
              /\ first[k] + (opened[k] - 1) * Window <= windows[k].started
              /\ admitted[k] <= Limit * (opened[k] - 1) + windows[k].count
          BY <4>2 DEF RateInv
        <5>5. /\ opened'[k] = opened[k] + 1
              /\ (opened'[k] - 1) * Window = (opened[k] - 1) * Window + Window
              /\ Limit * (opened'[k] - 1) = Limit * (opened[k] - 1) + Limit
              /\ (opened[k] - 1) * Window \in Int
              /\ Limit * (opened[k] - 1) \in Int
          BY <3>8, <4>0, <4>2, OneMore
        <5> HIDE DEF w
        <5> QED BY <3>1, <3>2, <3>3, <3>8, <4>0, <4>2, <5>1, <5>2, <5>3, <5>4, <5>5
      <4>3. CASE k \in entries /\ ~Expired(windows[k], now[t])
        <5>1. w = windows[k]
          BY <4>3 DEF CurrentWindow
        <5>2. /\ opened[k] >= 1
              /\ first[k] + (opened[k] - 1) * Window <= windows[k].started
              /\ admitted[k] <= Limit * (opened[k] - 1) + windows[k].count
          BY <4>3 DEF RateInv
        <5>3. Limit * (opened[k] - 1) \in Int
          BY <4>0, OneMore
        <5> HIDE DEF w
        <5> QED BY <3>2, <3>3, <3>8, <4>0, <4>3, <5>1, <5>2, <5>3
      <4> QED BY <4>1, <4>2, <4>3
    <3>10. entries' = entries \cup {k}
      BY <2>2 DEF Check
    <3> QED BY <3>4, <3>5, <3>6, <3>7, <3>9 DEF RateInv
  <2>3. CASE Tick
    BY <2>3 DEF Tick, RateInv, TypeOK, RateWindow, history
  <2>4. CASE UNCHANGED vars
    BY <2>4 DEF vars, history, RateInv, TypeOK
  <2> QED BY <2>1, <2>2, <2>3, <2>4 DEF Next
<1> QED BY <1>1, <1>2, PTL DEF Spec

(* A key is admitted at most Limit requests per Window seconds begun since *)
(* its first request, for ever: the promise of                             *)
(* limits.max_requests_per_identity_per_minute.                            *)
THEOREM LongRunRateHolds == Spec => []LongRunRate
<1> USE LimitAssumption, WindowAssumption, TimeAssumption
<1>1. RateInv => LongRunRate
  <2> SUFFICES ASSUME RateInv, NEW k \in entries
               PROVE  admitted[k] * Window <= Limit * ((clock - first[k]) + Window)
    BY DEF LongRunRate
  <2> DEFINE o == opened[k]
             span == (clock - first[k]) + Window
  <2>1. /\ k \in Keys /\ o \in Nat /\ first[k] \in Nat /\ admitted[k] \in Nat
        /\ clock \in Nat /\ windows[k].count \in Nat /\ windows[k].started \in Nat
    BY DEF RateInv, TypeOK, RateWindow
  <2>2. /\ windows[k].count <= Limit
        /\ windows[k].started <= clock
        /\ first[k] + (o - 1) * Window <= windows[k].started
        /\ admitted[k] <= Limit * (o - 1) + windows[k].count
    BY DEF RateInv
  <2>3. /\ (o - 1) * Window \in Int /\ Limit * (o - 1) \in Int
        /\ o * Window = (o - 1) * Window + Window
        /\ Limit * o = Limit * (o - 1) + Limit
        /\ o * Window \in Int /\ Limit * o \in Int
    BY <2>1, SMT
  <2>4. admitted[k] <= Limit * o
    BY <2>1, <2>2, <2>3
  <2>5. o * Window <= span /\ span \in Int
    BY <2>1, <2>2, <2>3
  <2>6. admitted[k] * Window <= (Limit * o) * Window
    BY <2>1, <2>3, <2>4, TimesMonotone
  <2>7. (o * Window) * Limit <= span * Limit
    BY <2>1, <2>3, <2>5, TimesMonotone
  <2>8. (Limit * o) * Window = (o * Window) * Limit /\ span * Limit = Limit * span
    BY <2>1, <2>5, SMT
  <2>9. admitted[k] * Window \in Int /\ span * Limit \in Int /\ (o * Window) * Limit \in Int
    BY <2>1, <2>3, <2>5, SMT
  <2> HIDE DEF o, span
  <2>10. admitted[k] * Window <= Limit * span
    BY <2>6, <2>7, <2>8, <2>9
  <2> QED BY <2>10 DEF span
<1> QED BY <1>1, RateInvariant, PTL

(* A stale reading of the clock never rewinds or shortens a window: the    *)
(* saturating subtraction of proxy.rs:1081 makes it count in the window it *)
(* finds.                                                                  *)
THEOREM WindowsNeverOverlapHolds == Spec => WindowsNeverOverlap
<1> USE LimitAssumption, WindowAssumption, TimeAssumption
<1> DEFINE Apart == \A k \in entries :
                      \/ windows'[k].started = windows[k].started
                      \/ windows'[k].started >= windows[k].started + Window
<1>1. RateInv /\ [Next]_vars => [Apart]_vars
  <2> SUFFICES ASSUME RateInv, Next, NEW k \in entries
               PROVE  \/ windows'[k].started = windows[k].started
                      \/ windows'[k].started >= windows[k].started + Window
    OBVIOUS
  <2>1. ASSUME NEW t \in Tasks, Check(t)
        PROVE  \/ windows'[k].started = windows[k].started
               \/ windows'[k].started >= windows[k].started + Window
    <3>1. k \in Keys /\ windows[k] \in RateWindow /\ now[t] \in Nat
      BY DEF RateInv, TypeOK
    <3>2. CASE k = key[t]
      <4> DEFINE w == CurrentWindow(k, now[t])
      <4>1. w \in RateWindow
        BY <3>1 DEF CurrentWindow, RateWindow
      <4>2. windows'[k].started = w.started
        BY <2>1, <3>1, <3>2, <4>1 DEF Check, RateInv, TypeOK, RateWindow
      <4>3. \/ w.started = windows[k].started
            \/ w.started >= windows[k].started + Window
        BY <3>1 DEF CurrentWindow, Expired, Elapsed, RateWindow
      <4> QED BY <4>2, <4>3
    <3>3. CASE k # key[t]
      BY <2>1, <3>1, <3>3 DEF Check, RateInv, TypeOK
    <3> QED BY <3>2, <3>3
  <2>2. ASSUME NEW t \in Tasks, NEW j \in Keys, ReadClock(t, j)
        PROVE  windows' = windows
    BY <2>2 DEF ReadClock
  <2>3. CASE Tick
    BY <2>3 DEF Tick
  <2> QED BY <2>1, <2>2, <2>3 DEF Next
<1> QED BY <1>1, RateInvariant, PTL DEF Spec, WindowsNeverOverlap

-----------------------------------------------------------------------------
(* The critical section of check in terms of the window it counts in: the  *)
(* one it finds, or a new one that starts at the caller's reading and at   *)
(* least Window seconds after the last.                                    *)
LEMMA CheckEffect ==
    ASSUME RateInv, NEW t \in Tasks, Check(t)
    PROVE  LET k == key[t]
               w == CurrentWindow(k, now[t])
               full == w.count >= Limit
           IN  /\ k \in Keys /\ now[t] \in Nat /\ clock \in Nat /\ admitted[k] \in Nat
               /\ w.started \in Nat /\ w.count \in Nat /\ w.count <= Limit /\ w.started <= clock
               /\ now[t] < w.started + Window
               /\ \/ k \in entries /\ w = windows[k]
                  \/ /\ w.started = now[t] /\ w.count = 0
                     /\ k \in entries => windows[k].started + Window <= w.started
               /\ entries' = entries \cup {k} /\ clock' = clock
               /\ windows'[k].started = w.started
               /\ windows'[k].count = IF full THEN w.count ELSE w.count + 1
               /\ admitted'[k] = IF full THEN admitted[k] ELSE admitted[k] + 1
               /\ \A j \in Keys \ {k} : windows'[j] = windows[j] /\ admitted'[j] = admitted[j]
<1> USE LimitAssumption, WindowAssumption, TimeAssumption
<1> DEFINE k == key[t]
           w == CurrentWindow(k, now[t])
           full == w.count >= Limit
<1>1. k \in Keys /\ now[t] \in Nat /\ now[t] <= clock /\ clock \in Nat /\ admitted[k] \in Nat
  BY DEF RateInv, TypeOK
<1>2. w \in RateWindow /\ w.count <= Limit /\ w.started <= clock
  BY <1>1 DEF RateInv, TypeOK, RateWindow, CurrentWindow
<1>3. w.started \in Nat /\ w.count \in Nat
  BY <1>2 DEF RateWindow
<1>4. windows[k].started \in Nat
  BY <1>1 DEF RateInv, TypeOK, RateWindow
<1>5. /\ now[t] < w.started + Window
      /\ \/ k \in entries /\ w = windows[k]
         \/ /\ w.started = now[t] /\ w.count = 0
            /\ k \in entries => windows[k].started + Window <= w.started
  <2>1. CASE k \notin entries \/ Expired(windows[k], now[t])
    <3>1. w = [started |-> now[t], count |-> 0]
      BY <2>1 DEF CurrentWindow
    <3>2. w.started = now[t] /\ w.count = 0
      BY <3>1
    <3>3. k \in entries => windows[k].started + Window <= now[t]
      BY <1>1, <1>4, <2>1 DEF Expired, Elapsed
    <3> HIDE DEF w, k
    <3>4. QED
      BY <1>1, <3>2, <3>3
  <2>2. CASE k \in entries /\ ~Expired(windows[k], now[t])
    <3>1. w = windows[k]
      BY <2>2 DEF CurrentWindow
    <3>2. now[t] < windows[k].started + Window
      BY <1>1, <1>4, <2>2 DEF Expired, Elapsed
    <3> HIDE DEF w, k
    <3>3. QED
      BY <2>2, <3>1, <3>2
  <2>3. QED
    BY <2>1, <2>2
<1>6. /\ windows'[k].started = w.started
      /\ windows'[k].count = IF full THEN w.count ELSE w.count + 1
      /\ admitted'[k] = IF full THEN admitted[k] ELSE admitted[k] + 1
  BY <1>1, <1>2 DEF Check, RateInv, TypeOK, RateWindow
<1>7. entries' = entries \cup {k} /\ clock' = clock
  BY DEF Check
<1>8. \A j \in Keys \ {k} : windows'[j] = windows[j] /\ admitted'[j] = admitted[j]
  BY <1>1 DEF Check, RateInv, TypeOK
<1> HIDE DEF k, w, full
<1>9. QED
  BY <1>1, <1>2, <1>3, <1>5, <1>6, <1>7, <1>8 DEF k, w, full

(* The log only records what the limiter does.                             *)
LEMMA LogKeepsSpec == LogSpec => Spec
<1>1. LogInit => Init
  BY DEF LogInit
<1>2. [LogNext]_logvars => [Next]_vars
  BY DEF LogNext, Next, logvars
<1>3. QED
  BY <1>1, <1>2, PTL DEF LogSpec, Spec

(* A refusal leaves windows and log as they are.                           *)
LEMMA RefusalKeepsLog ==
    ASSUME RateInv, LogInv, NEW t \in Tasks, Check(t), admissions' = admissions \cup AdmissionOf(t),
           CurrentWindow(key[t], now[t]).count >= Limit
    PROVE  LogInv'
<1> USE LimitAssumption
<1> DEFINE k == key[t]
           w == CurrentWindow(k, now[t])
<1>1. /\ k \in Keys /\ k \in entries /\ w = windows[k] /\ entries' = entries
      /\ windows'[k].started = w.started /\ windows'[k].count = w.count
      /\ admitted'[k] = admitted[k]
      /\ \A j \in Keys \ {k} : windows'[j] = windows[j] /\ admitted'[j] = admitted[j]
  <2>1. /\ k \in Keys /\ w.count \in Nat
        /\ (k \in entries /\ w = windows[k]) \/ w.count = 0
        /\ entries' = entries \cup {k}
        /\ windows'[k].started = w.started
        /\ windows'[k].count = IF w.count >= Limit THEN w.count ELSE w.count + 1
        /\ admitted'[k] = IF w.count >= Limit THEN admitted[k] ELSE admitted[k] + 1
        /\ \A j \in Keys \ {k} : windows'[j] = windows[j] /\ admitted'[j] = admitted[j]
    BY CheckEffect
  <2>2. w.count >= Limit
    OBVIOUS
  <2> HIDE DEF k, w
  <2>3. QED
    BY <2>1, <2>2
<1>2. admissions' = admissions
  BY <1>1 DEF AdmissionOf
<1>3. \A j \in Keys : /\ windows'[j].started = windows[j].started /\ windows'[j].count = windows[j].count
                      /\ admitted'[j] = admitted[j]
  BY <1>1
<1>4. \A j, s : CountedIn(j, s)' = CountedIn(j, s)
  BY <1>2 DEF CountedIn
<1>5. entries \subseteq Keys /\ \A a \in admissions : a.key \in Keys
  BY DEF RateInv, TypeOK, LogInv, Admission
<1>6. \A j \in entries' : Cardinality(CountedIn(j, windows[j].started))' = windows'[j].count
  BY <1>1, <1>3, <1>4, <1>5 DEF LogInv
<1>7. QED
  BY <1>1, <1>2, <1>3, <1>4, <1>5, <1>6, Zenon DEF LogInv

(* An admission is counted once, in the window that admits it.             *)
LEMMA AdmissionKeepsLog ==
    ASSUME RateInv, LogInv, NEW t \in Tasks, Check(t), admissions' = admissions \cup AdmissionOf(t),
           CurrentWindow(key[t], now[t]).count < Limit
    PROVE  LogInv'
<1> USE LimitAssumption, WindowAssumption
<1> DEFINE k == key[t]
           w == CurrentWindow(k, now[t])
           n == [key |-> k, number |-> admitted'[k], read |-> now[t], locked |-> clock,
                 window |-> windows'[k].started]
<1>1. /\ k \in Keys /\ now[t] \in Nat /\ clock \in Nat /\ admitted[k] \in Nat
      /\ w.started \in Nat /\ w.count \in Nat /\ w.started <= clock
      /\ now[t] < w.started + Window
      /\ \/ k \in entries /\ w = windows[k]
         \/ /\ w.started = now[t] /\ w.count = 0
            /\ k \in entries => windows[k].started + Window <= w.started
      /\ entries' = entries \cup {k}
      /\ windows'[k].started = w.started
      /\ windows'[k].count = IF w.count >= Limit THEN w.count ELSE w.count + 1
      /\ admitted'[k] = IF w.count >= Limit THEN admitted[k] ELSE admitted[k] + 1
      /\ \A j \in Keys \ {k} : windows'[j] = windows[j] /\ admitted'[j] = admitted[j]
  BY CheckEffect
<1>2. /\ w.count < Limit /\ w.count \in Nat /\ admitted[k] \in Nat
      /\ windows'[k].count = IF w.count >= Limit THEN w.count ELSE w.count + 1
      /\ admitted'[k] = IF w.count >= Limit THEN admitted[k] ELSE admitted[k] + 1
  BY CheckEffect
<1> HIDE DEF k, w
<1>3. windows'[k].count = w.count + 1 /\ admitted'[k] = admitted[k] + 1
  BY <1>2
<1>4. admissions' = admissions \cup {n}
  <2>1. admitted'[k] # admitted[k]
    BY <1>2, <1>3
  <2>2. AdmissionOf(t) = {n}
    BY <2>1 DEF AdmissionOf, k
  <2>3. QED
    BY <2>2
<1>5. /\ n.key = k /\ n.number = admitted[k] + 1 /\ n.read = now[t]
      /\ n.locked = clock /\ n.window = w.started
  BY <1>1, <1>3
<1>6. n \in Admission
  BY <1>1, <1>3 DEF Admission
<1> HIDE DEF n
<1>7. /\ entries \subseteq Keys
      /\ \A j \in Keys : windows[j].started \in Nat /\ windows[j].count \in Nat
  BY DEF RateInv, TypeOK, RateWindow
<1>8. \A a \in admissions : /\ a.key \in entries /\ a.key \in Keys
                            /\ a.number \in Nat /\ a.window \in Nat /\ a.locked \in Nat /\ a.read \in Nat
                            /\ a.number <= admitted[a.key]
                            /\ a.window = windows[a.key].started \/ a.window + Window <= windows[a.key].started
  BY <1>7 DEF LogInv, Admission
<1>9. n \notin admissions
  <2>1. ASSUME n \in admissions PROVE admitted[k] + 1 <= admitted[k]
    BY <1>5, <1>8, <2>1
  <2>2. QED
    BY <1>2, <2>1
<1>10. IsFiniteSet(admissions)
  BY DEF LogInv
<1>11. \A j, s : IsFiniteSet(CountedIn(j, s)) /\ Cardinality(CountedIn(j, s)) \in Nat
  BY <1>10, FS_Subset, FS_CardinalityType DEF CountedIn
<1>12. Cardinality(CountedIn(k, w.started)) = w.count
  <2>1. CASE k \in entries /\ w = windows[k]
    BY <2>1 DEF LogInv
  <2>2. CASE /\ w.started = now[t] /\ w.count = 0
             /\ k \in entries => windows[k].started + Window <= w.started
    <3>1. \A a \in admissions : a.key = k => a.window < w.started
      BY <1>1, <1>7, <1>8, <2>2
    <3>2. CountedIn(k, w.started) = {}
      BY <1>1, <1>8, <3>1 DEF CountedIn
    <3>3. QED
      BY <2>2, <3>2, FS_EmptySet
  <2>3. QED
    BY <1>1, <2>1, <2>2
<1> DEFINE Later(j, s) == {a \in admissions' : a.key = j /\ a.window = s}
<1>13. \A j, s : CountedIn(j, s)' = Later(j, s)
  BY DEF CountedIn
<1>14. Later(k, w.started) = CountedIn(k, w.started) \cup {n}
  BY <1>4, <1>5 DEF CountedIn
<1>15. \A j, s : j # k \/ s # w.started => Later(j, s) = CountedIn(j, s)
  BY <1>4, <1>5 DEF CountedIn
<1> HIDE DEF Later
<1>16. Cardinality(Later(k, w.started)) = w.count + 1
  <2>1. n \notin CountedIn(k, w.started)
    BY <1>9 DEF CountedIn
  <2>2. QED
    BY <1>11, <1>12, <1>14, <2>1, FS_AddElement, Zenon
<1>17. admissions' \subseteq Admission /\ IsFiniteSet(admissions')
  BY <1>4, <1>6, <1>10, FS_AddElement DEF LogInv
<1>18. ASSUME NEW j \in entries' PROVE Cardinality(Later(j, windows'[j].started)) = windows'[j].count
  <2>1. CASE j = k
    BY <1>1, <1>3, <1>16, <2>1
  <2>2. CASE j # k
    <3>1. j \in entries /\ windows'[j] = windows[j]
      BY <1>1, <1>7, <1>18, <2>2
    <3>2. Cardinality(CountedIn(j, windows[j].started)) = windows[j].count
      BY <3>1 DEF LogInv
    <3>3. QED
      BY <1>15, <2>2, <3>1, <3>2
  <2>3. QED
    BY <2>1, <2>2
<1>19. ASSUME NEW a \in admissions'
       PROVE  /\ a.key \in entries' /\ a.number <= admitted'[a.key]
              /\ a.window <= a.locked /\ a.read < a.window + Window
              /\ a.window = windows'[a.key].started \/ a.window + Window <= windows'[a.key].started
              /\ Cardinality(Later(a.key, a.window)) <= Limit
  <2>1. CASE a = n
    BY <1>1, <1>2, <1>3, <1>5, <1>16, <2>1
  <2>2. CASE a \in admissions /\ a.key # k
    <3>1. Later(a.key, a.window) = CountedIn(a.key, a.window)
      BY <1>15, <2>2
    <3>2. windows'[a.key] = windows[a.key] /\ admitted'[a.key] = admitted[a.key] /\ a.key \in entries'
      BY <1>1, <1>8, <2>2
    <3>3. QED
      BY <2>2, <3>1, <3>2 DEF LogInv
  <2>3. CASE a \in admissions /\ a.key = k
    <3>1. a.key \in entries' /\ a.number <= admitted'[a.key]
      BY <1>1, <1>3, <1>8, <2>3
    <3>2. a.window <= a.locked /\ a.read < a.window + Window
      BY <2>3 DEF LogInv
    <3>3. a.window = windows'[a.key].started \/ a.window + Window <= windows'[a.key].started
      BY <1>1, <1>7, <1>8, <2>3
    <3>4. Cardinality(Later(a.key, a.window)) <= Limit
      <4>1. CASE a.window = w.started
        BY <1>1, <1>2, <1>16, <2>3, <4>1
      <4>2. CASE a.window # w.started
        <5>1. Later(a.key, a.window) = CountedIn(a.key, a.window)
          BY <1>15, <4>2
        <5>2. QED
          BY <2>3, <5>1 DEF LogInv
      <4>3. QED
        BY <4>1, <4>2
    <3>5. QED
      BY <3>1, <3>2, <3>3, <3>4
  <2>4. QED
    BY <1>4, <2>1, <2>2, <2>3
<1>20. ASSUME NEW a \in admissions', NEW b \in admissions', a.key = b.key, a.window < b.window
       PROVE  a.window + Window <= b.window
  <2>1. CASE a \in admissions /\ b \in admissions
    BY <1>20, <2>1 DEF LogInv
  <2>2. ASSUME NEW c \in admissions, c.key = k
        PROVE  c.window = w.started \/ c.window + Window <= w.started
    <3>1. /\ k \in entries /\ c.window \in Nat /\ windows[k].started \in Nat /\ w.started \in Nat
          /\ c.window = windows[k].started \/ c.window + Window <= windows[k].started
      BY <1>1, <1>7, <1>8, <2>2
    <3>2. w = windows[k] \/ windows[k].started + Window <= w.started
      BY <1>1, <3>1
    <3>3. CASE w = windows[k]
      BY <3>1, <3>3
    <3>4. CASE windows[k].started + Window <= w.started
      BY <3>1, <3>4
    <3>5. QED
      BY <3>2, <3>3, <3>4
  <2>3. CASE b = n /\ a \in admissions
    BY <1>1, <1>5, <1>8, <1>20, <2>2, <2>3
  <2>4. CASE a = n /\ b \in admissions
    BY <1>1, <1>5, <1>8, <1>20, <2>2, <2>4
  <2>5. CASE a = n /\ b = n
    BY <1>1, <1>5, <1>20, <2>5
  <2>6. QED
    BY <1>4, <2>1, <2>3, <2>4, <2>5
<1>21. QED
  BY <1>13, <1>17, <1>18, <1>19, <1>20 DEF LogInv

(* The log agrees with the windows, in every interleaving.                 *)
THEOREM LogInvariant == LogSpec => []LogInv
<1>1. LogInit => LogInv
  BY FS_EmptySet DEF LogInit, Init, LogInv
<1>2. RateInv /\ LogInv /\ [LogNext]_logvars => LogInv'
  <2> SUFFICES ASSUME RateInv, LogInv, [LogNext]_logvars PROVE LogInv'
    OBVIOUS
  <2>1. ASSUME UNCHANGED <<entries, windows, admitted, admissions>> PROVE LogInv'
    BY <2>1 DEF LogInv, CountedIn
  <2>2. ASSUME NEW t \in Tasks, Check(t), admissions' = admissions \cup AdmissionOf(t) PROVE LogInv'
    <3>1. CurrentWindow(key[t], now[t]).count \in Nat
      BY <2>2, CheckEffect
    <3>2. QED
      BY <2>2, <3>1, RefusalKeepsLog, AdmissionKeepsLog, LimitAssumption
  <2>3. ASSUME NEW t \in Tasks, NEW k \in Keys, ReadClock(t, k), UNCHANGED admissions PROVE LogInv'
    BY <2>1, <2>3 DEF ReadClock, history
  <2>4. CASE Tick /\ UNCHANGED admissions
    BY <2>1, <2>4 DEF Tick, history
  <2>5. CASE UNCHANGED logvars
    BY <2>1, <2>5 DEF logvars, vars, history
  <2>6. QED
    BY <2>2, <2>3, <2>4, <2>5 DEF LogNext
<1>3. QED
  BY <1>1, <1>2, LogKeepsSpec, RateInvariant, PTL DEF LogSpec

(* Two windows of a key that a Window-long interval touches are all there  *)
(* are: the admissions read in it were counted in one of two windows.      *)
LEMMA TwoWindows ==
    ASSUME RateInv, LogInv, NEW k \in Keys, NEW i \in Int, NEW a \in ReadFrom(k, i)
    PROVE  \E b \in ReadFrom(k, i) :
              ReadFrom(k, i) \subseteq CountedIn(k, a.window) \cup CountedIn(k, b.window)
<1> USE WindowAssumption
<1>1. \A c \in ReadFrom(k, i) : /\ c \in admissions /\ c.key = k /\ c.window \in Nat
                                /\ c.window > i - Window /\ c.window < i + Window
  BY DEF ReadFrom, LogInv, Admission
<1>2. \A c, d \in ReadFrom(k, i) : c.window < d.window => c.window + Window <= d.window
  BY <1>1 DEF LogInv
<1>3. CASE \A c \in ReadFrom(k, i) : c.window = a.window
  BY <1>1, <1>3 DEF CountedIn
<1>4. CASE ~\A c \in ReadFrom(k, i) : c.window = a.window
  <2>1. PICK b \in ReadFrom(k, i) : b.window # a.window
    BY <1>4
  <2>2. \A c \in ReadFrom(k, i) : c.window = a.window \/ c.window = b.window
    <3> SUFFICES ASSUME NEW c \in ReadFrom(k, i), c.window # a.window, c.window # b.window
                 PROVE  FALSE
      OBVIOUS
    <3>1. /\ a.window \in Nat /\ b.window \in Nat /\ c.window \in Nat
          /\ a.window > i - Window /\ b.window > i - Window /\ c.window > i - Window
          /\ a.window < i + Window /\ b.window < i + Window /\ c.window < i + Window
      BY <1>1, <2>1
    <3>2. /\ a.window + Window <= b.window \/ b.window + Window <= a.window
          /\ a.window + Window <= c.window \/ c.window + Window <= a.window
          /\ b.window + Window <= c.window \/ c.window + Window <= b.window
      BY <1>2, <2>1, <3>1
    <3>3. QED
      BY <3>1, <3>2
  <2>3. QED
    BY <1>1, <2>2 DEF CountedIn
<1>5. QED
  BY <1>3, <1>4

(* At most two full windows fall into any Window seconds of readings.      *)
THEOREM BurstAtMostTwiceHolds == LogSpec => []BurstAtMostTwice
<1>1. RateInv /\ LogInv => BurstAtMostTwice
  <2> SUFFICES ASSUME RateInv, LogInv, NEW k \in Keys, NEW i \in 0..MaxTime
               PROVE  Cardinality(ReadFrom(k, i)) <= 2 * Limit
    BY DEF BurstAtMostTwice
  <2>1. i \in Int
    BY TimeAssumption
  <2>2. CASE ReadFrom(k, i) = {}
    BY <2>2, FS_EmptySet, LimitAssumption
  <2>3. CASE ReadFrom(k, i) # {}
    <3>1. PICK a \in ReadFrom(k, i) : TRUE
      BY <2>3
    <3>2. PICK b \in ReadFrom(k, i) :
             ReadFrom(k, i) \subseteq CountedIn(k, a.window) \cup CountedIn(k, b.window)
      BY <2>1, <3>1, TwoWindows
    <3> DEFINE A == CountedIn(k, a.window)
               B == CountedIn(k, b.window)
    <3>3. Cardinality(A) <= Limit /\ Cardinality(B) <= Limit
      BY <3>1, <3>2 DEF LogInv, ReadFrom
    <3>4. IsFiniteSet(A) /\ IsFiniteSet(B)
      BY FS_Subset DEF LogInv, CountedIn
    <3> HIDE DEF A, B
    <3>5. /\ IsFiniteSet(A \cup B)
          /\ Cardinality(A \cup B) = Cardinality(A) + Cardinality(B) - Cardinality(A \cap B)
      BY <3>4, FS_Union
    <3>6. IsFiniteSet(A \cap B) /\ Cardinality(A \cap B) \in Nat
      BY <3>4, FS_Subset, FS_CardinalityType
    <3>7. Cardinality(A) \in Nat /\ Cardinality(B) \in Nat
      BY <3>4, FS_CardinalityType
    <3>8. Cardinality(ReadFrom(k, i)) <= Cardinality(A \cup B) /\ Cardinality(ReadFrom(k, i)) \in Nat
      BY <3>2, <3>5, FS_Subset, FS_CardinalityType DEF A, B
    <3>9. QED
      BY <3>3, <3>5, <3>6, <3>7, <3>8, LimitAssumption
  <2>4. QED
    BY <2>2, <2>3
<1>2. QED
  BY <1>1, LogKeepsSpec, RateInvariant, LogInvariant, PTL

(* A refusal rests on Limit admissions of the same key in the last Window  *)
(* seconds before the caller's reading.                                    *)
THEOREM RefusalJustifiedHolds == LogSpec => RefusalJustified
<1> DEFINE Refused(t) == /\ pc[t] = "locking" /\ pc'[t] = "idle"
                         /\ admitted'[key[t]] = admitted[key[t]]
<1>1. ASSUME RateInv, LogInv, NEW t \in Tasks, Check(t), Refused(t)
      PROVE  Cardinality(LockedAfter(key[t], now[t] - Window)) >= Limit
  <2> USE LimitAssumption, WindowAssumption
  <2> DEFINE k == key[t]
             w == CurrentWindow(k, now[t])
  <2>1. /\ k \in Keys /\ now[t] \in Nat /\ admitted[k] \in Nat
        /\ w.started \in Nat /\ w.count \in Nat
        /\ now[t] < w.started + Window
        /\ (k \in entries /\ w = windows[k]) \/ w.count = 0
        /\ admitted'[k] = IF w.count >= Limit THEN admitted[k] ELSE admitted[k] + 1
    BY <1>1, CheckEffect
  <2> HIDE DEF w
  <2>2. w.count >= Limit
    <3>1. admitted'[k] = admitted[k]
      BY <1>1
    <3>2. QED
      BY <2>1, <3>1
  <2>3. k \in entries /\ w = windows[k]
    BY <2>1, <2>2
  <2>4. Cardinality(CountedIn(k, w.started)) >= Limit
    BY <1>1, <2>2, <2>3 DEF LogInv
  <2>5. CountedIn(k, w.started) \subseteq LockedAfter(k, now[t] - Window)
    <3> SUFFICES ASSUME NEW a \in admissions, a.key = k, a.window = w.started
                 PROVE  a.locked > now[t] - Window
      BY DEF CountedIn, LockedAfter
    <3>1. a.window <= a.locked /\ a.locked \in Nat
      BY <1>1 DEF LogInv, Admission
    <3>2. QED
      BY <2>1, <3>1
  <2>6. IsFiniteSet(LockedAfter(k, now[t] - Window))
    BY <1>1, FS_Subset DEF LogInv, LockedAfter
  <2>7. /\ Cardinality(CountedIn(k, w.started)) <= Cardinality(LockedAfter(k, now[t] - Window))
        /\ Cardinality(LockedAfter(k, now[t] - Window)) \in Nat
        /\ Cardinality(CountedIn(k, w.started)) \in Nat
    BY <2>5, <2>6, FS_Subset, FS_CardinalityType
  <2>8. QED
    BY <2>4, <2>7
<1>2. RateInv /\ LogInv /\ [LogNext]_logvars =>
        [\A t \in Tasks :
            (pc[t] = "locking" /\ pc'[t] = "idle" /\ admitted'[key[t]] = admitted[key[t]])
               => Cardinality(LockedAfter(key[t], now[t] - Window)) >= Limit]_logvars
  <2> SUFFICES ASSUME RateInv, LogInv, LogNext, NEW t \in Tasks, Refused(t)
               PROVE  Cardinality(LockedAfter(key[t], now[t] - Window)) >= Limit
    OBVIOUS
  <2>1. ASSUME NEW u \in Tasks, Check(u) PROVE u = t
    BY <2>1 DEF Check, RateInv, TypeOK
  <2>2. ASSUME NEW u \in Tasks, NEW k \in Keys, ReadClock(u, k) PROVE FALSE
    BY <2>2 DEF ReadClock, RateInv, TypeOK
  <2>3. ~Tick
    BY DEF Tick
  <2>4. Check(t)
    BY <2>1, <2>2, <2>3 DEF LogNext
  <2>5. QED
    BY <1>1, <2>4
<1>3. QED
  BY <1>2, LogKeepsSpec, RateInvariant, LogInvariant, PTL DEF LogSpec, RefusalJustified
=============================================================================
