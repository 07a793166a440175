----------------------------- MODULE RateLimiter -----------------------------
(***************************************************************************)
(* The fixed-window rate limiter of server mode (RequestRateLimiter in     *)
(* proxy.rs).  One limiter is shared by every request task.  A task reads  *)
(* the monotonic clock BEFORE it takes the mutex, so between the two steps *)
(* other tasks may run the critical section with an earlier or a later     *)
(* reading of the clock.                                                   *)
(*                                                                         *)
(* A key stands for the string identity \0 route_id.  One unit of the      *)
(* clock is one second: the code compares whole elapsed seconds.           *)
(***************************************************************************)
EXTENDS Integers

CONSTANTS Tasks,    \* request tasks that run check concurrently
          Keys,     \* identity and route pairs
          Limit,    \* limits.max_requests_per_identity_per_minute
          Window,   \* 60 seconds in the code
          MaxTime   \* bound on the clock

ASSUME LimitAssumption  == Limit \in Nat \ {0}
ASSUME WindowAssumption == Window \in Nat \ {0}
ASSUME TimeAssumption   == MaxTime \in Nat

VARIABLES clock,    \* the monotonic clock behind Instant::now
          entries,  \* keys present in the map: an entry is never removed
          windows,  \* the RateWindow of every key (meaningful on entries)
          pc,       \* where each task is inside check
          now,      \* the instant each task has read (0 outside check)
          key,      \* the key each task asks for
          admitted, \* history: admissions of a key since the process started
          opened,   \* history: windows opened for a key
          first     \* history: start of the first window of a key

history == <<admitted, opened, first>>
vars == <<clock, entries, windows, pc, now, key, history>>

RateWindow == [started : Nat, count : Nat]

TypeOK ==
    /\ clock \in Nat
    /\ entries \in SUBSET Keys
    /\ windows \in [Keys -> RateWindow]
    /\ pc \in [Tasks -> {"idle", "locking"}]
    /\ now \in [Tasks -> Nat]
    /\ key \in [Tasks -> Keys]
    /\ admitted \in [Keys -> Nat]
    /\ opened \in [Keys -> Nat]
    /\ first \in [Keys -> Nat]

Init ==
    /\ clock = 0
    /\ entries = {}
    /\ windows = [k \in Keys |-> [started |-> 0, count |-> 0]]
    /\ pc = [t \in Tasks |-> "idle"]
    /\ now = [t \in Tasks |-> 0]
    /\ key \in [Tasks -> Keys]
    /\ admitted = [k \in Keys |-> 0]
    /\ opened = [k \in Keys |-> 0]
    /\ first = [k \in Keys |-> 0]

-----------------------------------------------------------------------------
\* Mutated Elapsed: a stale reading taken as an absolute distance.
ElapsedAbsolute(later, earlier) ==
    IF later >= earlier THEN later - earlier ELSE earlier - later

(* Instant::duration_since saturates: an instant in the future of the      *)
(* caller's reading is zero seconds old.                                   *)
Elapsed(later, earlier) == IF later >= earlier THEN later - earlier ELSE 0

\* A window that started at least Window seconds before the caller's reading.
Expired(w, instant) == Elapsed(instant, w.started) >= Window

(* Mutated forms of CurrentWindow: a reset that keeps the start, and a map *)
(* keyed by the identity alone.                                            *)
CurrentWindowKeepsStart(k, instant) ==
    IF k \in entries
    THEN IF Expired(windows[k], instant)
         THEN [windows[k] EXCEPT !.count = 0]
         ELSE windows[k]
    ELSE [started |-> instant, count |-> 0]
CurrentWindowOfIdentity(k, instant) ==
    LET live == {e \in entries : ~Expired(windows[e], instant)}
    IN  IF live = {}
        THEN [started |-> instant, count |-> 0]
        ELSE windows[CHOOSE e \in live : \A f \in live :
                                            windows[f].count <= windows[e].count]

\* The window a call finds once or_insert and the reset have been applied.
CurrentWindow(k, instant) ==
    IF k \notin entries \/ Expired(windows[k], instant)
    THEN [started |-> instant, count |-> 0]
    ELSE windows[k]

-----------------------------------------------------------------------------
\* let now = Instant::now(), before the lock.
ReadClock(t, k) ==
    /\ pc[t] = "idle"
    /\ now' = [now EXCEPT ![t] = clock]
    /\ key' = [key EXCEPT ![t] = k]
    /\ pc' = [pc EXCEPT ![t] = "locking"]
    /\ UNCHANGED <<clock, entries, windows, history>>

\* The critical section: it holds the mutex to its end and cannot panic, so
\* the mutex is never poisoned.  A full window answers RateLimited and leaves
\* admitted alone; the local now goes out of scope.
Check(t) ==
    LET k == key[t]
        w == CurrentWindow(k, now[t])
        fresh == k \notin entries \/ Expired(windows[k], now[t])
        full == w.count >= Limit
    IN  /\ pc[t] = "locking"
        /\ entries' = entries \cup {k}
        /\ windows' = [windows EXCEPT ![k] =
                         [w EXCEPT !.count = IF full THEN @ ELSE @ + 1]]
        /\ pc' = [pc EXCEPT ![t] = "idle"]
        /\ admitted' = [admitted EXCEPT ![k] = IF full THEN @ ELSE @ + 1]
        /\ opened' = [opened EXCEPT ![k] = IF fresh THEN @ + 1 ELSE @]
        /\ first' = [first EXCEPT ![k] = IF k \in entries THEN @ ELSE now[t]]
        /\ now' = [now EXCEPT ![t] = 0]
        /\ UNCHANGED <<clock, key>>

Tick ==
    /\ clock < MaxTime
    /\ clock' = clock + 1
    /\ UNCHANGED <<entries, windows, pc, now, key, history>>

Next ==
    \/ \E t \in Tasks, k \in Keys : ReadClock(t, k)
    \/ \E t \in Tasks : Check(t)
    \/ Tick

Spec == Init /\ [][Next]_vars

-----------------------------------------------------------------------------
(* Over its whole life a key is admitted at most Limit requests for every  *)
(* Window seconds begun since its first request, however the tasks that    *)
(* call check (proxy.rs:1070) interleave between reading the clock and     *)
(* taking the lock.                                                        *)
LongRunRate ==
    \A k \in entries :
        admitted[k] * Window <= Limit * ((clock - first[k]) + Window)

(* A window is only ever replaced by one that starts at least Window       *)
(* seconds after it: a task that arrives at the lock with an old reading   *)
(* of the clock neither rewinds nor shortens the window it finds.          *)
WindowsNeverOverlap ==
    [][\A k \in entries :
          \/ windows'[k].started = windows[k].started
          \/ windows'[k].started >= windows[k].started + Window]_vars

(* The inductive invariant behind LongRunRate.                             *)
RateInv ==
    /\ TypeOK
    /\ \A t \in Tasks : now[t] <= clock
    /\ \A k \in entries :
        /\ windows[k].count <= Limit
        /\ windows[k].started <= clock
        /\ opened[k] >= 1
        /\ first[k] + (opened[k] - 1) * Window <= windows[k].started
        /\ admitted[k] <= Limit * (opened[k] - 1) + windows[k].count
    /\ \A k \in Keys \ entries : admitted[k] = 0 /\ opened[k] = 0
=============================================================================
