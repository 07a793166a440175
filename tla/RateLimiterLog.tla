--------------------------- MODULE RateLimiterLog ---------------------------
(***************************************************************************)
(* RateLimiter with a log of its admissions: which request of the key it   *)
(* was, the instant its task had read, the instant at which it held the    *)
(* lock, and the start of the window it was counted in.  With it the       *)
(* admissions of any interval can be counted.                              *)
(***************************************************************************)
EXTENDS RateLimiter, FiniteSets

VARIABLE admissions

logvars == <<vars, admissions>>

Admission == [key : Keys, number : Nat, read : Nat, locked : Nat, window : Nat]

\* What Check adds to the log: nothing when it refuses.
AdmissionOf(t) ==
    LET k == key[t]
    IN  IF admitted'[k] = admitted[k] THEN {}
        ELSE {[key |-> k, number |-> admitted'[k], read |-> now[t], locked |-> clock,
               window |-> windows'[k].started]}

LogInit == Init /\ admissions = {}

LogNext ==
    \/ \E t \in Tasks, k \in Keys : ReadClock(t, k) /\ UNCHANGED admissions
    \/ \E t \in Tasks : Check(t) /\ admissions' = admissions \cup AdmissionOf(t)
    \/ Tick /\ UNCHANGED admissions

LogSpec == LogInit /\ [][LogNext]_logvars

-----------------------------------------------------------------------------
\* Admissions of a key by readings in the Window seconds from i on; a reading
\* from before its window is stale and left out.
ReadFrom(k, i) ==
    {a \in admissions : a.key = k /\ a.read >= a.window /\ a.read \in i..(i + Window - 1)}

\* Admissions of a key that held the lock after i.
LockedAfter(k, i) == {a \in admissions : a.key = k /\ a.locked > i}

(* No interval of Window seconds sees more than twice Limit admissions of  *)
(* one key, counted by the readings check compares (proxy.rs:1081): the    *)
(* worst case of a fixed window is two full windows back to back.          *)
BurstAtMostTwice ==
    \A k \in Keys : \A i \in 0..MaxTime : Cardinality(ReadFrom(k, i)) <= 2 * Limit

(* RateLimited is only answered (proxy.rs:1085) when Limit requests of the *)
(* same key were admitted less than Window seconds before the caller read  *)
(* the clock: another key's traffic, a stale reading or a window that has  *)
(* already passed never refuses a request.                                 *)
RefusalJustified ==
    [][\A t \in Tasks :
          (pc[t] = "locking" /\ pc'[t] = "idle" /\ admitted'[key[t]] = admitted[key[t]])
             => Cardinality(LockedAfter(key[t], now[t] - Window)) >= Limit]_logvars

\* The admissions that were counted in one window of a key.
CountedIn(k, start) == {a \in admissions : a.key = k /\ a.window = start}

(* The inductive invariant behind the two, on top of RateInv: the log      *)
(* agrees with the count of every window, and the windows of a key lie     *)
(* Window seconds apart.                                                   *)
LogInv ==
    /\ admissions \subseteq Admission /\ IsFiniteSet(admissions)
    /\ \A k \in entries : Cardinality(CountedIn(k, windows[k].started)) = windows[k].count
    /\ \A a \in admissions :
        /\ a.key \in entries /\ a.number <= admitted[a.key]
        /\ a.window <= a.locked /\ a.read < a.window + Window
        /\ a.window = windows[a.key].started \/ a.window + Window <= windows[a.key].started
        /\ Cardinality(CountedIn(a.key, a.window)) <= Limit
    /\ \A a, b \in admissions :
        a.key = b.key /\ a.window < b.window => a.window + Window <= b.window
=============================================================================
