----------------------------- MODULE SlidingWindow -----------------------------
(***************************************************************************)
(* The sliding-window limiter (model/rate_limiter.go, SlidingWindow): a    *)
(* ring of the times of the latest requests, emptied from its head as they *)
(* fall out of the window.  A step is one critical section under s.mu.     *)
(*                                                                         *)
(* windowLog keeps every admission for the properties; no action reads it. *)
(***************************************************************************)
EXTENDS Clock

CONSTANTS Window, MaxReqs   \* windowSize in ticks, maxReqs

ASSUME WindowAssumption == Window \in Nat \ {0} /\ MaxReqs \in Nat \ {0}

VARIABLES
    win,        \* the limiter: [requests, head, count]
    windowLog   \* the times of all admissions

swVars == <<win, windowLog>>

\* time.Time{}, before every time the clock shows
ZeroTime == -1

-------------------------------------------------------------------------------

SWInit ==
    /\ win = [requests |-> [i \in 0..(MaxReqs - 1) |-> ZeroTime],
              head |-> 0, count |-> 0]
    /\ windowLog = <<>>

\* The slot of the i-th request in the ring, counting from the head.
Slot(w, i) == (w.head + i) % MaxReqs

\* A mutation of Expired: a request of exactly Window ticks ago still counts.
ExpiredLate(w, i) == w.requests[Slot(w, i)] < now - Window

\* cutoff: a request made Window ticks ago no longer counts
Expired(w, i) == w.requests[Slot(w, i)] <= now - Window

\* The requests cleanup passes over before it meets one that is still live.
expiredCount(w) ==
    CHOOSE n \in 0..w.count :
        /\ \A i \in 0..(n - 1) : Expired(w, i)
        /\ n = w.count \/ ~Expired(w, n)

cleanup(w) ==
    LET n == expiredCount(w)
    IN  [requests |-> [s \in 0..(MaxReqs - 1) |->
                          IF \E i \in 0..(n - 1) : s = Slot(w, i)
                          THEN ZeroTime ELSE w.requests[s]],
         head |-> Slot(w, n),
         count |-> w.count - n]

addRequest(w, t) ==
    IF w.count < MaxReqs
    THEN [w EXCEPT !.requests[Slot(w, w.count)] = t, !.count = w.count + 1]
    ELSE [w EXCEPT !.requests[Slot(w, w.count)] = t, !.head = Slot(w, 1)]

\* Allow, and one round of Wait: admit the request or not.
WindowTry(ok) ==
    LET w == cleanup(win)
    IN  IF ok
        THEN /\ w.count < MaxReqs
             /\ Later
             /\ win' = addRequest(w, now')
             /\ windowLog' = Append(windowLog, now')
        ELSE /\ w.count >= MaxReqs
             /\ win' = w
             /\ UNCHANGED <<now, windowLog>>

\* Wait sleeps until the oldest request leaves the window.
windowWake(w) == w.requests[w.head] + Window

Count == win' = cleanup(win) /\ UNCHANGED <<now, windowLog>>

SWNext ==
    \/ Tick /\ UNCHANGED swVars
    \/ \E ok \in BOOLEAN : WindowTry(ok)
    \/ Count

SWSpec == now = 0 /\ SWInit /\ [][SWNext]_<<now, swVars>>

-------------------------------------------------------------------------------

(* No window of windowSize ever holds more than maxReqs admissions: any    *)
(* admission comes at least Window after the one MaxReqs places before it, *)
(* wherever the ring's head has wandered (Allow, Wait).                    *)
WindowRespected ==
    \A j \in 1..(Len(windowLog) - MaxReqs) :
        windowLog[j + MaxReqs] - windowLog[j] >= Window

(* The ring holds, in order from its head, exactly the latest count        *)
(* admissions, and every admission it has dropped has left the window      *)
(* (cleanup stops at the first live request, addRequest reuses the slots). *)
RingIsLog ==
    LET dropped == Len(windowLog) - win.count
    IN  /\ dropped >= 0
        /\ \A i \in 0..(win.count - 1) :
              win.requests[Slot(win, i)] = windowLog[dropped + 1 + i]
        /\ \A j \in 1..dropped : windowLog[j] <= now - Window

(* A request that comes now is refused only when MaxReqs admissions really *)
(* lie within the window: no caller is held back for a stale entry.        *)
RefusesOnlyWhenFull ==
    cleanup(win).count >= MaxReqs
        => /\ Len(windowLog) >= MaxReqs
           /\ windowLog[Len(windowLog) - MaxReqs + 1] > now - Window

(* The window limiter is as strict as it promises, no less and no more,    *)
(* and its ring is the reason (NewSlidingWindow, Allow, Wait, cleanup).    *)
WindowExact == RingIsLog /\ WindowRespected /\ RefusesOnlyWhenFull
===============================================================================
