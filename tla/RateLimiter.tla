----------------------------- MODULE RateLimiter ----------------------------
(***************************************************************************)
(* auth-service/src/ratelimit.rs as POST /login uses it (api.rs), for one  *)
(* peer address: the entries of the HashMap are independent, and the       *)
(* limiters of /register, /refresh and /logout are `check' alone, the way  *)
(* login_success_limiter is used here.                                     *)
(*                                                                         *)
(* A login reserves a slot of login_limiter before its argon2 check and    *)
(* gives it back when the password was right.  Other logins of the same    *)
(* address run in between.                                                 *)
(***************************************************************************)
EXTENDS Integers, FiniteSets, SequencesExt

CONSTANTS
    Attempt,        \* handler slots that run POST /login
    WINDOW,         \* RATE_WINDOW, in clock ticks
    LIMIT,          \* LOGIN_FAIL_LIMIT
    SUCCESS_LIMIT,  \* LOGIN_SUCCESS_LIMIT
    MaxVerify,      \* longest password check, in ticks
    MaxClock        \* bound: last clock value

ASSUME LimiterAssumption ==
    /\ IsFiniteSet(Attempt)
    /\ WINDOW \in Nat \ {0} /\ LIMIT \in Nat \ {0}
    /\ SUCCESS_LIMIT \in Nat \ {0}
    /\ MaxVerify \in 0..(WINDOW - 1) /\ MaxClock \in Nat

VARIABLES
    clock,      \* Instant::now()
    hits,       \* the address's entry in login_limiter
    successes,  \* its entry in login_success_limiter
    login,      \* login[a]: where handler a is, and when it reserved its slot
    failed,     \* history: failed[t] logins that reserved at t failed
    issued,     \* history: issued[t] logins were let through at t
    swapped     \* history: some refund removed another attempt's time

vars == <<clock, hits, successes, login, failed, issued, swapped>>

Time == 0..MaxClock

Idle == [pc |-> "idle", began |-> 0]

(* Mutated forms, for the mutation runs: a window one tick short, a limit  *)
(* compared with >, a push that keeps old times, a refund of everything,   *)
(* and no refund.                                                          *)
RetainShort(entry) == SelectSeq(entry, LAMBDA t : clock - t < WINDOW - 1)

(* What check() retains: the times less than a window ago.                 *)
Retain(entry) ==
    FoldLeft(LAMBDA kept, t : IF clock - t < WINDOW THEN Append(kept, t) ELSE kept,
             <<>>, entry)

FullLate(entry, limit) == Len(Retain(entry)) > limit

(* check() refuses.                                                        *)
Full(entry, limit) == Len(Retain(entry)) >= limit

PushUnpruned(entry) == Append(entry, clock)

(* check() allows: the time is recorded.                                   *)
Push(entry) == Append(Retain(entry), clock)

PopAll(entry) == <<>>

PopNone(entry) == entry

(* refund(): entry.pop().                                                  *)
Pop(entry) == IF entry = <<>> THEN <<>> ELSE Front(entry)

Init ==
    /\ clock = 0
    /\ hits = <<>> /\ successes = <<>>
    /\ login = [a \in Attempt |-> Idle]
    /\ failed = [t \in Time |-> 0] /\ issued = [t \in Time |-> 0]
    /\ swapped = FALSE

Reserve(a) ==
    /\ login[a] = Idle
    /\ ~Full(hits, LIMIT)
    /\ hits' = Push(hits)
    /\ login' = [login EXCEPT ![a] = [pc |-> "verify", began |-> clock]]
    /\ UNCHANGED <<clock, successes, failed, issued, swapped>>

(* 429 before the password is looked at.                                   *)
Refuse(a) ==
    /\ login[a] = Idle
    /\ Full(hits, LIMIT)
    /\ hits' = Retain(hits)
    /\ UNCHANGED <<clock, successes, login, failed, issued, swapped>>

(* 401 for a wrong password or an unknown nick; 500 for a database error.  *)
Fail(a) ==
    /\ login[a].pc = "verify"
    /\ login' = [login EXCEPT ![a] = Idle]
    /\ failed' = [failed EXCEPT ![login[a].began] = @ + 1]
    /\ UNCHANGED <<clock, hits, successes, issued, swapped>>

Refund(a) ==
    /\ login[a].pc = "verify"
    /\ hits' = Pop(hits)
    /\ swapped' = (swapped \/ (hits # <<>> /\ Last(hits) # login[a].began))
    /\ login' = [login EXCEPT ![a].pc = "verified"]
    /\ UNCHANGED <<clock, successes, failed, issued>>

(* login_success_limiter.check(): 429 or on to the tokens.                 *)
Admit(a) ==
    /\ login[a].pc = "verified"
    /\ ~Full(successes, SUCCESS_LIMIT)
    /\ successes' = Push(successes)
    /\ issued' = [issued EXCEPT ![clock] = @ + 1]
    /\ login' = [login EXCEPT ![a] = Idle]
    /\ UNCHANGED <<clock, hits, failed, swapped>>

Throttle(a) ==
    /\ login[a].pc = "verified"
    /\ Full(successes, SUCCESS_LIMIT)
    /\ successes' = Retain(successes)
    /\ login' = [login EXCEPT ![a] = Idle]
    /\ UNCHANGED <<clock, hits, failed, issued, swapped>>

(* The history that some window not yet complete can still contain.       *)
Recent(count) ==
    [t \in Time |-> IF clock - t < WINDOW + MaxVerify THEN count[t] ELSE 0]

Tick ==
    /\ clock < MaxClock
    /\ \A a \in Attempt : login[a] = Idle \/ clock - login[a].began < MaxVerify
    /\ clock' = clock + 1
    /\ failed' = Recent(failed)
    /\ issued' = Recent(issued)
    /\ UNCHANGED <<hits, successes, login, swapped>>

Step(a) ==
    Reserve(a) \/ Refuse(a) \/ Fail(a) \/ Refund(a) \/ Admit(a) \/ Throttle(a)

Next == Tick \/ \E a \in Attempt : Step(a)

Spec == Init /\ [][Next]_vars

-----------------------------------------------------------------------------
TypeOK ==
    /\ clock \in Time
    /\ hits \in Seq(Time) /\ Len(hits) <= LIMIT
    /\ successes \in Seq(Time) /\ Len(successes) <= SUCCESS_LIMIT
    /\ login \in [Attempt -> [pc : {"idle", "verify", "verified"},
                              began : Time]]
    /\ failed \in [Time -> Nat] /\ issued \in [Time -> Nat]
    /\ swapped \in BOOLEAN

(* The window that ends at t, and the logins it contains, numbered.        *)
WindowOf(t) == {u \in Time : t - WINDOW < u /\ u <= t}

Counted(count, t) == UNION {{u} \X (1..count[u]) : u \in WindowOf(t)}

InWindow(count, t) == Cardinality(Counted(count, t))

InFlight == {a \in Attempt : login[a].pc = "verify"}

(* README: 429 for "more than 10 failed login attempts from this peer      *)
(* address in the last hour"; comment of refund(): "the aggregate count    *)
(* (pushes minus refunds) stays correct either way".                       *)
FailuresBounded == \A t \in Time : InWindow(failed, t) <= LIMIT

(* The bound is exact as long as every refund removes its own time.        *)
FailuresBoundedUnlessSwapped == swapped \/ FailuresBounded

(* However the refunds swap times, a window has at most as many failures   *)
(* over the limit as further logins of the address can be under way.       *)
FailuresBoundedByOverlap ==
    \A t \in Time : InWindow(failed, t) < LIMIT + Cardinality(Attempt)

(* "Successful logins never count": a refused login is owed to failures of *)
(* the last window and to logins whose password is still being checked.    *)
RefusalJustified ==
    Full(hits, LIMIT) =>
        InWindow(failed, clock) + Cardinality(InFlight) >= LIMIT

(* The plain limiter is exact, the instant a time leaves the window too.   *)
SuccessesBounded == \A t \in Time : InWindow(issued, t) <= SUCCESS_LIMIT

-----------------------------------------------------------------------------
(* The inductive invariant.  A window is open while t >= clock, and closed *)
(* afterwards.                                                             *)

(* The times of an entry that count in the window that ends at t.          *)
Held(entry, t) == {i \in DOMAIN entry : t - entry[i] < WINDOW}

(* The logins being verified that began in that window, and before it.     *)
Pending(t) == {a \in InFlight : login[a].began \in WindowOf(t)}

Early(t) == {a \in InFlight : login[a].began <= t - WINDOW}

(* What the entry owes to the window: failures, and logins that may fail.  *)
Owed(t) == InWindow(failed, t) + Cardinality(Pending(t))

InOrder(entry) ==
    /\ \A i \in DOMAIN entry : entry[i] <= clock
    /\ \A i, j \in DOMAIN entry : i < j => entry[i] <= entry[j]

(* Nothing is recorded for a time to come.                                 *)
PastInv ==
    /\ InOrder(hits) /\ InOrder(successes)
    /\ \A a \in Attempt : login[a].began <= clock
    /\ \A u \in Time : u > clock => failed[u] = 0 /\ issued[u] = 0

(* What the entries hold against what an open window contains.             *)
OpenInv ==
    \A t \in Time : t >= clock =>
        LET held == Cardinality(Held(hits, t))
        IN  /\ InWindow(issued, t) <= Cardinality(Held(successes, t))
            /\ held <= Owed(t)
            /\ swapped \/ Owed(t) <= held
            /\ Owed(t) # 0 =>
                  Owed(t) + Cardinality(Early(t)) < held + Cardinality(Attempt)

(* What a closed window contains, or will when its last login has failed.  *)
ClosedInv ==
    \A t \in Time : t < clock =>
        /\ InWindow(issued, t) <= SUCCESS_LIMIT
        /\ swapped \/ Owed(t) <= LIMIT
        /\ Owed(t) < LIMIT + Cardinality(Attempt)

LimiterInv == TypeOK /\ PastInv /\ OpenInv /\ ClosedInv

=============================================================================
