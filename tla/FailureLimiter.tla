--------------------------- MODULE FailureLimiter ---------------------------
(***************************************************************************)
(* The failure limiter and the handlers that call it: the sign-in form     *)
(* ("login"), the token endpoint ("token") and every other request of the  *)
(* registry API ("request").  Allow, Failure and Success hold the limiter's *)
(* mutex; a handler checks, validates and reports in separate steps, so    *)
(* handlers race between them.                                             *)
(***************************************************************************)
EXTENDS Integers, FiniteSets

CONSTANTS
    Callers,        \* handlers that may be in flight together
    Surfaces,       \* the handlers that share this limiter
    Addresses,      \* client addresses
    Accounts,       \* account names
    NoAccount,      \* the account key of a bearer that names nobody
    MaxFailures,    \* failures until a key is blocked
    Window,         \* how long failures are counted together
    BlockFor,       \* how long a key stays blocked
    NoEntry,        \* a key without an entry
    NoCall,         \* a handler that is not running
    MaxClock        \* bound: the time at which a behaviour ends

Keys  == Addresses \cup Accounts \cup {NoAccount}
Times == 1..MaxClock

\* failureEntry.
Entry == [windowStart : Times, blockedUntil : Nat, lastSeen : Times, failures : Nat \ {0}]

\* A handler in flight; "valid" is what the validation said.
Call == [at : {"check", "validate", "report"}, surface : Surfaces, address : Addresses,
         account : Accounts, valid : BOOLEAN]

ASSUME LimiterConstants ==
    /\ Surfaces \subseteq {"login", "token", "request"}
    /\ Addresses \cap (Accounts \cup {NoAccount}) = {} /\ NoAccount \notin Accounts
    /\ MaxFailures \in Nat \ {0} /\ Window \in Nat \ {0} /\ BlockFor \in Nat
    /\ BlockFor >= Window
    /\ MaxClock \in Nat \ {0} /\ IsFiniteSet(Callers)
    /\ NoEntry \notin Entry /\ NoCall \notin Call

VARIABLES
    now,        \* the clock
    entries,    \* the limiter's entries
    call,       \* what each handler was called with and where it stands
    failedAt    \* history: a key's failures since its last success, at the recent times

vars == <<now, entries, call, failedAt>>

-----------------------------------------------------------------------------
(* The limiter *)

\* An absent entry is all zero.
BlockedUntil(k) == IF entries[k] = NoEntry THEN 0 ELSE entries[k].blockedUntil
Blocked(k)      == BlockedUntil(k) > now

\* Allow first drops the entries that are neither recent nor blocked.
Cleaned(k) ==
    IF entries[k] # NoEntry /\ now - entries[k].lastSeen > Window + BlockFor /\ ~Blocked(k)
    THEN NoEntry ELSE entries[k]

\* Mutant: only the account key is looked at.
AllowsAccount(ks) == ~\E k \in ks \ Addresses : Blocked(k)

Allows(ks) == ~\E k \in ks : Blocked(k)

\* Mutant: the comparison with the window is the wrong way round.
ReopensWithin(k) == entries[k] = NoEntry \/ now - entries[k].windowStart < Window

\* A failure opens a new window if there is none or it is over.
Reopens(k) == entries[k] = NoEntry \/ now - entries[k].windowStart >= Window
Count(k)   == IF Reopens(k) THEN 1 ELSE entries[k].failures + 1

\* Mutant: the first failure of a window is not counted.
FailedUncounted(k) ==
    [windowStart  |-> IF Reopens(k) THEN now ELSE entries[k].windowStart,
     blockedUntil |-> IF Count(k) > MaxFailures THEN now + BlockFor ELSE BlockedUntil(k),
     lastSeen     |-> now,
     failures     |-> Count(k) - 1]

\* Mutant: a new window starts with a new entry.
FailedAfresh(k) ==
    [windowStart  |-> IF Reopens(k) THEN now ELSE entries[k].windowStart,
     blockedUntil |-> IF Count(k) >= MaxFailures THEN now + BlockFor
                      ELSE IF Reopens(k) THEN 0 ELSE BlockedUntil(k),
     lastSeen     |-> now,
     failures     |-> Count(k)]

\* The entry after a failure; a new window keeps a block that is still on.
Failed(k) ==
    [windowStart  |-> IF Reopens(k) THEN now ELSE entries[k].windowStart,
     blockedUntil |-> IF Count(k) >= MaxFailures THEN now + BlockFor ELSE BlockedUntil(k),
     lastSeen     |-> now,
     failures     |-> Count(k)]

-----------------------------------------------------------------------------
(* The handlers *)

At(p, label) == call[p] # NoCall /\ call[p].at = label
Goto(p, label) == [call EXCEPT ![p].at = label]
Answer(p) == call' = [call EXCEPT ![p] = NoCall]

\* The keys of a handler; a bearer that failed names no account.
RateKeys(p) ==
    {call[p].address,
     IF call[p].surface = "request" /\ ~call[p].valid THEN NoAccount ELSE call[p].account}

\* handleLogin and ServeTokenHTTP check first; authenticate validates first.
Begin(p, s, a, c) ==
    /\ call[p] = NoCall
    /\ call' = [call EXCEPT ![p] =
          [at |-> IF s = "request" THEN "validate" ELSE "check", surface |-> s, address |-> a,
           account |-> c, valid |-> FALSE]]
    /\ UNCHANGED <<now, entries, failedAt>>

\* The password, the Docker token or the bearer is good or not.
Validate(p) ==
    /\ At(p, "validate")
    /\ \E ok \in BOOLEAN :
          call' = [Goto(p, IF call[p].surface = "request" THEN "check" ELSE "report")
                      EXCEPT ![p].valid = ok]
    /\ UNCHANGED <<now, entries, failedAt>>

\* Allow: a blocked handler answers 429 and reports nothing.
Check(p) ==
    /\ At(p, "check")
    /\ entries' = [k \in Keys |-> Cleaned(k)]
    /\ \/ /\ Allows(RateKeys(p))
          /\ call' = Goto(p, IF call[p].surface = "request" THEN "report" ELSE "validate")
       \/ ~Allows(RateKeys(p)) /\ Answer(p)
    /\ UNCHANGED <<now, failedAt>>

\* Failure counts against both keys.
ReportFailure(p) ==
    /\ At(p, "report") /\ ~call[p].valid
    /\ entries' = [k \in Keys |-> IF k \in RateKeys(p) THEN Failed(k) ELSE entries[k]]
    /\ failedAt' = [k \in Keys |-> IF k \in RateKeys(p) THEN [failedAt[k] EXCEPT ![now] = @ + 1]
                                                        ELSE failedAt[k]]
    /\ Answer(p)
    /\ UNCHANGED now

\* Success forgets both keys.
ReportSuccess(p) ==
    /\ At(p, "report") /\ call[p].valid
    /\ entries' = [k \in Keys |-> IF k \in RateKeys(p) THEN NoEntry ELSE entries[k]]
    /\ failedAt' = [k \in Keys |-> IF k \in RateKeys(p) THEN [t \in Times |-> 0] ELSE failedAt[k]]
    /\ Answer(p)
    /\ UNCHANGED now

Tick ==
    /\ now < MaxClock
    /\ now' = now + 1
    /\ failedAt' = [k \in Keys |-> [t \in Times |-> IF t <= now' - Window THEN 0 ELSE failedAt[k][t]]]
    /\ UNCHANGED <<entries, call>>

Init ==
    /\ now = 1
    /\ entries = [k \in Keys |-> NoEntry]
    /\ call = [p \in Callers |-> NoCall]
    /\ failedAt = [k \in Keys |-> [t \in Times |-> 0]]

Next ==
    \/ \E p \in Callers :
        \/ \E s \in Surfaces, a \in Addresses, c \in Accounts : Begin(p, s, a, c)
        \/ Validate(p) \/ Check(p) \/ ReportFailure(p) \/ ReportSuccess(p)
    \/ Tick

Spec == Init /\ [][Next]_vars

-----------------------------------------------------------------------------
(* Properties *)

\* The type invariant; an entry there is counts a failure.
TypeOK ==
    /\ now \in Times
    /\ entries \in [Keys -> Entry \cup {NoEntry}]
    /\ call \in [Callers -> Call \cup {NoCall}]
    /\ failedAt \in [Keys -> [Times -> Nat]]

\* The failures of a key since its last success, in the last Window instants,
\* each with its time and its number among those of that time.
FailuresOf(k) == UNION {{t} \X (1..failedAt[k][t]) : t \in Times}
Recent(k)     == Cardinality(FailuresOf(k))

\* Failure counts in windows that do not slide, so a burst can straddle two of
\* them: a key that is not blocked has failed fewer than MaxFailures times in
\* each, which bounds what any span of that length can hold.
BurstBounded ==
    \A k \in Keys : ~Blocked(k) => Recent(k) <= 2 * (MaxFailures - 1)

\* Allow and Failure are separate critical sections: handlers that passed the
\* check before a key was blocked still report.  Each adds at most one failure,
\* so the count of a window exceeds the limit by less than the handlers there are.
OvershootBounded ==
    \A k \in Keys : entries[k] # NoEntry =>
        entries[k].failures <= MaxFailures + Cardinality(Callers) - 1

\* What handlers that race with each other, and windows that do not slide, can
\* make of a key's entry (Failure).
FailuresInv == TypeOK /\ OvershootBounded /\ BurstBounded

\* A block ends with its time or with a success of a handler under that key:
\* neither cleanup nor a failure that opens a new window shortens it.
KeepsBlock(k) ==
    BlockedUntil(k) > now' =>
       \/ BlockedUntil(k)' >= BlockedUntil(k)
       \/ \E p \in Callers : /\ At(p, "report") /\ call'[p] = NoCall
                             /\ call[p].valid /\ k \in RateKeys(p)
BlockHolds == [][\A k \in Keys : KeepsBlock(k)]_vars

=============================================================================
