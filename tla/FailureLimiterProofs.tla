------------------------ MODULE FailureLimiterProofs ------------------------
(***************************************************************************)
(* Proofs about FailureLimiter, for every number of handlers, addresses    *)
(* and accounts, and for every limit, window and block that is no shorter  *)
(* than the window.                                                        *)
(***************************************************************************)
EXTENDS FailureLimiter, FiniteSetTheorems, TLAPS

\* Times and counts of the entry of a key, in relation to the clock.
EntryInv(k) ==
    entries[k] # NoEntry =>
        /\ entries[k].windowStart <= now /\ entries[k].lastSeen <= now
        /\ entries[k].blockedUntil <= now + BlockFor
        /\ entries[k].failures >= MaxFailures =>
              entries[k].windowStart + BlockFor <= entries[k].blockedUntil

TypeInv == TypeOK /\ \A k \in Keys : EntryInv(k)

\* The parts of a handler's call, and its keys.
LEMMA CallTypes ==
    ASSUME TypeOK, NEW p \in Callers, call[p] # NoCall
    PROVE  /\ call[p] \in Call
           /\ call[p].at \in {"check", "validate", "report"} /\ call[p].surface \in Surfaces
           /\ call[p].address \in Addresses /\ call[p].account \in Accounts
           /\ call[p].valid \in BOOLEAN
           /\ RateKeys(p) \subseteq Keys
  BY DEF TypeOK, Call, RateKeys, Keys

\* Moving a handler to another label, with the outcome of its validation.
LEMMA CallMoves ==
    ASSUME TypeOK, NEW p \in Callers, call[p] # NoCall,
           NEW at \in {"check", "validate", "report"}, NEW ok \in BOOLEAN
    PROVE  /\ Goto(p, at) \in [Callers -> Call \cup {NoCall}]
           /\ [Goto(p, at) EXCEPT ![p].valid = ok] \in [Callers -> Call \cup {NoCall}]
           /\ Goto(p, at)[p] = [call[p] EXCEPT !.at = at]
           /\ [Goto(p, at) EXCEPT ![p].valid = ok][p] = [call[p] EXCEPT !.at = at, !.valid = ok]
           /\ \A q \in Callers \ {p} : /\ Goto(p, at)[q] = call[q]
                                       /\ [Goto(p, at) EXCEPT ![p].valid = ok][q] = call[q]
  <1>1. /\ [call[p] EXCEPT !.at = at] \in Call
        /\ [call[p] EXCEPT !.at = at, !.valid = ok] \in Call
        /\ [[call[p] EXCEPT !.at = at] EXCEPT !.valid = ok] = [call[p] EXCEPT !.at = at, !.valid = ok]
    BY CallTypes DEF Call
  <1>2. Goto(p, at) = [call EXCEPT ![p] = [call[p] EXCEPT !.at = at]]
    BY DEF Goto
  <1>3. Goto(p, at) \in [Callers -> Call \cup {NoCall}] /\ Goto(p, at)[p] = [call[p] EXCEPT !.at = at]
    BY <1>1, <1>2 DEF TypeOK
  <1>4. [Goto(p, at) EXCEPT ![p].valid = ok]
           = [Goto(p, at) EXCEPT ![p] = [call[p] EXCEPT !.at = at, !.valid = ok]]
    BY <1>1, <1>3
  <1>5. QED
    BY <1>1, <1>2, <1>3, <1>4 DEF TypeOK

\* The entry after a failure.
LEMMA FailedEntry ==
    ASSUME TypeInv, NEW k \in Keys
    PROVE  /\ Failed(k) \in Entry
           /\ Failed(k).windowStart <= now /\ Failed(k).lastSeen = now
           /\ Failed(k).blockedUntil <= now + BlockFor
           /\ Failed(k).blockedUntil >= BlockedUntil(k)
           /\ Failed(k).failures >= MaxFailures => Failed(k).blockedUntil = now + BlockFor
           /\ Failed(k).failures = Count(k)
           /\ Failed(k).windowStart = IF Reopens(k) THEN now ELSE entries[k].windowStart
  <1>1. now \in Nat /\ now \in Times /\ BlockFor \in Nat /\ MaxFailures \in Nat \ {0} /\ MaxClock \in Nat
    BY LimiterConstants DEF TypeInv, TypeOK, Times
  <1>2. entries[k] # NoEntry =>
           /\ entries[k] \in Entry /\ entries[k].windowStart \in Times
           /\ entries[k].blockedUntil \in Nat /\ entries[k].failures \in Nat \ {0}
           /\ EntryInv(k)
    BY DEF TypeInv, TypeOK, Entry
  <1>3. Count(k) \in Nat \ {0} /\ BlockedUntil(k) \in Nat /\ BlockedUntil(k) <= now + BlockFor
    BY <1>1, <1>2 DEF Count, Reopens, BlockedUntil, EntryInv
  <1>4. QED
    BY <1>1, <1>2, <1>3 DEF Failed, Entry, Reopens, EntryInv, Times

\* Every step preserves the types and the order of an entry's times.
LEMMA StepTypeInv ==
    ASSUME TypeInv, [Next]_vars
    PROVE  TypeInv'
  <1>t. TypeOK /\ \A k \in Keys : EntryInv(k)
    BY DEF TypeInv
  <1>c. /\ now \in Nat /\ MaxClock \in Nat \ {0} /\ BlockFor \in Nat /\ Window \in Nat \ {0}
        /\ MaxFailures \in Nat \ {0}
    BY LimiterConstants DEF TypeInv, TypeOK, Times
  <1>1. ASSUME NEW p \in Callers, NEW s \in Surfaces, NEW a \in Addresses, NEW c \in Accounts,
               Begin(p, s, a, c)
        PROVE  TypeInv'
    <2>1. [at |-> IF s = "request" THEN "validate" ELSE "check", surface |-> s, address |-> a,
           account |-> c, valid |-> FALSE] \in Call
      BY DEF Call
    <2>2. QED
      BY <1>1, <1>t, <2>1 DEF Begin, TypeInv, TypeOK, EntryInv
  <1>2. ASSUME NEW p \in Callers, Validate(p)
        PROVE  TypeInv'
    <2>1. call' \in [Callers -> Call \cup {NoCall}]
      <3> DEFINE at == IF call[p].surface = "request" THEN "check" ELSE "report"
      <3>1. PICK ok \in BOOLEAN : call' = [Goto(p, at) EXCEPT ![p].valid = ok]
        BY <1>2 DEF Validate
      <3>2. call[p] # NoCall /\ at \in {"check", "validate", "report"}
        BY <1>2 DEF Validate, At
      <3>3. QED
        BY <1>t, <3>1, <3>2, CallMoves
    <2>2. QED
      BY <1>2, <1>t, <2>1 DEF Validate, TypeInv, TypeOK, EntryInv
  <1>3. ASSUME NEW p \in Callers, Check(p)
        PROVE  TypeInv'
    <2>1. call' \in [Callers -> Call \cup {NoCall}]
      <3> DEFINE at == IF call[p].surface = "request" THEN "report" ELSE "validate"
      <3>1. call' = Goto(p, at) \/ Answer(p)
        BY <1>3 DEF Check
      <3>2. call[p] # NoCall /\ at \in {"check", "validate", "report"}
        BY <1>3 DEF Check, At
      <3>3. Goto(p, at) \in [Callers -> Call \cup {NoCall}]
        BY <1>t, <3>2, CallMoves
      <3>4. QED
        BY <1>t, <3>1, <3>3 DEF Answer, TypeOK
    <2>2. QED
      BY <1>3, <1>t, <2>1 DEF Check, Cleaned, TypeInv, TypeOK, EntryInv
  <1>4. ASSUME NEW p \in Callers, ReportFailure(p)
        PROVE  TypeInv'
    <2>1. \A k \in Keys : entries'[k] = IF k \in RateKeys(p) THEN Failed(k) ELSE entries[k]
      BY <1>4 DEF ReportFailure
    <2>2. entries' \in [Keys -> Entry \cup {NoEntry}]
      BY <1>4, <1>t, FailedEntry DEF ReportFailure, TypeOK
    <2>3. call' \in [Callers -> Call \cup {NoCall}] /\ UNCHANGED now
      BY <1>4, <1>t DEF ReportFailure, Answer, TypeOK
    <2>4. failedAt' \in [Keys -> [Times -> Nat]]
      BY <1>4, <1>t DEF ReportFailure, TypeOK
    <2>5. ASSUME NEW k \in Keys
          PROVE  EntryInv(k)'
      <3>1. CASE k \notin RateKeys(p)
        BY <1>t, <2>1, <2>3, <3>1 DEF EntryInv
      <3>2. CASE k \in RateKeys(p)
        <4>1. entries'[k] = Failed(k)
          BY <2>1, <3>2
        <4>2. Failed(k).failures >= MaxFailures =>
                 Failed(k).windowStart + BlockFor <= Failed(k).blockedUntil
          BY <1>c, FailedEntry DEF Entry, Times
        <4>3. QED
          BY <1>c, <2>3, <4>1, <4>2, FailedEntry DEF EntryInv
      <3>3. QED
        BY <3>1, <3>2
    <2>6. QED
      BY <1>t, <2>2, <2>3, <2>4, <2>5 DEF TypeInv, TypeOK
  <1>5. ASSUME NEW p \in Callers, ReportSuccess(p)
        PROVE  TypeInv'
    BY <1>5, <1>t DEF ReportSuccess, Answer, TypeInv, TypeOK, EntryInv
  <1>6. CASE Tick
    <2>1. now' \in Times /\ now' = now + 1
      BY <1>6, <1>c, <1>t DEF Tick, TypeOK, Times
    <2>2. failedAt' \in [Keys -> [Times -> Nat]]
      BY <1>6, <1>t DEF Tick, TypeOK
    <2>3. \A k \in Keys : EntryInv(k)'
      BY <1>6, <1>c, <1>t, <2>1 DEF Tick, EntryInv, TypeOK, Entry, Times
    <2>4. QED
      BY <1>6, <1>t, <2>1, <2>2, <2>3 DEF Tick, TypeInv, TypeOK
  <1>7. CASE UNCHANGED vars
    BY <1>7, <1>t DEF vars, TypeInv, TypeOK, EntryInv
  <1>8. QED
    BY <1>1, <1>2, <1>3, <1>4, <1>5, <1>6, <1>7 DEF Next

LEMMA InitTypeInv == Init => TypeInv
  BY LimiterConstants DEF Init, TypeInv, TypeOK, EntryInv, Times

-----------------------------------------------------------------------------
(***************************************************************************)
(* Blocks.                                                                 *)
(***************************************************************************)

\* Only a success shortens a block that is on.
LEMMA StepKeepsBlock ==
    ASSUME TypeInv, [Next]_vars
    PROVE  \A k \in Keys : KeepsBlock(k)
  <1> SUFFICES ASSUME NEW k \in Keys, BlockedUntil(k) > now'
               PROVE  KeepsBlock(k)
    BY DEF KeepsBlock
  <1>t. /\ now \in Nat /\ BlockedUntil(k) \in Nat /\ TypeOK
    BY DEF TypeInv, TypeOK, Times, BlockedUntil, Entry
  <1>1. CASE UNCHANGED entries
    BY <1>t, <1>1 DEF KeepsBlock, BlockedUntil
  <1>2. ASSUME NEW p \in Callers, Check(p)
        PROVE  KeepsBlock(k)
    <2>1. entries'[k] = entries[k]
      BY <1>2 DEF Check, Cleaned, Blocked
    <2>2. QED
      BY <1>t, <2>1 DEF KeepsBlock, BlockedUntil
  <1>3. ASSUME NEW p \in Callers, ReportFailure(p)
        PROVE  KeepsBlock(k)
    <2>1. entries'[k] = IF k \in RateKeys(p) THEN Failed(k) ELSE entries[k]
      BY <1>3 DEF ReportFailure
    <2>2. Failed(k) # NoEntry
      BY FailedEntry, LimiterConstants
    <2>3. QED
      BY <1>t, <2>1, <2>2, FailedEntry DEF KeepsBlock, BlockedUntil
  <1>4. ASSUME NEW p \in Callers, ReportSuccess(p)
        PROVE  KeepsBlock(k)
    <2>1. CASE k \in RateKeys(p)
      BY <1>4, <1>t, <2>1 DEF ReportSuccess, Answer, KeepsBlock, TypeOK
    <2>2. CASE k \notin RateKeys(p)
      BY <1>4, <1>t, <2>2 DEF ReportSuccess, KeepsBlock, BlockedUntil
    <2>3. QED
      BY <2>1, <2>2
  <1>5. QED
    BY <1>1, <1>2, <1>3, <1>4 DEF Next, Begin, Validate, Tick, vars

\* Allow and Failure: a key stays blocked until its time, or until a success
\* under it, whatever cleanup, windows and racing handlers do.
THEOREM BlocksHold == Spec => BlockHolds
  <1>1. TypeInv /\ [Next]_vars => TypeInv'
    BY StepTypeInv
  <1>2. TypeInv /\ [Next]_vars => [\A k \in Keys : KeepsBlock(k)]_vars
    BY StepKeepsBlock
  <1>3. QED
    BY InitTypeInv, <1>1, <1>2, PTL DEF Spec, BlockHolds

-----------------------------------------------------------------------------
(***************************************************************************)
(* Overshoot.  Handlers that passed the check before a key was blocked     *)
(* still report.  While a full window lasts no other handler passes, so    *)
(* failures and handlers that may yet report add up to what they were.     *)
(***************************************************************************)
Passed(p) == /\ call[p] # NoCall
             /\ \/ call[p].at = "report"
                \/ call[p].at = "validate" /\ call[p].surface # "request"
Pending(k) == {p \in Callers : Passed(p) /\ k \in RateKeys(p)}
MostFailures == MaxFailures + Cardinality(Callers) - 1

OvershootInv(k) ==
    entries[k] # NoEntry =>
        /\ entries[k].failures <= MostFailures
        /\ entries[k].failures >= MaxFailures /\ now - entries[k].windowStart < Window =>
              entries[k].failures + Cardinality(Pending(k)) <= MostFailures

\* The handlers that may yet report are finitely many; without one of them
\* they are fewer.
LEMMA PendingCount ==
    ASSUME NEW k
    PROVE  /\ Cardinality(Callers) \in Nat
           /\ Cardinality(Pending(k)) \in Nat
           /\ \A p \in Pending(k) : /\ Cardinality(Pending(k)) >= 1
                                    /\ Cardinality(Pending(k) \ {p}) = Cardinality(Pending(k)) - 1
           /\ \A p \in Callers : /\ Cardinality(Callers) >= 1
                                 /\ Cardinality(Pending(k) \ {p}) <= Cardinality(Callers) - 1
  <1>1. IsFiniteSet(Callers) /\ Pending(k) \in SUBSET Callers
    BY LimiterConstants DEF Pending
  <1>2. IsFiniteSet(Pending(k)) /\ Cardinality(Pending(k)) \in Nat /\ Cardinality(Callers) \in Nat
    BY <1>1, FS_Subset, FS_CardinalityType
  <1>3. ASSUME NEW p \in Pending(k)
        PROVE  /\ Cardinality(Pending(k)) >= 1
               /\ Cardinality(Pending(k) \ {p}) = Cardinality(Pending(k)) - 1
    <2>1. Cardinality(Pending(k)) # 0
      BY <1>2, <1>3, FS_EmptySet
    <2>2. QED
      BY <1>2, <1>3, <2>1, FS_RemoveElement
  <1>4. ASSUME NEW p \in Callers
        PROVE  /\ Cardinality(Callers) >= 1
               /\ Cardinality(Pending(k) \ {p}) <= Cardinality(Callers) - 1
    <2>1. Cardinality(Callers) # 0
      BY <1>1, <1>4, FS_EmptySet
    <2>2. IsFiniteSet(Callers \ {p}) /\ Cardinality(Callers \ {p}) = Cardinality(Callers) - 1
      BY <1>1, <1>4, FS_RemoveElement
    <2>3. Pending(k) \ {p} \in SUBSET (Callers \ {p})
      BY <1>1
    <2>4. Cardinality(Pending(k) \ {p}) <= Cardinality(Callers \ {p})
      BY <2>2, <2>3, FS_Subset
    <2>5. QED
      BY <1>2, <2>1, <2>2, <2>4
  <1>5. QED
    BY <1>2, <1>3, <1>4

\* Whether a handler may yet report under a key depends on its own call.
LEMMA PendingOthers ==
    ASSUME NEW p \in Callers, \A q \in Callers \ {p} : call'[q] = call[q], NEW k
    PROVE  Pending(k)' \ {p} = Pending(k) \ {p}
  BY DEF Pending, Passed, RateKeys

\* Every step keeps failures and pending handlers within the limit.
LEMMA StepOvershootInv ==
    ASSUME TypeInv, \A k \in Keys : OvershootInv(k), [Next]_vars
    PROVE  \A k \in Keys : OvershootInv(k)'
  <1> SUFFICES ASSUME NEW k \in Keys
               PROVE  OvershootInv(k)'
    OBVIOUS
  <1>t. /\ TypeOK /\ EntryInv(k) /\ OvershootInv(k)
        /\ now \in Nat /\ Window \in Nat \ {0} /\ BlockFor \in Nat /\ BlockFor >= Window
        /\ MaxFailures \in Nat \ {0}
        /\ entries[k] # NoEntry => /\ entries[k].windowStart \in Nat /\ entries[k].failures \in Nat
                                   /\ entries[k].blockedUntil \in Nat
    BY LimiterConstants DEF TypeInv, TypeOK, Times, Entry
  <1>c. /\ Cardinality(Callers) \in Nat /\ Cardinality(Pending(k)) \in Nat /\ MostFailures \in Int
    BY <1>t, PendingCount DEF MostFailures
  <1>u. ASSUME Pending(k)' = Pending(k), entries'[k] = entries[k], now' \in Nat, now' >= now
        PROVE  OvershootInv(k)'
    <2>1. entries[k] # NoEntry /\ now' - entries[k].windowStart < Window =>
             now - entries[k].windowStart < Window
      BY <1>t, <1>u
    <2>2. QED
      BY <1>t, <1>u, <2>1 DEF OvershootInv, MostFailures
  <1>1. ASSUME NEW p \in Callers, NEW s \in Surfaces, NEW a \in Addresses, NEW c \in Accounts,
               Begin(p, s, a, c)
        PROVE  OvershootInv(k)'
    <2>1. p \notin Pending(k) /\ p \notin Pending(k)'
      BY <1>1, <1>t DEF Begin, Pending, Passed, TypeOK
    <2>2. Pending(k)' = Pending(k)
      <3>1. \A q \in Callers \ {p} : call'[q] = call[q]
        BY <1>1, <1>t DEF Begin, TypeOK
      <3>2. QED
        BY <2>1, <3>1, PendingOthers
    <2>3. QED
      BY <1>1, <1>u, <1>t, <2>2 DEF Begin
  <1>2. ASSUME NEW p \in Callers, Validate(p)
        PROVE  OvershootInv(k)'
    <2> DEFINE at == IF call[p].surface = "request" THEN "check" ELSE "report"
    <2>1. PICK ok \in BOOLEAN : call' = [Goto(p, at) EXCEPT ![p].valid = ok]
      BY <1>2 DEF Validate
    <2>2. call[p] # NoCall /\ call[p].at = "validate" /\ at \in {"check", "validate", "report"}
      BY <1>2 DEF Validate, At
    <2>3. /\ call'[p] = [call[p] EXCEPT !.at = at, !.valid = ok] /\ call[p] \in Call /\ call'[p] \in Call
          /\ \A q \in Callers \ {p} : call'[q] = call[q]
      <3>1. [call[p] EXCEPT !.at = at, !.valid = ok] \in Call
        BY <1>t, <2>2, CallTypes DEF Call
      <3>2. call[p] \in Call
        BY <1>t, <2>2, CallTypes
      <3>3. /\ [Goto(p, at) EXCEPT ![p].valid = ok][p] = [call[p] EXCEPT !.at = at, !.valid = ok]
            /\ \A q \in Callers \ {p} : [Goto(p, at) EXCEPT ![p].valid = ok][q] = call[q]
        <4> HIDE DEF at
        <4>1. Goto(p, at) = [call EXCEPT ![p] = [call[p] EXCEPT !.at = at]]
          BY DEF Goto
        <4>2. /\ DOMAIN Goto(p, at) = Callers /\ Goto(p, at)[p] = [call[p] EXCEPT !.at = at]
              /\ \A q \in Callers \ {p} : Goto(p, at)[q] = call[q]
          BY <1>t, <4>1 DEF TypeOK
        <4>3. [[call[p] EXCEPT !.at = at] EXCEPT !.valid = ok] = [call[p] EXCEPT !.at = at, !.valid = ok]
          BY <3>2 DEF Call
        <4>4. QED
          BY <4>2, <4>3
      <3>4. QED
        BY <2>1, <3>1, <3>2, <3>3
    <2>4. /\ call'[p] # NoCall /\ call'[p].surface = call[p].surface /\ call'[p].at = at
          /\ call'[p].address = call[p].address /\ call'[p].account = call[p].account
      BY <2>3, LimiterConstants DEF Call
    <2>5. p \in Pending(k)' <=> p \in Pending(k)
      BY <2>2, <2>4 DEF Pending, Passed, RateKeys
    <2>6. Pending(k)' = Pending(k)
      BY <2>3, <2>5, PendingOthers
    <2>7. QED
      BY <1>2, <1>t, <1>u, <2>6 DEF Validate
  <1>3. ASSUME NEW p \in Callers, Check(p), Allows(RateKeys(p))
        PROVE  OvershootInv(k)'
    <2> DEFINE at == IF call[p].surface = "request" THEN "report" ELSE "validate"
    <2>1. /\ call[p] # NoCall /\ call[p].at = "check" /\ at \in {"check", "validate", "report"}
          /\ call' = Goto(p, at) /\ entries'[k] = Cleaned(k) /\ UNCHANGED now
      BY <1>3 DEF Check, At
    <2>2. /\ call'[p] = [call[p] EXCEPT !.at = at] /\ call[p] \in Call
          /\ \A q \in Callers \ {p} : call'[q] = call[q]
      <3>1. call[p] \in Call
        BY <1>t, <2>1, CallTypes
      <3> HIDE DEF at
      <3>2. Goto(p, at) = [call EXCEPT ![p] = [call[p] EXCEPT !.at = at]]
        BY DEF Goto
      <3>3. QED
        BY <1>t, <2>1, <3>1, <3>2 DEF TypeOK
    <2>3. /\ p \notin Pending(k)
          /\ p \in Pending(k)' => k \in RateKeys(p)
      BY <2>1, <2>2 DEF Pending, Passed, RateKeys, Call
    <2>4. CASE k \in RateKeys(p)
      <3>1. ~Blocked(k)
        BY <1>3, <2>4 DEF Allows
      <3>2. entries[k] # NoEntry /\ entries[k].failures >= MaxFailures =>
               now - entries[k].windowStart >= Window
        BY <1>t, <3>1 DEF Blocked, BlockedUntil, EntryInv
      <3>3. QED
        BY <1>t, <2>1, <3>2 DEF OvershootInv, Cleaned, MostFailures
    <2>5. CASE k \notin RateKeys(p)
      <3>1. Pending(k)' = Pending(k)
        BY <2>2, <2>3, <2>5, PendingOthers
      <3>2. entries'[k] = entries[k] \/ entries'[k] = NoEntry
        BY <2>1 DEF Cleaned
      <3>3. QED
        BY <1>t, <1>u, <2>1, <3>1, <3>2 DEF OvershootInv
    <2>6. QED
      BY <2>4, <2>5
  <1>4. ASSUME NEW p \in Callers, Check(p), Answer(p)
        PROVE  OvershootInv(k)'
    <2>1. p \notin Pending(k) /\ p \notin Pending(k)'
      BY <1>4, <1>t DEF Check, At, Answer, Pending, Passed, TypeOK
    <2>2. Pending(k)' = Pending(k)
      <3>1. \A q \in Callers \ {p} : call'[q] = call[q]
        BY <1>4, <1>t DEF Answer, TypeOK
      <3>2. QED
        BY <2>1, <3>1, PendingOthers
    <2>3. entries'[k] = entries[k] \/ entries'[k] = NoEntry
      BY <1>4 DEF Check, Cleaned
    <2>4. QED
      BY <1>4, <1>t, <1>u, <2>2, <2>3 DEF Check, OvershootInv
  <1>5. ASSUME NEW p \in Callers, ReportFailure(p) \/ ReportSuccess(p)
        PROVE  OvershootInv(k)'
    <2>1. /\ call[p] # NoCall /\ call[p].at = "report" /\ UNCHANGED now
          /\ call' = [call EXCEPT ![p] = NoCall]
      BY <1>5 DEF ReportFailure, ReportSuccess, At, Answer
    <2>2. p \notin Pending(k)' /\ \A q \in Callers \ {p} : call'[q] = call[q]
      BY <1>t, <2>1 DEF Pending, Passed, TypeOK
    <2>3. Pending(k)' = Pending(k) \ {p}
      BY <2>2, PendingOthers
    <2>4. CASE k \notin RateKeys(p)
      <3>1. p \notin Pending(k)
        BY <2>4 DEF Pending
      <3>2. entries'[k] = entries[k]
        BY <1>5, <2>4 DEF ReportFailure, ReportSuccess
      <3>3. QED
        BY <1>t, <1>u, <2>1, <2>3, <3>1, <3>2
    <2>5. CASE k \in RateKeys(p) /\ ReportFailure(p)
      <3>1. entries'[k] = Failed(k)
        BY <2>5 DEF ReportFailure
      <3>2. /\ Failed(k).failures = Count(k)
            /\ Failed(k).windowStart = IF Reopens(k) THEN now ELSE entries[k].windowStart
        BY FailedEntry
      <3>3. p \in Pending(k)
        BY <2>1, <2>5 DEF Pending, Passed
      <3>4. /\ Cardinality(Pending(k)') = Cardinality(Pending(k)) - 1
            /\ Cardinality(Pending(k)') <= Cardinality(Callers) - 1
            /\ Cardinality(Pending(k)') \in Nat
        BY <1>c, <2>3, <3>3, PendingCount
      <3>5. CASE Reopens(k)
        BY <1>t, <1>c, <2>1, <3>1, <3>2, <3>4, <3>5 DEF Count, OvershootInv, MostFailures
      <3>6. CASE ~Reopens(k) /\ entries[k].failures >= MaxFailures
        BY <1>t, <1>c, <2>1, <3>1, <3>2, <3>4, <3>6 DEF Count, Reopens, OvershootInv, MostFailures
      <3>7. CASE ~Reopens(k) /\ entries[k].failures < MaxFailures
        BY <1>t, <1>c, <2>1, <3>1, <3>2, <3>4, <3>7 DEF Count, Reopens, OvershootInv, MostFailures
      <3>8. QED
        BY <1>t, <3>5, <3>6, <3>7 DEF Reopens
    <2>6. CASE k \in RateKeys(p) /\ ReportSuccess(p)
      BY <2>6 DEF ReportSuccess, OvershootInv
    <2>7. QED
      BY <1>5, <2>4, <2>5, <2>6
  <1>6. CASE Tick
    <2>1. Pending(k)' = Pending(k)
      BY <1>6 DEF Tick, Pending, Passed, RateKeys
    <2>2. QED
      BY <1>6, <1>t, <1>u, <2>1 DEF Tick
  <1>7. CASE UNCHANGED vars
    <2>1. Pending(k)' = Pending(k)
      BY <1>7 DEF vars, Pending, Passed, RateKeys
    <2>2. QED
      BY <1>7, <1>t, <1>u, <2>1 DEF vars
  <1>8. QED
    BY <1>1, <1>2, <1>3, <1>4, <1>5, <1>6, <1>7 DEF Next, Check

\* Allow and Failure are separate critical sections: however handlers race, a
\* window counts fewer failures than the limit and the handlers together.
THEOREM OvershootIsBounded == Spec => []OvershootBounded
  <1> DEFINE IInv == TypeInv /\ \A k \in Keys : OvershootInv(k)
  <1>1. Init => IInv
    BY InitTypeInv DEF Init, OvershootInv
  <1>2. IInv /\ [Next]_vars => IInv'
    BY StepTypeInv, StepOvershootInv
  <1>3. IInv => OvershootBounded
    BY DEF OvershootInv, OvershootBounded, MostFailures
  <1>4. QED
    BY <1>1, <1>2, <1>3, PTL DEF Spec

-----------------------------------------------------------------------------
(***************************************************************************)
(* Bursts.  The recent failures of a key are those of the present window   *)
(* and those before it, which all fell into the window before it.  Either  *)
(* part is smaller than the limit, or the block it caused covers it.       *)
(***************************************************************************)
After(k)  == {f \in FailuresOf(k) : f[1] >= entries[k].windowStart}
Before(k) == {f \in FailuresOf(k) : f[1] < entries[k].windowStart}

Failing(k, t) == failedAt[k][t] > 0
Covered(k, t) == t + BlockFor <= entries[k].blockedUntil

BurstInv(k) ==
    /\ \A t \in Times : Failing(k, t) => now - Window < t /\ t <= now
    /\ entries[k] = NoEntry => \A t \in Times : ~Failing(k, t)
    /\ entries[k] # NoEntry =>
          /\ \A t \in Times : Failing(k, t) =>
                t <= entries[k].lastSeen /\ t - entries[k].windowStart < Window
          /\ Cardinality(After(k)) <= entries[k].failures
          /\ entries[k].failures >= MaxFailures => \A t \in Times : Failing(k, t) => Covered(k, t)
          /\ \/ Cardinality(Before(k)) <= MaxFailures - 1
             \/ \A t \in Times : Failing(k, t) /\ t < entries[k].windowStart => Covered(k, t)

\* The failures of a key are finitely many: one for each time and number.
LEMMA FailuresFinite ==
    ASSUME TypeOK, NEW k \in Keys
    PROVE  /\ IsFiniteSet(FailuresOf(k))
           /\ \A f : f \in FailuresOf(k) <=>
                 \E t \in Times : \E n \in 1..failedAt[k][t] : f = <<t, n>>
  <1> DEFINE F(t) == {t} \X (1..failedAt[k][t])
             Parts == {F(t) : t \in Times}
             map == [t \in Times |-> F(t)]
  <1>1. MaxClock \in Nat /\ failedAt[k] \in [Times -> Nat]
    BY LimiterConstants DEF TypeOK
  <1>2. IsFiniteSet(Times)
    BY <1>1, FS_Interval DEF Times
  <1>3. map \in Surjection(Times, Parts)
    BY DEF Surjection
  <1>4. IsFiniteSet(Parts)
    BY <1>2, <1>3, FS_Surjection
  <1>5. ASSUME NEW t \in Times
        PROVE  IsFiniteSet(F(t))
    <2>1. IsFiniteSet({t}) /\ IsFiniteSet(1..failedAt[k][t])
      <3>1. failedAt[k][t] \in Int /\ 1 \in Int
        BY <1>1
      <3>2. IsFiniteSet({t})
        BY FS_Singleton
      <3>3. IsFiniteSet(1..failedAt[k][t])
        BY <3>1, FS_Interval
      <3>4. QED
        BY <3>2, <3>3
    <2>2. QED
      BY <2>1, FS_Product
  <1>6. IsFiniteSet(UNION Parts)
    BY <1>4, <1>5, FS_UNION
  <1>7. QED
    BY <1>6 DEF FailuresOf

\* Counting parts of the failures of a key.
LEMMA PartsCount ==
    ASSUME TypeOK, NEW k \in Keys
    PROVE  /\ \A S \in SUBSET FailuresOf(k) : IsFiniteSet(S) /\ Cardinality(S) \in Nat
           /\ \A S \in SUBSET FailuresOf(k) : \A T \in SUBSET S : Cardinality(T) <= Cardinality(S)
           /\ (\A t \in Times : ~Failing(k, t)) => FailuresOf(k) = {}
           /\ \A f \in FailuresOf(k) : f[1] \in Times /\ Failing(k, f[1])
  <1>1. \A S \in SUBSET FailuresOf(k) : IsFiniteSet(S)
    BY FailuresFinite, FS_Subset
  <1>2. \A S \in SUBSET FailuresOf(k) : Cardinality(S) \in Nat
    BY <1>1, FS_CardinalityType
  <1>3. \A S \in SUBSET FailuresOf(k) : \A T \in SUBSET S : Cardinality(T) <= Cardinality(S)
    BY <1>1, FS_Subset
  <1>4. \A f \in FailuresOf(k) : f[1] \in Times /\ Failing(k, f[1])
    BY FailuresFinite DEF TypeOK, Failing
  <1>5. QED
    BY <1>1, <1>2, <1>3, <1>4

\* A failure adds one element, at the present time.
LEMMA FailureAdds ==
    ASSUME TypeOK, NEW k \in Keys, failedAt'[k] = [failedAt[k] EXCEPT ![now] = @ + 1]
    PROVE  /\ FailuresOf(k)' = FailuresOf(k) \cup {<<now, failedAt[k][now] + 1>>}
           /\ \A t \in Times : Failing(k, t)' <=> Failing(k, t) \/ t = now
  <1>1. now \in Times /\ failedAt[k] \in [Times -> Nat]
    BY DEF TypeOK
  <1>2. \A t \in Times : failedAt'[k][t] = IF t = now THEN failedAt[k][now] + 1 ELSE failedAt[k][t]
    BY <1>1
  <1>3. \A t \in Times : Failing(k, t)' <=> Failing(k, t) \/ t = now
    BY <1>1, <1>2 DEF Failing
  <1>4. 1..(failedAt[k][now] + 1) = (1..failedAt[k][now]) \cup {failedAt[k][now] + 1}
    BY <1>1
  <1>5. \A t \in Times :
           {t} \X (1..failedAt'[k][t]) =
              IF t = now THEN ({t} \X (1..failedAt[k][t])) \cup {<<now, failedAt[k][now] + 1>>}
                         ELSE {t} \X (1..failedAt[k][t])
    BY <1>2, <1>4
  <1>6. ASSUME NEW f \in FailuresOf(k)'
        PROVE  f \in FailuresOf(k) \cup {<<now, failedAt[k][now] + 1>>}
    BY <1>5, <1>6 DEF FailuresOf
  <1>7. ASSUME NEW f \in FailuresOf(k) \cup {<<now, failedAt[k][now] + 1>>}
        PROVE  f \in FailuresOf(k)'
    BY <1>1, <1>5, <1>7 DEF FailuresOf
  <1>8. QED
    BY <1>3, <1>6, <1>7

\* Every step keeps the recent failures of a key where they are counted.
LEMMA StepBurstInv ==
    ASSUME TypeInv, \A k \in Keys : BurstInv(k), [Next]_vars
    PROVE  \A k \in Keys : BurstInv(k)'
  <1> SUFFICES ASSUME NEW k \in Keys
               PROVE  BurstInv(k)'
    OBVIOUS
  <1>t. /\ TypeOK /\ EntryInv(k) /\ BurstInv(k)
        /\ now \in Nat /\ now \in Times /\ Times \subseteq Nat
        /\ Window \in Nat \ {0} /\ BlockFor \in Nat /\ BlockFor >= Window
        /\ MaxFailures \in Nat \ {0}
        /\ failedAt[k] \in [Times -> Nat]
        /\ entries[k] # NoEntry =>
              /\ entries[k].windowStart \in Nat /\ entries[k].failures \in Nat
              /\ entries[k].lastSeen \in Nat /\ entries[k].blockedUntil \in Nat
    BY LimiterConstants DEF TypeInv, TypeOK, Times, Entry
  <1>u. ASSUME entries'[k] = entries[k], failedAt'[k] = failedAt[k], now' = now
        PROVE  BurstInv(k)'
    <2>1. /\ FailuresOf(k)' = FailuresOf(k) /\ After(k)' = After(k) /\ Before(k)' = Before(k)
          /\ \A t \in Times : Failing(k, t)' = Failing(k, t) /\ Covered(k, t)' = Covered(k, t)
      BY <1>u DEF FailuresOf, After, Before, Failing, Covered
    <2>2. QED
      BY <1>t, <1>u, <2>1 DEF BurstInv
  <1>1. CASE UNCHANGED <<entries, failedAt, now>>
    BY <1>1, <1>u
  <1>2. ASSUME NEW p \in Callers, Check(p)
        PROVE  BurstInv(k)'
    <2>1. entries'[k] = Cleaned(k) /\ UNCHANGED <<failedAt, now>>
      BY <1>2 DEF Check
    <2>2. CASE entries'[k] = entries[k]
      BY <1>u, <2>1, <2>2
    <2>3. CASE entries'[k] = NoEntry /\ entries'[k] # entries[k]
      <3>1. now - entries[k].lastSeen > Window + BlockFor /\ entries[k] # NoEntry
        BY <2>1, <2>3 DEF Cleaned
      <3>2. \A t \in Times : ~Failing(k, t)
        BY <1>t, <3>1 DEF BurstInv
      <3>3. \A t \in Times : ~Failing(k, t)'
        BY <2>1, <3>2 DEF Failing
      <3>4. QED
        BY <2>3, <3>3 DEF BurstInv
    <2>4. QED
      BY <2>1, <2>2, <2>3 DEF Cleaned
  <1>3. ASSUME NEW p \in Callers, ReportSuccess(p)
        PROVE  BurstInv(k)'
    <2>1. CASE k \notin RateKeys(p)
      BY <1>3, <1>u, <2>1 DEF ReportSuccess
    <2>2. CASE k \in RateKeys(p)
      <3>1. entries'[k] = NoEntry /\ \A t \in Times : failedAt'[k][t] = 0
        BY <1>3, <2>2 DEF ReportSuccess
      <3>2. \A t \in Times : ~Failing(k, t)'
        BY <3>1 DEF Failing
      <3>3. QED
        BY <3>1, <3>2 DEF BurstInv
    <2>3. QED
      BY <2>1, <2>2
  <1>4. CASE Tick
    <2>1. /\ now' = now + 1 /\ UNCHANGED entries
          /\ \A t \in Times : failedAt'[k][t] = IF t <= now' - Window THEN 0 ELSE failedAt[k][t]
      BY <1>4 DEF Tick
    <2>2. \A t \in Times : Failing(k, t)' => Failing(k, t) /\ now' - Window < t
      BY <1>t, <2>1 DEF Failing
    <2>3. FailuresOf(k)' \subseteq FailuresOf(k)
      BY <1>t, <2>1 DEF FailuresOf
    <2>4. \A t : Covered(k, t)' = Covered(k, t)
      BY <2>1 DEF Covered
    <2>5. After(k)' \subseteq After(k) /\ Before(k)' \subseteq Before(k)
      BY <2>1, <2>3 DEF After, Before
    <2>6. /\ After(k) \in SUBSET FailuresOf(k) /\ Before(k) \in SUBSET FailuresOf(k)
          /\ After(k)' \in SUBSET After(k) /\ Before(k)' \in SUBSET Before(k)
      BY <2>5 DEF After, Before
    <2>7. /\ Cardinality(After(k)') <= Cardinality(After(k))
          /\ Cardinality(Before(k)') <= Cardinality(Before(k))
          /\ Cardinality(After(k)) \in Nat /\ Cardinality(Before(k)) \in Nat
          /\ Cardinality(After(k)') \in Nat /\ Cardinality(Before(k)') \in Nat
      BY <1>t, <2>6, PartsCount
    <2>8. QED
      BY <1>t, <2>1, <2>2, <2>4, <2>7 DEF BurstInv
  <1>5. ASSUME NEW p \in Callers, ReportFailure(p), k \in RateKeys(p)
        PROVE  BurstInv(k)'
    <2> DEFINE new == <<now, failedAt[k][now] + 1>>
    <2>1. /\ entries'[k] = Failed(k) /\ UNCHANGED now
          /\ failedAt'[k] = [failedAt[k] EXCEPT ![now] = @ + 1]
      BY <1>5 DEF ReportFailure
    <2>2. /\ FailuresOf(k)' = FailuresOf(k) \cup {new}
          /\ \A t \in Times : Failing(k, t)' <=> Failing(k, t) \/ t = now
      BY <1>t, <2>1, FailureAdds
    <2>3. /\ entries'[k] # NoEntry
          /\ entries'[k].windowStart = IF Reopens(k) THEN now ELSE entries[k].windowStart
          /\ entries'[k].lastSeen = now
          /\ entries'[k].failures = Count(k)
          /\ entries'[k].failures >= MaxFailures => entries'[k].blockedUntil = now + BlockFor
          /\ entries'[k].blockedUntil >= BlockedUntil(k)
          /\ entries'[k].blockedUntil \in Nat /\ entries'[k].windowStart \in Nat
          /\ entries'[k].windowStart <= now /\ now - entries'[k].windowStart < Window
      <3>1. /\ Failed(k) # NoEntry /\ Failed(k).blockedUntil \in Nat /\ Failed(k).windowStart \in Nat
        BY <1>t, FailedEntry, LimiterConstants DEF Entry
      <3>2. (IF Reopens(k) THEN now ELSE entries[k].windowStart) <= now
        BY <1>t DEF Reopens, EntryInv
      <3>3. now - (IF Reopens(k) THEN now ELSE entries[k].windowStart) < Window
        BY <1>t DEF Reopens
      <3>4. QED
        BY <2>1, <3>1, <3>2, <3>3, FailedEntry
    <2>4. \A t \in Times : Failing(k, t)' => now - Window < t /\ t <= now
      BY <1>t, <2>2 DEF BurstInv
    <2>5. \A t \in Times : Failing(k, t)' =>
             t <= entries'[k].lastSeen /\ t - entries'[k].windowStart < Window
      <3>1. ASSUME NEW t \in Times, t <= now
            PROVE  t <= entries'[k].lastSeen /\ t - entries'[k].windowStart < Window
        <4>1. t \in Nat /\ now \in Nat /\ Window \in Nat
          BY <1>t
        <4>2. QED
          BY <2>3, <3>1, <4>1
      <3>2. QED
        BY <2>4, <3>1
    <2>6. entries'[k].failures >= MaxFailures =>
             \A t \in Times : Failing(k, t)' => Covered(k, t)'
      BY <1>t, <2>3, <2>4 DEF Covered
    <2>7. \A t \in Times : entries[k] # NoEntry /\ Covered(k, t) => Covered(k, t)'
      <3>1. ASSUME NEW t \in Times, entries[k] # NoEntry, Covered(k, t)
            PROVE  Covered(k, t)'
        <4>1. t \in Nat /\ BlockFor \in Nat /\ entries[k].blockedUntil \in Nat
          BY <1>t, <3>1
        <4>2. entries'[k].blockedUntil >= entries[k].blockedUntil
          BY <2>3, <3>1 DEF BlockedUntil
        <4>3. QED
          BY <2>3, <3>1, <4>1, <4>2 DEF Covered
      <3>2. QED
        BY <3>1
    <2>8. /\ \A S \in SUBSET FailuresOf(k) : IsFiniteSet(S) /\ Cardinality(S) \in Nat
          /\ Cardinality({new}) = 1 /\ Cardinality({}) = 0
      BY <1>t, PartsCount, FS_Singleton, FS_EmptySet
    <2>9. CASE entries[k] = NoEntry
      <3>1. FailuresOf(k) = {}
        BY <1>t, <2>9, PartsCount DEF BurstInv
      <3>2. After(k)' = {new} /\ Before(k)' = {} /\ entries'[k].failures = 1
        BY <1>t, <2>2, <2>3, <2>9, <3>1 DEF After, Before, Reopens, Count
      <3>3. QED
        BY <1>t, <2>1, <2>3, <2>4, <2>5, <2>6, <2>8, <3>2 DEF BurstInv
    <2>10. CASE entries[k] # NoEntry /\ Reopens(k)
      <3>1. \A t \in Times : Failing(k, t) => t < now /\ t >= entries[k].windowStart
        BY <1>t, <2>10 DEF BurstInv, Reopens
      <3>2. /\ \A f \in FailuresOf(k) : f[1] < now /\ f[1] >= entries[k].windowStart
            /\ \A f \in FailuresOf(k) : f[1] \in Nat
        BY <1>t, <3>1, PartsCount
      <3>3. After(k)' = {new} /\ entries'[k].failures = 1
        BY <1>t, <2>2, <2>3, <2>10, <3>2 DEF After, Count
      <3>4. Before(k)' = FailuresOf(k) /\ After(k) = FailuresOf(k)
        BY <1>t, <2>2, <2>3, <2>10, <3>2 DEF Before, After
      <3>5. CASE entries[k].failures < MaxFailures
        <4>1. Cardinality(Before(k)') <= MaxFailures - 1
          BY <1>t, <2>8, <2>10, <3>4, <3>5 DEF BurstInv
        <4>2. QED
          BY <1>t, <2>1, <2>3, <2>4, <2>5, <2>6, <2>8, <3>3, <4>1 DEF BurstInv
      <3>6. CASE entries[k].failures >= MaxFailures
        <4>1. \A t \in Times : Failing(k, t)' /\ t < entries'[k].windowStart => Covered(k, t)'
          BY <1>t, <2>2, <2>3, <2>7, <2>10, <3>6 DEF BurstInv
        <4>2. QED
          BY <1>t, <2>1, <2>3, <2>4, <2>5, <2>6, <2>8, <3>3, <4>1 DEF BurstInv
      <3>7. QED
        BY <1>t, <2>10, <3>5, <3>6
    <2>11. CASE entries[k] # NoEntry /\ ~Reopens(k)
      <3>1. After(k)' = After(k) \cup {new} /\ Before(k)' = Before(k)
        BY <1>t, <2>2, <2>3, <2>11 DEF After, Before, EntryInv
      <3>2. After(k) \in SUBSET FailuresOf(k) /\ Before(k) \in SUBSET FailuresOf(k)
        BY DEF After, Before
      <3>3. IsFiniteSet(After(k)) /\ Cardinality(After(k)) \in Nat
        BY <2>8, <3>2
      <3>4. Cardinality(After(k)') <= entries'[k].failures
        <4>1. Cardinality(After(k) \cup {new}) =
                 IF new \in After(k) THEN Cardinality(After(k)) ELSE Cardinality(After(k)) + 1
          BY <3>3, FS_AddElement
        <4>2. Cardinality(After(k)') = Cardinality(After(k) \cup {new})
          BY <3>1
        <4>3. /\ Cardinality(After(k)') <= Cardinality(After(k)) + 1
              /\ Cardinality(After(k)') \in Nat
          BY <3>3, <4>1, <4>2
        <4>4. QED
          BY <1>t, <2>3, <2>11, <3>3, <4>3 DEF BurstInv, Count
      <3>5. \/ Cardinality(Before(k)') <= MaxFailures - 1
            \/ \A t \in Times : Failing(k, t)' /\ t < entries'[k].windowStart => Covered(k, t)'
        <4>1. \A t \in Times : Failing(k, t)' /\ t < entries'[k].windowStart =>
                 Failing(k, t) /\ t < entries[k].windowStart
          <5>1. entries'[k].windowStart = entries[k].windowStart /\ entries[k].windowStart <= now
            BY <1>t, <2>3, <2>11 DEF EntryInv
          <5>2. \A t \in Times : t < entries[k].windowStart => t # now
            BY <1>t, <2>11, <5>1
          <5>3. QED
            BY <2>2, <5>1, <5>2
        <4>2. QED
          BY <1>t, <2>7, <2>11, <3>1, <4>1 DEF BurstInv
      <3>6. QED
        BY <2>1, <2>3, <2>4, <2>5, <2>6, <3>4, <3>5 DEF BurstInv
    <2>12. QED
      BY <2>9, <2>10, <2>11
  <1>6. ASSUME NEW p \in Callers, ReportFailure(p), k \notin RateKeys(p)
        PROVE  BurstInv(k)'
    BY <1>6, <1>u DEF ReportFailure
  <1>7. QED
    BY <1>1, <1>2, <1>3, <1>4, <1>5, <1>6 DEF Next, Begin, Validate, vars

\* Windows do not slide, so a burst can straddle two of them: a key that is not
\* blocked still has fewer recent failures than two full windows hold.
LEMMA BurstFollows ==
    ASSUME TypeInv, \A k \in Keys : BurstInv(k)
    PROVE  BurstBounded
  <1> SUFFICES ASSUME NEW k \in Keys, ~Blocked(k)
               PROVE  Recent(k) <= 2 * (MaxFailures - 1)
    BY DEF BurstBounded
  <1>s. /\ TypeOK /\ BurstInv(k) /\ now \in Times /\ entries \in [Keys -> Entry \cup {NoEntry}]
        /\ Window \in Nat \ {0} /\ BlockFor \in Nat /\ BlockFor >= Window
        /\ MaxFailures \in Nat \ {0} /\ Times \subseteq Nat
    BY LimiterConstants DEF TypeInv, TypeOK, Times
  <1>n. entries[k] # NoEntry =>
           /\ entries[k].blockedUntil \in Nat /\ entries[k].failures \in Nat
           /\ entries[k].windowStart \in Nat
    BY <1>s DEF Entry
  <1>t. now \in Nat /\ now \in Times
    BY <1>s
  <1>e. Cardinality({}) = 0
    BY FS_EmptySet
  <1>1. CASE entries[k] = NoEntry
    <2>1. FailuresOf(k) = {}
      BY <1>s, <1>n, <1>t, <1>1, PartsCount DEF BurstInv
    <2>2. QED
      BY <1>s, <1>n, <1>t, <1>e, <2>1 DEF Recent
  <1>2. CASE entries[k] # NoEntry
    <2>1. \A t \in Times : ~(Failing(k, t) /\ Covered(k, t))
      BY <1>s, <1>n, <1>t, <1>2 DEF BurstInv, Covered, Blocked, BlockedUntil
    <2>2. /\ Cardinality(After(k)) \in Nat /\ Cardinality(Before(k)) \in Nat
          /\ IsFiniteSet(After(k)) /\ IsFiniteSet(Before(k))
      BY <1>s, <1>n, <1>t, PartsCount DEF After, Before
    <2>3. \A f \in FailuresOf(k) : f[1] \in Times /\ Failing(k, f[1])
      BY <1>s, <1>n, <1>t, PartsCount
    <2>4. Cardinality(After(k)) <= MaxFailures - 1
      <3>1. CASE entries[k].failures < MaxFailures
        BY <1>s, <1>n, <1>t, <1>2, <2>2, <3>1 DEF BurstInv
      <3>2. CASE entries[k].failures >= MaxFailures
        <4>1. After(k) = {}
          BY <1>s, <1>n, <1>t, <1>2, <2>1, <2>3, <3>2 DEF BurstInv, After
        <4>2. QED
          BY <1>s, <1>n, <1>t, <1>e, <4>1
      <3>3. QED
        BY <1>s, <1>n, <1>t, <1>2, <3>1, <3>2
    <2>5. Cardinality(Before(k)) <= MaxFailures - 1
      <3>1. CASE \A t \in Times : Failing(k, t) /\ t < entries[k].windowStart => Covered(k, t)
        <4>1. Before(k) = {}
          BY <2>1, <2>3, <3>1 DEF Before
        <4>2. QED
          BY <1>s, <1>n, <1>t, <1>e, <4>1
      <3>2. QED
        BY <1>s, <1>n, <1>t, <1>2, <3>1 DEF BurstInv
    <2>6. FailuresOf(k) = After(k) \cup Before(k)
      <3>1. \A f \in FailuresOf(k) : f[1] >= entries[k].windowStart \/ f[1] < entries[k].windowStart
        <4>1. \A t \in Times : t >= entries[k].windowStart \/ t < entries[k].windowStart
          BY <1>s, <1>n, <1>2
        <4>2. QED
          BY <2>3, <4>1
      <3>2. QED
        BY <3>1 DEF After, Before
    <2>7. /\ Cardinality(After(k) \cup Before(k)) =
                Cardinality(After(k)) + Cardinality(Before(k)) - Cardinality(After(k) \cap Before(k))
          /\ Cardinality(After(k) \cap Before(k)) \in Nat
      BY <2>2, FS_Union, FS_Intersection, FS_CardinalityType
    <2>8. QED
      BY <1>s, <1>n, <1>t, <2>2, <2>4, <2>5, <2>6, <2>7 DEF Recent
  <1>3. QED
    BY <1>1, <1>2

\* What racing handlers and fixed windows can make of a key's entry: for every
\* limit, window and number of handlers, both bounds hold.
THEOREM FailuresAreBounded == Spec => []FailuresInv
  <1> DEFINE IInv == TypeInv /\ \A k \in Keys : BurstInv(k)
  <1>1. Init => IInv
    BY InitTypeInv DEF Init, BurstInv, Failing
  <1>2. IInv /\ [Next]_vars => IInv'
    BY StepTypeInv, StepBurstInv
  <1>3. IInv => TypeOK /\ BurstBounded
    BY BurstFollows DEF TypeInv
  <1>4. QED
    BY <1>1, <1>2, <1>3, OvershootIsBounded, PTL DEF Spec, FailuresInv

=============================================================================
