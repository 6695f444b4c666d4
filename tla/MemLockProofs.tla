--------------------------- MODULE MemLockProofs ---------------------------
(***************************************************************************)
(* Theorems about MemLock, for every number of threads, buffers and pages, *)
(* every placement of buffers on pages and every limit.                    *)
(***************************************************************************)
EXTENDS MemLock, FiniteSetTheorems, TLAPS

(***************************************************************************)
(* Arithmetic the provers need by name.                                    *)
(***************************************************************************)

\* A value below the modulus of AtomicUsize is not changed by it.
LEMMA ModSmall ==
  ASSUME NEW x \in Nat, NEW w \in Nat, x < w
  PROVE  x % w = x
  BY SMT

\* AtomicUsize arithmetic stays in the machine word.
LEMMA ModRange ==
  ASSUME NEW x \in Int, NEW w \in Nat, w > 0
  PROVE  x % w \in 0 .. w - 1
  BY SMT

\* Reducing a natural number modulo the word never makes it larger.
LEMMA ModShrinks ==
  ASSUME NEW x \in Nat, NEW w \in Nat, w > 0
  PROVE  x % w <= x
  BY SMT

\* Multiples of a natural number are natural numbers.
LEMMA TimesNat ==
  ASSUME NEW n \in Nat, NEW k \in Nat
  PROVE  n * k \in Nat
  BY SMT

\* One more buffer is N more bytes.
LEMMA TimesSucc ==
  ASSUME NEW n \in Nat, NEW k \in Nat
  PROVE  n * (k + 1) = n * k + n
  BY SMT

\* Fewer buffers are fewer bytes.
LEMMA TimesMonotone ==
  ASSUME NEW n \in Nat, NEW j \in Nat, NEW k \in Nat, j <= k
  PROVE  n * j <= n * k
  BY SMT

(***************************************************************************)
(* The inductive invariant.  Its first parts say which buffer a call works *)
(* on and how the field `locked` agrees with the place in the call; the    *)
(* last part charges a thread that passed the budget test for the buffer   *)
(* it has not counted yet, which is what makes the overshoot inductive.    *)
(***************************************************************************)

CallOwnsBuffer ==
  \A t \in Threads :
    pc[t] # "idle" => cur[t] \in Bufs /\ owner[cur[t]] = {t}

FlagMatchesStep ==
  \A t \in Threads :
    /\ pc[t] \in {"budget", "mlock", "count", "free"} => ~locked[cur[t]]
    /\ pc[t] \in {"munlock", "uncount"} => locked[cur[t]]

FreeIsUnlocked == \A b \in Bufs : owner[b] = {} => ~locked[b]

Structure == MemLockTypeOK /\ CallOwnsBuffer /\ FlagMatchesStep /\ FreeIsUnlocked

AdmittedCharged ==
  HasLimit => usage + N * Cardinality(Admitted)
                <= Threshold + N * Cardinality(Threads)

IInv ==
  /\ Structure
  /\ UsageExact
  /\ AdmittedCharged
  /\ WipedBeforeRelease
  /\ NoPinLeak

----------------------------------------------------------------------------
\* A set of buffers is finite, and its bytes fit a machine word.
LEMMA BytesBound ==
  ASSUME NEW S \in SUBSET Bufs
  PROVE  /\ IsFiniteSet(S)
         /\ Cardinality(S) \in Nat
         /\ N * Cardinality(S) \in Nat
         /\ N * Cardinality(S) < Word
  <1>1. IsFiniteSet(S) /\ Cardinality(S) <= Cardinality(Bufs)
    BY FS_Subset, MemLockAssumption
  <1>2. Cardinality(S) \in Nat /\ Cardinality(Bufs) \in Nat
    BY <1>1, FS_CardinalityType, MemLockAssumption
  <1>3. N * Cardinality(S) \in Nat /\ N * Cardinality(Bufs) \in Nat
    BY <1>2, TimesNat, MemLockAssumption
  <1>4. N * Cardinality(S) <= N * Cardinality(Bufs)
    BY <1>1, <1>2, TimesMonotone, MemLockAssumption
  <1> QED
    BY <1>1, <1>2, <1>3, <1>4, MemLockAssumption

\* Admitted threads are finitely many, at most all of them.
LEMMA AdmittedBound ==
  /\ IsFiniteSet(Admitted)
  /\ Cardinality(Admitted) \in Nat
  /\ Cardinality(Threads) \in Nat
  /\ Cardinality(Admitted) <= Cardinality(Threads)
  <1>1. Admitted \in SUBSET Threads
    BY DEF Admitted
  <1> QED
    BY <1>1, FS_Subset, FS_CardinalityType, MemLockAssumption

----------------------------------------------------------------------------
\* The machine word is not empty.
LEMMA WordPositive == Word \in Nat /\ Word > 0
  <1>1. Cardinality(Bufs) \in Nat
    BY FS_CardinalityType, MemLockAssumption
  <1> QED
    BY <1>1, TimesNat, MemLockAssumption

\* Each step of Locked::new, of the program and of Drop keeps the structure:
\* types, ownership of the buffer a call works on, and the field `locked`.
LEMMA StructureStep ==
  ASSUME Structure, [MemLockNext]_memLockVars
  PROVE  Structure'
  <1> USE MemLockAssumption DEF Structure, MemLockTypeOK, CallOwnsBuffer,
          FlagMatchesStep, FreeIsUnlocked, CallSteps, Goto
  <1>1. ASSUME NEW t \in Threads, NEW b \in Bufs, Alloc(t, b)
        PROVE  Structure'
    BY <1>1 DEF Alloc
  <1>2. ASSUME NEW t \in Threads, CheckBudget(t)
        PROVE  Structure'
    BY <1>2 DEF CheckBudget
  <1>3. ASSUME NEW t \in Threads, MlockOk(t)
        PROVE  Structure'
    BY <1>3 DEF MlockOk
  <1>4. ASSUME NEW t \in Threads, MlockFails(t)
        PROVE  Structure'
    BY <1>4 DEF MlockFails
  <1>5. ASSUME NEW t \in Threads, Count(t)
        PROVE  Structure'
    <2>1. (usage + N) % Word \in 0 .. Word - 1
      BY ModRange, WordPositive
    <2> QED
      BY <1>5, <2>1 DEF Count
  <1>6. ASSUME NEW t \in Threads, NEW b \in Bufs, Fill(t, b)
        PROVE  Structure'
    BY <1>6 DEF Fill, Owns
  <1>7. ASSUME NEW t \in Threads, NEW b \in Bufs, BeginDrop(t, b)
        PROVE  Structure'
    BY <1>7 DEF BeginDrop, Owns
  <1>8. ASSUME NEW t \in Threads, Zeroize(t) \/ PoisonPass(t) \/ Rezeroize(t)
        PROVE  Structure'
    BY <1>8 DEF Zeroize, PoisonPass, Rezeroize, WipePass
  <1>9. ASSUME NEW t \in Threads, Munlock(t)
        PROVE  Structure'
    BY <1>9 DEF Munlock
  <1>10. ASSUME NEW t \in Threads, Uncount(t)
         PROVE  Structure'
    <2>1. (usage - N) % Word \in 0 .. Word - 1
      BY ModRange, WordPositive
    <2> QED
      BY <1>10, <2>1 DEF Uncount
  <1>11. ASSUME NEW t \in Threads, Free(t)
         PROVE  Structure'
    BY <1>11 DEF Free
  <1>12. CASE UNCHANGED memLockVars
    BY <1>12 DEF memLockVars
  <1> QED
    BY <1>1, <1>2, <1>3, <1>4, <1>5, <1>6, <1>7, <1>8, <1>9, <1>10, <1>11,
       <1>12 DEF MemLockNext, Advance, Use

----------------------------------------------------------------------------
\* Only fetch_add and fetch_sub touch the counter, each together with the
\* field of the buffer it accounts for.
LEMMA UsageExactStep ==
  ASSUME Structure, Structure', UsageExact, [MemLockNext]_memLockVars
  PROVE  UsageExact'
  <1> USE MemLockAssumption DEF Structure, MemLockTypeOK
  <1>0. /\ IsFiniteSet(Counted) /\ Cardinality(Counted) \in Nat
        /\ usage = N * Cardinality(Counted)
        /\ N * Cardinality(Counted)' < Word
        /\ N * Cardinality(Counted)' \in Nat
        /\ usage \in Nat
    <2>1. Counted \in SUBSET Bufs /\ Counted' \in SUBSET Bufs
      BY DEF Counted
    <2> QED
      BY <2>1, BytesBound DEF UsageExact
  <1>1. ASSUME NEW t \in Threads, Count(t)
        PROVE  UsageExact'
    <2>1. /\ cur[t] \in Bufs /\ cur[t] \notin Counted
          /\ Counted' = Counted \cup {cur[t]}
      BY <1>1 DEF Count, Counted, CallOwnsBuffer, FlagMatchesStep
    <2>2. Cardinality(Counted)' = Cardinality(Counted) + 1
      <3>1. Cardinality(Counted \cup {cur[t]}) = Cardinality(Counted) + 1
        BY <1>0, <2>1, FS_AddElement
      <3> QED
        BY <2>1, <3>1
    <2>3. N * Cardinality(Counted)' = usage + N
      BY <1>0, <2>2, TimesSucc
    <2>4. (usage + N) % Word = usage + N
      BY <1>0, <2>3, ModSmall, usage + N \in Nat
    <2> QED
      BY <1>1, <2>3, <2>4 DEF Count, UsageExact
  <1>2. ASSUME NEW t \in Threads, Uncount(t)
        PROVE  UsageExact'
    <2>1. /\ cur[t] \in Counted
          /\ Counted' = Counted \ {cur[t]}
      BY <1>2 DEF Uncount, Counted, CallOwnsBuffer, FlagMatchesStep
    <2>2. /\ IsFiniteSet(Counted \ {cur[t]})
          /\ Cardinality(Counted \ {cur[t]}) = Cardinality(Counted) - 1
      BY <1>0, <2>1, FS_RemoveElement
    <2>3. /\ Cardinality(Counted)' \in Nat
          /\ Cardinality(Counted)' + 1 = Cardinality(Counted)
      BY <1>0, <2>1, <2>2, FS_CardinalityType
    <2>4. usage = N * Cardinality(Counted)' + N
      BY <1>0, <2>3, TimesSucc
    <2>5. (usage - N) % Word = N * Cardinality(Counted)'
      BY <1>0, <2>4, ModSmall
    <2> QED
      BY <1>2, <2>5 DEF Uncount, UsageExact
  <1>3. ASSUME UNCHANGED <<usage, locked>>
        PROVE  UsageExact'
    BY <1>3 DEF UsageExact, Counted
  <1>4. CASE UNCHANGED memLockVars
    BY <1>3, <1>4 DEF memLockVars
  <1> QED
    BY <1>1, <1>2, <1>3, <1>4 DEF MemLockNext, Advance, Use, Alloc, CheckBudget,
       MlockOk, MlockFails, Fill, BeginDrop, Zeroize, PoisonPass, Rezeroize,
       WipePass, Munlock, Free

\* fetch_sub lowers the counter: the buffer it accounts for was counted.
LEMMA CounterFalls ==
  ASSUME Structure, Structure', UsageExact, UsageExact', NEW t \in Threads, Uncount(t)
  PROVE  usage' <= usage
  <1> USE MemLockAssumption DEF Structure, MemLockTypeOK
  <1>1. Counted' \in SUBSET Counted
    BY DEF Uncount, Counted
  <1>2. /\ Cardinality(Counted) \in Nat /\ Cardinality(Counted') \in Nat
        /\ Cardinality(Counted') <= Cardinality(Counted)
    BY <1>1, BytesBound, FS_Subset, Counted \in SUBSET Bufs DEF Counted
  <1> QED
    BY <1>2, TimesMonotone DEF UsageExact

\* Passing the budget test charges one buffer per admitted thread; fetch_add
\* turns that charge into usage; everything else lowers the sum.
LEMMA AdmittedChargedStep ==
  ASSUME Structure, UsageExact, UsageExact', Structure', AdmittedCharged, [MemLockNext]_memLockVars
  PROVE  AdmittedCharged'
  <1> USE MemLockAssumption DEF Structure, MemLockTypeOK
  <1> SUFFICES ASSUME HasLimit
               PROVE  usage' + N * Cardinality(Admitted)'
                        <= Threshold + N * Cardinality(Threads)
    BY DEF AdmittedCharged, Threshold
  <1> DEFINE Bound == Threshold + N * Cardinality(Threads)
             k == Cardinality(Admitted)
  <1>0. /\ IsFiniteSet(Admitted) /\ k \in Nat /\ N * k \in Nat
        /\ Cardinality(Threads) \in Nat /\ N * Cardinality(Threads) \in Nat
        /\ Threshold \in Int /\ usage \in Nat /\ usage + N * k <= Bound
        /\ k' \in Nat /\ N * k' \in Nat /\ N * k' <= N * Cardinality(Threads)
    <2>1. k' \in Nat /\ k' <= Cardinality(Threads)
      BY AdmittedBound, FS_Subset, FS_CardinalityType, Admitted' \in SUBSET Threads
      DEF Admitted
    <2> QED
      BY <2>1, AdmittedBound, TimesNat, TimesMonotone, WordPositive
      DEF AdmittedCharged, Threshold
  <1>1. ASSUME NEW t \in Threads, CheckBudget(t)
        PROVE  usage' + N * k' <= Bound
    <2>1. CASE ApproachingLimit
      <3>1. Admitted' = Admitted
        BY <1>1, <2>1 DEF CheckBudget, Goto, Admitted
      <3> QED
        BY <1>0, <1>1, <3>1 DEF CheckBudget
    <2>2. CASE ~ApproachingLimit
      <3>1. usage <= Threshold /\ usage' = usage
        BY <1>0, <1>1, <2>2 DEF ApproachingLimit, CheckBudget
      <3> QED
        BY <1>0, <3>1
    <2> QED
      BY <2>1, <2>2
  <1>2. ASSUME NEW t \in Threads, Count(t)
        PROVE  usage' + N * k' <= Bound
    <2>1. t \in Admitted /\ Admitted' = Admitted \ {t}
      BY <1>2 DEF Count, Goto, Admitted
    <2>2. k' + 1 = k
      <3>1. Cardinality(Admitted \ {t}) = k - 1
        BY <1>0, <2>1, FS_RemoveElement
      <3> QED
        BY <1>0, <2>1, <3>1
    <2>3. N * k = N * k' + N
      BY <1>0, <2>2, TimesSucc
    <2>4. usage' <= usage + N
      BY <1>0, <1>2, ModShrinks, WordPositive DEF Count
    <2> QED
      BY <1>0, <2>3, <2>4, WordPositive
  <1>3. ASSUME NEW t \in Threads, MlockFails(t)
        PROVE  usage' + N * k' <= Bound
    <2>1. t \in Admitted /\ Admitted' = Admitted \ {t} /\ usage' = usage
      BY <1>3 DEF MlockFails, Goto, Admitted
    <2>2. k' + 1 = k
      <3>1. Cardinality(Admitted \ {t}) = k - 1
        BY <1>0, <2>1, FS_RemoveElement
      <3> QED
        BY <1>0, <2>1, <3>1
    <2>3. N * k = N * k' + N
      BY <1>0, <2>2, TimesSucc
    <2> QED
      BY <1>0, <2>1, <2>3
  <1>4. ASSUME NEW t \in Threads, Uncount(t)
        PROVE  usage' + N * k' <= Bound
    <2>1. Admitted' = Admitted
      BY <1>4 DEF Uncount, Goto, Admitted
    <2>2. usage' <= usage
      BY <1>4, CounterFalls
    <2> QED
      BY <1>0, <2>1, <2>2, WordPositive
  <1>5. ASSUME usage' = usage, Admitted' = Admitted
        PROVE  usage' + N * k' <= Bound
    BY <1>0, <1>5
  <1>6. ASSUME NEW t \in Threads, NEW b \in Bufs,
               Alloc(t, b) \/ Fill(t, b) \/ BeginDrop(t, b)
        PROVE  usage' = usage /\ Admitted' = Admitted
    BY <1>6 DEF Alloc, Fill, BeginDrop, Goto, Admitted
  <1>7. ASSUME NEW t \in Threads,
               \/ MlockOk(t) \/ Zeroize(t) \/ PoisonPass(t) \/ Rezeroize(t)
               \/ Munlock(t) \/ Free(t)
        PROVE  usage' = usage /\ Admitted' = Admitted
    BY <1>7 DEF MlockOk, Zeroize, PoisonPass, Rezeroize, WipePass, Munlock, Free,
                Goto, Admitted
  <1>8. CASE UNCHANGED memLockVars
    BY <1>5, <1>8 DEF memLockVars, Admitted
  <1> QED
    BY <1>1, <1>2, <1>3, <1>4, <1>5, <1>6, <1>7, <1>8 DEF MemLockNext, Advance, Use

----------------------------------------------------------------------------
\* The three passes of Drop leave zeros before munlock and before the address
\* is free; only its owner writes a buffer, and a thread inside Drop does not.
LEMMA WipedStep ==
  ASSUME Structure, WipedBeforeRelease, [MemLockNext]_memLockVars
  PROVE  WipedBeforeRelease'
  <1> USE MemLockAssumption DEF Structure, MemLockTypeOK, CallOwnsBuffer,
          WipedBeforeRelease, Goto
  <1>1. ASSUME NEW t \in Threads, NEW b \in Bufs,
               Alloc(t, b) \/ Fill(t, b) \/ BeginDrop(t, b)
        PROVE  WipedBeforeRelease'
    BY <1>1 DEF Alloc, Fill, BeginDrop, Owns
  <1>2. ASSUME NEW t \in Threads,
               CheckBudget(t) \/ MlockOk(t) \/ MlockFails(t) \/ Count(t)
        PROVE  WipedBeforeRelease'
    BY <1>2 DEF CheckBudget, MlockOk, MlockFails, Count
  <1>3. ASSUME NEW t \in Threads, Zeroize(t) \/ PoisonPass(t) \/ Rezeroize(t)
        PROVE  WipedBeforeRelease'
    BY <1>3 DEF Zeroize, PoisonPass, Rezeroize, WipePass
  <1>4. ASSUME NEW t \in Threads, Munlock(t) \/ Uncount(t) \/ Free(t)
        PROVE  WipedBeforeRelease'
    BY <1>4 DEF Munlock, Uncount, Free
  <1>5. CASE UNCHANGED memLockVars
    BY <1>5 DEF memLockVars
  <1> QED
    BY <1>1, <1>2, <1>3, <1>4, <1>5 DEF MemLockNext, Advance, Use

\* A page enters the kernel's table with the buffer that will take it out;
\* the only step that ends a buffer's responsibility is its munlock, and that
\* step takes the page out.
LEMMA NoPinLeakStep ==
  ASSUME Structure, NoPinLeak, [MemLockNext]_memLockVars
  PROVE  NoPinLeak'
  <1> USE MemLockAssumption DEF Structure, MemLockTypeOK, CallOwnsBuffer,
          FlagMatchesStep, FreeIsUnlocked, Goto, WillMunlock
  <1>0. ASSUME pinned' \subseteq pinned,
               \A b \in Bufs : WillMunlock(b) /\ PageOf[b] \in pinned' => WillMunlock(b)'
        PROVE  NoPinLeak'
    BY <1>0 DEF NoPinLeak
  <1>1. ASSUME NEW t \in Threads, NEW b \in Bufs,
               Alloc(t, b) \/ Fill(t, b) \/ BeginDrop(t, b)
        PROVE  NoPinLeak'
    BY <1>0, <1>1 DEF Alloc, Fill, BeginDrop, Owns
  <1>2. ASSUME NEW t \in Threads, CheckBudget(t) \/ MlockFails(t) \/ Count(t)
        PROVE  NoPinLeak'
    BY <1>0, <1>2 DEF CheckBudget, MlockFails, Count
  <1>3. ASSUME NEW t \in Threads, MlockOk(t)
        PROVE  NoPinLeak'
    <2>1. WillMunlock(cur[t])' /\ cur[t] \in Bufs
      BY <1>3 DEF MlockOk
    <2>2. \A b \in Bufs : WillMunlock(b) => WillMunlock(b)'
      BY <1>3 DEF MlockOk
    <2> QED
      BY <1>3, <2>1, <2>2 DEF MlockOk, NoPinLeak
  <1>4. ASSUME NEW t \in Threads, Zeroize(t) \/ PoisonPass(t) \/ Rezeroize(t)
        PROVE  NoPinLeak'
    BY <1>0, <1>4 DEF Zeroize, PoisonPass, Rezeroize, WipePass
  <1>5. ASSUME NEW t \in Threads, Munlock(t)
        PROVE  NoPinLeak'
    BY <1>0, <1>5 DEF Munlock
  <1>6. ASSUME NEW t \in Threads, Uncount(t) \/ Free(t)
        PROVE  NoPinLeak'
    BY <1>0, <1>6 DEF Uncount, Free
  <1>7. CASE UNCHANGED memLockVars
    BY <1>0, <1>7 DEF memLockVars
  <1> QED
    BY <1>1, <1>2, <1>3, <1>4, <1>5, <1>6, <1>7 DEF MemLockNext, Advance, Use

----------------------------------------------------------------------------
\* The inductive invariant holds in every reachable state.
THEOREM Invariance == MemLockSpec => []IInv
  <1>1. MemLockInit => IInv
    <2> SUFFICES ASSUME MemLockInit PROVE IInv
      OBVIOUS
    <2> USE MemLockAssumption DEF MemLockInit
    <2>1. Structure
      BY WordPositive DEF Structure, MemLockTypeOK, CallOwnsBuffer, FlagMatchesStep,
         FreeIsUnlocked, CallSteps
    <2>2. UsageExact
      <3>1. Counted = {} /\ Cardinality(Counted) = 0
        BY FS_EmptySet DEF Counted
      <3> QED
        BY <3>1 DEF UsageExact
    <2>3. AdmittedCharged
      <3>1. Admitted = {} /\ Cardinality(Admitted) = 0
        BY FS_EmptySet DEF Admitted
      <3>2. Threshold >= 0 /\ Threshold \in Int
        BY DEF Threshold
      <3>3. N * Cardinality(Threads) \in Nat
        BY TimesNat, AdmittedBound
      <3> QED
        BY <3>1, <3>2, <3>3 DEF AdmittedCharged
    <2>4. WipedBeforeRelease /\ NoPinLeak
      BY DEF WipedBeforeRelease, NoPinLeak
    <2> QED
      BY <2>1, <2>2, <2>3, <2>4 DEF IInv
  <1>2. IInv /\ [MemLockNext]_memLockVars => IInv'
    BY StructureStep, UsageExactStep, AdmittedChargedStep, WipedStep,
       NoPinLeakStep DEF IInv
  <1> QED
    BY <1>1, <1>2, PTL DEF MemLockSpec

\* Every variable keeps its type; the counter stays inside a machine word.
THEOREM TypeCorrect == MemLockSpec => []MemLockTypeOK
  <1>1. IInv => MemLockTypeOK
    BY DEF IInv, Structure
  <1> QED
    BY <1>1, Invariance, PTL

\* LOCKED_MEMORY_USAGE is exact: fetch_add and fetch_sub of any number of
\* threads never lose an update and never wrap.
THEOREM UsageIsExact == MemLockSpec => []UsageExact
  <1>1. IInv => UsageExact
    BY DEF IInv
  <1> QED
    BY <1>1, Invariance, PTL

\* The check-then-act race in Locked::new overshoots the 80% threshold by at
\* most one buffer per thread.
THEOREM OvershootIsBounded == MemLockSpec => []OvershootBounded
  <1>1. IInv => OvershootBounded
    <2> SUFFICES ASSUME IInv, HasLimit
                 PROVE  usage <= Threshold + N * Cardinality(Threads)
      BY DEF OvershootBounded
    <2>1. N * Cardinality(Admitted) \in Nat
      BY TimesNat, AdmittedBound, MemLockAssumption
    <2>2. N * Cardinality(Threads) \in Nat
      BY TimesNat, AdmittedBound, MemLockAssumption
    <2>3. usage \in Int /\ Threshold \in Int
      BY MemLockAssumption DEF IInv, Structure, MemLockTypeOK, Threshold
    <2> QED
      BY <2>1, <2>2, <2>3 DEF IInv, AdmittedCharged
  <1> QED
    BY <1>1, Invariance, PTL

\* Drop never hands an unwiped buffer to munlock or to the allocator.
THEOREM WipedBeforeReleased == MemLockSpec => []WipedBeforeRelease
  <1>1. IInv => WipedBeforeRelease
    BY DEF IInv
  <1> QED
    BY <1>1, Invariance, PTL

\* Locked::new and Drop leave no page locked that no buffer will unlock.
THEOREM PinsAreNotLeaked == MemLockSpec => []NoPinLeak
  <1>1. IInv => NoPinLeak
    BY DEF IInv
  <1> QED
    BY <1>1, Invariance, PTL

----------------------------------------------------------------------------
(***************************************************************************)
(* The documented invariant of Locked, for the buffers of which the code   *)
(* can keep it: those that share their page with no other.                 *)
(***************************************************************************)
ResponsibleIsPinned ==
  \A b \in Bufs : Alone(b) /\ WillMunlock(b) => PageOf[b] \in pinned

\* The page of a buffer that is alone on it leaves the kernel's table only in the
\* munlock of that buffer.
LEMMA ResponsibleIsPinnedStep ==
  ASSUME Structure, ResponsibleIsPinned, [MemLockNext]_memLockVars
  PROVE  ResponsibleIsPinned'
  <1> USE MemLockAssumption DEF Structure, MemLockTypeOK, CallOwnsBuffer,
          FlagMatchesStep, FreeIsUnlocked, ResponsibleIsPinned, Goto, WillMunlock
  <1>1. ASSUME NEW t \in Threads, NEW b \in Bufs,
               Alloc(t, b) \/ Fill(t, b) \/ BeginDrop(t, b)
        PROVE  ResponsibleIsPinned'
    BY <1>1 DEF Alloc, Fill, BeginDrop, Owns
  <1>2. ASSUME NEW t \in Threads,
               CheckBudget(t) \/ MlockOk(t) \/ MlockFails(t) \/ Count(t)
        PROVE  ResponsibleIsPinned'
    BY <1>2 DEF CheckBudget, MlockOk, MlockFails, Count
  <1>3. ASSUME NEW t \in Threads, Zeroize(t) \/ PoisonPass(t) \/ Rezeroize(t)
        PROVE  ResponsibleIsPinned'
    BY <1>3 DEF Zeroize, PoisonPass, Rezeroize, WipePass
  <1>4. ASSUME NEW t \in Threads, Munlock(t)
        PROVE  ResponsibleIsPinned'
    <2>1. ~WillMunlock(cur[t])'
      BY <1>4 DEF Munlock
    <2>2. \A b \in Bufs : WillMunlock(b)' => WillMunlock(b) /\ b # cur[t]
      BY <1>4, <2>1 DEF Munlock
    <2>3. cur[t] \in Bufs /\ pinned' = pinned \ {PageOf[cur[t]]}
      BY <1>4 DEF Munlock
    <2>4. \A b \in Bufs : Alone(b) /\ b # cur[t] => PageOf[b] # PageOf[cur[t]]
      BY <2>3 DEF Alone
    <2> QED
      BY <2>2, <2>3, <2>4
  <1>5. ASSUME NEW t \in Threads, Uncount(t) \/ Free(t)
        PROVE  ResponsibleIsPinned'
    BY <1>5 DEF Uncount, Free
  <1>6. CASE UNCHANGED memLockVars
    BY <1>6 DEF memLockVars
  <1> QED
    BY <1>1, <1>2, <1>3, <1>4, <1>5, <1>6 DEF MemLockNext, Advance, Use

\* For a buffer alone on its page `locked` means what its documentation says: the
\* page is mlock'd until the buffer's own Drop unlocks it.
THEOREM PinnedWhenAlone == MemLockSpec => []AloneIsPinned
  <1>1. MemLockInit => ResponsibleIsPinned
    BY MemLockAssumption DEF MemLockInit, ResponsibleIsPinned, WillMunlock
  <1>2. IInv /\ ResponsibleIsPinned /\ [MemLockNext]_memLockVars => ResponsibleIsPinned'
    BY ResponsibleIsPinnedStep DEF IInv
  <1>3. ResponsibleIsPinned => AloneIsPinned
    BY DEF ResponsibleIsPinned, AloneIsPinned, Pinned
  <1> QED
    BY <1>1, <1>2, <1>3, Invariance, PTL DEF MemLockSpec

============================================================================
