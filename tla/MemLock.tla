------------------------------ MODULE MemLock ------------------------------
(***************************************************************************)
(* Layer 0 of veil7 (src/src/layers/l0_memlock.rs): the heap buffers       *)
(* `Locked<N>` that hold seeds, the process-wide atomic counter            *)
(* LOCKED_MEMORY_USAGE and the kernel's table of mlock'd pages.            *)
(*                                                                         *)
(* Threads create and drop buffers concurrently.  Every access to the      *)
(* counter and every system call is an atomic step of its own, so the      *)
(* steps of Locked::new and of Drop of different threads interleave.       *)
(* In production code every Locked is a Locked<SEED_LEN>, hence one N.     *)
(***************************************************************************)
EXTENDS Integers, FiniteSets

CONSTANTS
  Threads,    \* threads that run the engine
  Bufs,       \* heap addresses at which a Box<[u8; N]> can be placed
  Pages,      \* the kernel's pages
  PageOf,     \* the page each heap address lies on
  N,          \* bytes of one buffer (SEED_LEN)
  Limit,      \* RLIMIT_MEMLOCK in bytes
  HasLimit,   \* FALSE: getrlimit failed, get_mlock_limit() is None
  Word,       \* 2^w, the modulus of AtomicUsize arithmetic
  NoBuf       \* "no buffer"

ASSUME MemLockAssumption ==
  /\ IsFiniteSet(Threads) /\ IsFiniteSet(Bufs) /\ IsFiniteSet(Pages)
  /\ PageOf \in [Bufs -> Pages]
  /\ N \in Nat \ {0} /\ Limit \in Nat /\ HasLimit \in BOOLEAN
  /\ NoBuf \notin Bufs
  \* the buffers are disjoint pieces of one address space
  /\ Word \in Nat /\ N * Cardinality(Bufs) < Word

VARIABLES
  usage,      \* LOCKED_MEMORY_USAGE
  pinned,     \* pages the kernel keeps locked
  pc,         \* where each thread is inside Locked::new or Drop
  cur,        \* the buffer that call works on
  owner,      \* buf -> the threads that own it: one, or none when free
  locked,     \* the field Locked::locked of each buffer
  content     \* what the bytes of each buffer hold

memLockVars == <<usage, pinned, pc, cur, owner, locked, content>>

CallSteps == {"idle", "budget", "mlock", "count",
          "zeroize", "poison", "rezeroize", "munlock", "uncount", "free"}

MemLockTypeOK ==
  /\ usage \in 0 .. Word - 1
  /\ pinned \in SUBSET Pages
  /\ pc \in [Threads -> CallSteps]
  /\ cur \in [Threads -> Bufs \cup {NoBuf}]
  /\ owner \in [Bufs -> SUBSET Threads]
  /\ locked \in [Bufs -> BOOLEAN]
  /\ content \in [Bufs -> {"zero", "secret", "poison"}]

----------------------------------------------------------------------------
\* (limit as f64 * 0.8) as usize: the product rounded towards zero.
Threshold == (Limit * 8) \div 10

\* is_approaching_mlock_limit(): one load of the counter.
ApproachingLimit == HasLimit /\ usage > Threshold

Goto(t, step) == pc' = [pc EXCEPT ![t] = step]

Owns(t, b) == owner[b] = {t}

MemLockInit ==
  /\ usage = 0
  /\ pinned = {}
  /\ pc = [t \in Threads |-> "idle"]
  /\ cur = [t \in Threads |-> NoBuf]
  /\ owner = [b \in Bufs |-> {}]
  /\ locked = [b \in Bufs |-> FALSE]
  /\ content = [b \in Bufs |-> "zero"]

----------------------------------------------------------------------------
(* Locked::new                                                             *)

\* Box::new([0u8; N]) at any free address.
Alloc(t, b) ==
  /\ pc[t] = "idle" /\ owner[b] = {}
  /\ owner' = [owner EXCEPT ![b] = {t}]
  /\ content' = [content EXCEPT ![b] = "zero"]
  /\ cur' = [cur EXCEPT ![t] = b]
  /\ Goto(t, "budget")
  /\ UNCHANGED <<usage, pinned, locked>>

\* Mutant of CheckBudget: the early return is lost.
CheckBudgetIgnored(t) ==
  /\ pc[t] = "budget"
  /\ Goto(t, "mlock")
  /\ UNCHANGED <<usage, pinned, cur, owner, locked, content>>

\* The budget test: above 80% locking is skipped and new() returns.
CheckBudget(t) ==
  /\ pc[t] = "budget"
  /\ \/ /\ ApproachingLimit
        /\ Goto(t, "idle") /\ cur' = [cur EXCEPT ![t] = NoBuf]
     \/ /\ ~ApproachingLimit
        /\ Goto(t, "mlock") /\ UNCHANGED cur
  /\ UNCHANGED <<usage, pinned, owner, locked, content>>

\* libc::mlock(ptr, N) == 0
MlockOk(t) ==
  /\ pc[t] = "mlock"
  /\ pinned' = pinned \cup {PageOf[cur[t]]}
  /\ Goto(t, "count")
  /\ UNCHANGED <<usage, cur, owner, locked, content>>

\* Mutant of MlockFails: the result of mlock is not looked at.
MlockFailsUnnoticed(t) ==
  /\ pc[t] = "mlock"
  /\ Goto(t, "count")
  /\ UNCHANGED <<usage, pinned, cur, owner, locked, content>>

\* libc::mlock fails: the buffer is returned unlocked.  The kernel may refuse at
\* any time: its limit counts whole pages, and on Android it refuses always.
MlockFails(t) ==
  /\ pc[t] = "mlock"
  /\ Goto(t, "idle") /\ cur' = [cur EXCEPT ![t] = NoBuf]
  /\ UNCHANGED <<usage, pinned, owner, locked, content>>

\* LOCKED_MEMORY_USAGE.fetch_add(N), and new() returns with locked = true.
Count(t) ==
  /\ pc[t] = "count"
  /\ usage' = (usage + N) % Word
  /\ locked' = [locked EXCEPT ![cur[t]] = TRUE]
  /\ Goto(t, "idle") /\ cur' = [cur EXCEPT ![t] = NoBuf]
  /\ UNCHANGED <<pinned, owner, content>>

\* fill_from with N bytes, or the squeeze into as_mut_bytes().
Fill(t, b) ==
  /\ pc[t] = "idle" /\ Owns(t, b)
  /\ content' = [content EXCEPT ![b] = "secret"]
  /\ UNCHANGED <<usage, pinned, pc, cur, owner, locked>>

----------------------------------------------------------------------------
(* Drop for Locked                                                         *)

BeginDrop(t, b) ==
  /\ pc[t] = "idle" /\ Owns(t, b)
  /\ cur' = [cur EXCEPT ![t] = b]
  /\ Goto(t, "zeroize")
  /\ UNCHANGED <<usage, pinned, owner, locked, content>>

\* One pass of zeroize_and_poison over the bytes.
WipePass(t, from, value, to) ==
  /\ pc[t] = from
  /\ content' = [content EXCEPT ![cur[t]] = value]
  /\ Goto(t, to)
  /\ UNCHANGED <<usage, pinned, cur, owner, locked>>

Zeroize(t) == WipePass(t, "zeroize", "zero", "poison")

\* Mutant of PoisonPass: the pattern is left in the buffer.
PoisonLast(t) ==
  WipePass(t, "poison", "poison", IF locked[cur[t]] THEN "munlock" ELSE "free")

PoisonPass(t) == WipePass(t, "poison", "poison", "rezeroize")

\* Mutants of Rezeroize: Drop unlocks without looking at self.locked; it forgets
\* munlock; it forgets the whole unlocking branch.
RezeroizeUnguarded(t) == WipePass(t, "rezeroize", "zero", "munlock")
RezeroizeNoMunlock(t) ==
  WipePass(t, "rezeroize", "zero", IF locked[cur[t]] THEN "uncount" ELSE "free")
RezeroizeNoBranch(t) == WipePass(t, "rezeroize", "zero", "free")

\* The last pass; the unlocking branch is taken when self.locked holds.
Rezeroize(t) ==
  WipePass(t, "rezeroize", "zero", IF locked[cur[t]] THEN "munlock" ELSE "free")

\* munlock(2) does not nest: the page is unlocked whoever else uses it.
Munlock(t) ==
  /\ pc[t] = "munlock"
  /\ pinned' = pinned \ {PageOf[cur[t]]}
  /\ Goto(t, "uncount")
  /\ UNCHANGED <<usage, cur, owner, locked, content>>

\* LOCKED_MEMORY_USAGE.fetch_sub(N); the struct is dead from here on.
Uncount(t) ==
  /\ pc[t] = "uncount"
  /\ usage' = (usage - N) % Word
  /\ locked' = [locked EXCEPT ![cur[t]] = FALSE]
  /\ Goto(t, "free")
  /\ UNCHANGED <<pinned, cur, owner, content>>

\* The field `buf: Box` is dropped: the address returns to the allocator.
Free(t) ==
  /\ pc[t] = "free"
  /\ owner' = [owner EXCEPT ![cur[t]] = {}]
  /\ Goto(t, "idle") /\ cur' = [cur EXCEPT ![t] = NoBuf]
  /\ UNCHANGED <<usage, pinned, locked, content>>

----------------------------------------------------------------------------
\* The remaining steps of a call that has begun.
Advance(t) ==
  \/ CheckBudget(t) \/ MlockOk(t) \/ MlockFails(t) \/ Count(t)
  \/ Zeroize(t) \/ PoisonPass(t) \/ Rezeroize(t)
  \/ Munlock(t) \/ Uncount(t) \/ Free(t)

\* The program's own steps: it creates, fills and drops buffers.
Use(t) == \E b \in Bufs : Alloc(t, b) \/ Fill(t, b) \/ BeginDrop(t, b)

MemLockNext == \E t \in Threads : Advance(t) \/ Use(t)

MemLockSpec == MemLockInit /\ [][MemLockNext]_memLockVars

\* The scheduler runs every thread that is inside a call, and every value goes
\* out of scope: a thread that owns a buffer keeps getting to its Drop.
Fairness ==
  \A t \in Threads :
    WF_memLockVars(Advance(t)) /\ \A b \in Bufs : SF_memLockVars(BeginDrop(t, b))

FairSpec == MemLockSpec /\ Fairness

----------------------------------------------------------------------------
(* Properties                                                              *)

Counted == {b \in Bufs : locked[b]}

\* Threads that have passed the budget test and not yet reached fetch_add.
Admitted == {t \in Threads : pc[t] \in {"mlock", "count"}}

\* The counter equals N bytes per buffer whose `locked` is true, through every
\* interleaving of fetch_add and fetch_sub; in particular it never wraps below
\* zero, which would disable locking for the rest of the process.
UsageExact == usage = N * Cardinality(Counted)

\* The budget test is a load followed, two system steps later, by fetch_add.
\* Threads that race past it overshoot the 80% threshold, but by no more than
\* one buffer per thread.
OvershootBounded ==
  HasLimit => usage <= Threshold + N * Cardinality(Threads)

\* No kernel budget is leaked: a page stays locked only on behalf of a buffer
\* that will still munlock it in its Drop.
WillMunlock(b) ==
  \/ locked[b] /\ \A t \in owner[b] : cur[t] = b => pc[t] # "uncount"
  \/ \E t \in owner[b] : cur[t] = b /\ pc[t] = "count"
NoPinLeak == \A p \in pinned : \E b \in Bufs : PageOf[b] = p /\ WillMunlock(b)

\* Drop clears the bytes first: from munlock on, and in every free block the
\* allocator can hand to somebody else, the buffer holds zeros, whatever other
\* threads do to the same page meanwhile.
WipedBeforeRelease ==
  /\ \A b \in Bufs : owner[b] = {} => content[b] = "zero"
  /\ \A t \in Threads :
       pc[t] \in {"munlock", "uncount", "free"} => content[cur[t]] = "zero"

\* The documented invariant of Locked (l0_memlock.rs:449): "If `locked` is true,
\* the page range is currently `mlock`'d", up to the munlock of its own Drop.
Pinned(b) == locked[b] /\ WillMunlock(b) => PageOf[b] \in pinned

\* It holds for a buffer that shares its page with no other, whatever the other
\* buffers do; the Drop of a buffer on the same page breaks it.
Alone(b) == \A c \in Bufs : PageOf[c] = PageOf[b] => c = b
AloneIsPinned == \A b \in Bufs : Alone(b) => Pinned(b)

\* Every locked buffer is eventually released and its bytes given back to the
\* budget, so the counter cannot stay above the threshold for ever.
EventuallyReleased == \A b \in Bufs : []<>~locked[b]
=============================================================================
