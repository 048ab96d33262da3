------------------------------ MODULE PageReset -----------------------------
(***************************************************************************)
(* What physical pages hold (kernel/memory/pmm.c): pmm_alloc hands out     *)
(* zeroed pages, a background thread clears free pages ahead of time, and  *)
(* a page's cookie says whether it has.  A debug build fills free pages    *)
(* with a pattern instead, and checks for it.  The allocator itself, which *)
(* Pmm models, is reduced to the set of free pages.                        *)
(***************************************************************************)
EXTENDS Integers, FiniteSets

CONSTANTS
    Pages,      \* 0..n, aligned blocks of which are handed out
    Procs,
    Counts      \* numbers of pages that are asked for

VARIABLES
    release,    \* the build has KERNEL_RELEASE
    prompt,     \* the reset thread is through with a block before it is taken
    free,       \* pages of free blocks
    cookie,     \* block_descriptor->cookie is COOKIE_PAGE_CLEAN or _DIRTY
    content,    \* "zero", "pattern" (PMM_DEBUG_VALUE) or an owner's "data"
    proc,       \* every caller's block and how far it is
    reset       \* pages the reset thread has found in a free block, not done yet

vars == <<release, prompt, free, cookie, content, proc, reset>>

Idle == [pc |-> "idle", block |-> {}, count |-> 0]

Init ==
    /\ release \in BOOLEAN /\ prompt \in BOOLEAN
    /\ free = Pages /\ reset = {}
    /\ cookie = [a \in Pages |-> "dirty"]
    /\ content = [a \in Pages |-> IF release THEN "data" ELSE "pattern"]
    /\ proc = [p \in Procs |-> Idle]

Sizes == {1, 2, 4}
Rounded(count) == CHOOSE n \in Sizes : n >= count /\ \A m \in Sizes : m >= count => n <= m
FreeBlocks(n) == {B \in SUBSET free : \E a \in B : a % n = 0 /\ B = a..a + n - 1}

Fill(S, value) == content' = [a \in Pages |-> IF a \in S THEN value ELSE content[a]]
Step(p, pc) == proc' = [proc EXCEPT ![p].pc = pc]

(* pmm_alloc takes a block (up to line 374) ...                            *)
Take(p) ==
    /\ proc[p].pc = "idle"
    /\ \E n \in Counts : \E B \in FreeBlocks(Rounded(n)) :
          /\ free' = free \ B
          /\ proc' = [proc EXCEPT ![p] = [pc |-> "check", block |-> B, count |-> n]]
    /\ UNCHANGED <<release, prompt, cookie, content, reset>>

(* ... a debug build looks for the pattern (lines 376-394) ...             *)
Check(p) ==
    /\ proc[p].pc = "check"
    /\ Step(p, IF ~release /\ \E a \in proc[p].block : content[a] # "pattern"
               THEN "panic" ELSE "clear")
    /\ UNCHANGED <<release, prompt, free, cookie, content, reset>>

(* ... and the pages are zeroed, a clean one only in a debug build         *)
(* (lines 395-423); the cookie stays as it is.                             *)
Clear(p) ==
    /\ proc[p].pc = "clear" /\ Step(p, "new")
    /\ Fill({a \in proc[p].block : ~release \/ cookie[a] = "dirty"}, "zero")
    /\ UNCHANGED <<release, prompt, free, cookie, reset>>

(* The owner's use of the pages that it asked for *)
FirstPages(B, n) == {a \in B : Cardinality({b \in B : b < a}) < n}

Write(p) ==
    /\ proc[p].pc = "new" /\ Step(p, "used")
    /\ Fill(FirstPages(proc[p].block, proc[p].count), "data")
    /\ UNCHANGED <<release, prompt, free, cookie, reset>>

(* Faulty variant: the cookies stay as they are.                           *)
DeallocKeepingCookies(p) ==
    /\ proc[p].pc = "used"
    /\ Fill(IF release THEN {} ELSE FirstPages(proc[p].block, proc[p].count), "pattern")
    /\ free' = free \union proc[p].block
    /\ proc' = [proc EXCEPT ![p] = Idle]
    /\ UNCHANGED <<release, prompt, cookie, reset>>

(* pmm_dealloc: the pattern goes into the pages that were asked for, the   *)
(* cookies of the whole block are reset, and the block is free again.      *)
Dealloc(p) ==
    /\ proc[p].pc = "used"
    /\ Fill(IF release THEN {} ELSE FirstPages(proc[p].block, proc[p].count), "pattern")
    /\ cookie' = [a \in Pages |-> IF a \in proc[p].block THEN "dirty" ELSE cookie[a]]
    /\ free' = free \union proc[p].block
    /\ proc' = [proc EXCEPT ![p] = Idle]
    /\ UNCHANGED <<release, prompt, reset>>

(* _background_memory_reset_thread: a block whose descriptor shows it free *)
(* (line 165, no lock), and then its dirty pages one by one.               *)
ClearFree(S) ==
    /\ Fill({a \in S : cookie[a] = "dirty"}, IF release THEN "zero" ELSE "pattern")
    /\ cookie' = [a \in Pages |-> IF a \in S THEN "clean" ELSE cookie[a]]

ResetLook ==
    /\ reset = {}
    /\ \E n \in Sizes : \E B \in FreeBlocks(n) :
          IF prompt THEN ClearFree(B) /\ UNCHANGED reset
          ELSE reset' = B /\ UNCHANGED <<content, cookie>>
    /\ UNCHANGED <<release, prompt, free, proc>>

ResetPage ==
    /\ \E a \in reset : /\ \A b \in reset : a <= b
                        /\ ClearFree({a}) /\ reset' = reset \ {a}
    /\ UNCHANGED <<release, prompt, free, proc>>

Next ==
    \/ \E p \in Procs : Take(p) \/ Check(p) \/ Clear(p) \/ Write(p) \/ Dealloc(p)
    \/ ResetLook \/ ResetPage

Spec == Init /\ [][Next]_vars

-----------------------------------------------------------------------------
(* As long as the reset thread is not held up between its look at a block  *)
(* and its stores, pmm_alloc returns zeroed pages, whatever earlier owners *)
(* left in them, and no owner's data is overwritten; a release build       *)
(* returns zeroed pages even when it is held up.                           *)
PagesAreRight ==
    \A p \in Procs : \A a \in FirstPages(proc[p].block, proc[p].count) :
        /\ proc[p].pc = "new" /\ (prompt \/ release) => content[a] = "zero"
        /\ proc[p].pc = "used" /\ prompt => content[a] = "data"

(* Nobody writes to a free page here, so the debug build's check, which    *)
(* reports "pmm_alloc: use after free", never fires, if callers ask for    *)
(* whole blocks.  (pmm_dealloc fills only the pages that were asked for,   *)
(* pmm_alloc checks those of the whole block.)                             *)
NoUseAfterFree == \A p \in Procs : proc[p].pc # "panic"
=============================================================================
