------------------------------- MODULE MemAlloc -------------------------------
(***************************************************************************)
(* The user-level heap allocator of NonOS (test/mem_alloc.c, declared in   *)
(* userprog/mem_alloc.h): mem_init takes pages with Sbrk and makes them    *)
(* one free block; mem_alloc is first fit over an explicit, doubly linked  *)
(* free list and splits the block it takes; mem_free finds the previous    *)
(* free block by walking the footers backwards and merges with it and     *)
(* with the next free block.                                               *)
(*                                                                         *)
(* The heap is modelled word by word, as the MIPS program sees it: a       *)
(* block is a header word (bit 31 the used flag, the low bits the payload  *)
(* size in bytes), the payload, and a footer word equal to the header; a   *)
(* free block keeps its prev and next pointers in its first two payload   *)
(* words.  A word is an Int holding the uint32 as two's complement, so the *)
(* used flag is the sign.  Every read and write of the C code is a read or *)
(* a write of this function, in the code's order, so a pointer or a size   *)
(* that is stale or wrong is followed exactly as the program follows it.   *)
(*                                                                         *)
(* mem_alloc and mem_free hold sem_malloc for their whole body and do not  *)
(* sleep in it, so each call is one atomic step; the program's own writes  *)
(* to the memory it was given are steps of their own.                      *)
(***************************************************************************)
EXTENDS Integers, FiniteSets

CONSTANTS
    PageSize,    \* mem_alloc.h
    HeapStart,   \* the break Sbrk returns: the first byte of the heap
    InitSize,    \* the argument of the program's mem_init
    Sizes,       \* arguments the program passes to mem_alloc
    UserVals,    \* word values the program stores in memory it was given
    MaxCalls     \* bound on the calls of the program

HFS == 4                    \* HEADER_FOOTER_SIZE
NULL == 0
Flag == -(2^30) - 2^30      \* 1UL << 31 as a signed 32-bit word

\* divRoundUp of mem_alloc.h
DivRoundUp(n, s) == n \div s + (IF n % s > 0 THEN 1 ELSE 0)

NPages == DivRoundUp(InitSize + 2 * HFS, PageSize)
HeapBytes == PageSize * NPages
Words == {HeapStart + 4 * i : i \in 0 .. HeapBytes \div 4 - 1}

ASSUME HeapStart > 0 /\ HeapStart % PageSize = 0
ASSUME \A s \in Sizes : s >= 0 /\ s % 4 = 0

VARIABLES
    heap,       \* heap[a]: the word at byte address a of the Sbrk pages
    start,      \* mem.start_addr
    firstFree,  \* mem.first_free
    inited,     \* mem_init has run
    live,       \* blocks the program holds: [p |-> pointer, n |-> size asked]
    calls,      \* calls made by the program
    fault       \* "none", or how the program went wrong inside the allocator

vars == <<heap, start, firstFree, inited, live, calls, fault>>

-----------------------------------------------------------------------------
(* The header and footer word helpers, lines 5-45.                         *)

is_block_used(w) == w < 0
get_block_size(w) == IF w < 0 THEN w - Flag ELSE w
\* set_block_size keeps the flag of the word it writes
set_block_size(w, s) == IF w < 0 THEN s + Flag ELSE s
set_block_used(w) == IF w < 0 THEN w ELSE w + Flag
set_block_free(w) == get_block_size(w)
get_full_block_size(w) == get_block_size(w) + 2 * HFS

\* A read or write of a word outside the heap, or not word aligned, is an
\* access the program never meant; the step that makes it faults.
In(a) == a \in Words
Rd(h, a) == IF In(a) THEN h[a] ELSE 0
Wr(h, a, v) == IF In(a) THEN [h EXCEPT ![a] = v] ELSE h

\* get_footer: the footer address as computed from the header in h
get_footer(h, b) == b + get_full_block_size(Rd(h, b)) - HFS

\* merge_block(block, next_block): the new header, then the footer it
\* designates.  It returns the memory and the footer address it wrote.
merge_block(h, b, nb) ==
    LET s  == get_block_size(Rd(h, b)) + get_block_size(Rd(h, nb)) + 2 * HFS
        h1 == Wr(h, b, set_block_size(Rd(h, b), s))
        f  == get_footer(h1, b)
    IN  [mem |-> Wr(h1, f, set_block_size(Rd(h1, f), s)), touched |-> {b, nb, f}]

\* The loop of mem_alloc (lines 80-83): the first block of the free list
\* from c whose size is at least n.  k bounds a list that has become a
\* cycle, on which the program would spin forever.
RECURSIVE FirstFit(_, _, _, _)
FirstFit(h, c, n, k) ==
    CASE c = NULL                       -> [r |-> "null"]
      [] k = 0                          -> [r |-> "loop"]
      [] ~In(c)                         -> [r |-> "wild"]
      [] get_block_size(h[c]) >= n      -> [r |-> "found", a |-> c]
      [] ~In(c + 8)                     -> [r |-> "wild"]
      [] OTHER                          -> FirstFit(h, h[c + 8], n, k - 1)

\* find_previous_free_block_footer (lines 157-167) from the word a: the
\* footer of the nearest free block below, or an address under start.
RECURSIVE PrevFreeFooter(_, _, _)
PrevFreeFooter(h, a, s) ==
    CASE a < s                          -> [r |-> "none", a |-> a]
      [] ~In(a)                         -> [r |-> "wild", a |-> a]
      [] ~is_block_used(h[a])           -> [r |-> "found", a |-> a]
      [] OTHER                          -> PrevFreeFooter(h, a - get_full_block_size(h[a]), s)

-----------------------------------------------------------------------------
Init ==
    /\ heap = [a \in Words |-> 0]
    /\ start = NULL
    /\ firstFree = NULL
    /\ inited = FALSE
    /\ live = {}
    /\ calls = 0
    /\ fault = "none"

\* mem_init (lines 47-73).  Sbrk returns 0 when the frame provider has too
\* few frames left, which depends on the other processes: both outcomes.
\* The fresh frames are zeroed by GetEmptyFrame.
mem_init ==
    /\ ~inited
    /\ inited' = TRUE
    /\ \/ /\ start' = HeapStart
          /\ firstFree' = HeapStart
          /\ LET sz == HeapBytes - 2 * HFS
             IN  heap' = [heap EXCEPT ![HeapStart] = sz,
                                      ![HeapStart + 4] = NULL,
                                      ![HeapStart + 8] = NULL,
                                      ![HeapStart + HeapBytes - HFS] = sz]
       \/ /\ start' = NULL
          /\ firstFree' = NULL
          /\ UNCHANGED heap
    /\ UNCHANGED <<live, calls, fault>>

\* The body of mem_alloc after the search has found block cur (lines
\* 89-151): the memory and first_free it leaves, and the words it touched.
AllocAt(h, cur, size) ==
    LET full  == get_full_block_size(h[cur])
        split == full - size - 2 * HFS
        prev  == Rd(h, cur + 4)
        next  == Rd(h, cur + 8)
        keep  == split <= 2 * HFS          \* no split: cur is taken whole
        asz   == IF keep THEN size + split ELSE size
        h1    == Wr(h, cur, set_block_size(set_block_used(h[cur]), asz))
        fc    == get_footer(h1, cur)
        h2    == Wr(h1, fc, set_block_size(set_block_used(Rd(h1, fc)), asz))
        sb    == cur + asz + 2 * HFS       \* splitted_block
        h3    == Wr(h2, sb, set_block_size(set_block_free(Rd(h2, sb)), split - 2 * HFS))
        fs    == get_footer(h3, sb)
        h4    == Wr(h3, fs, set_block_size(set_block_free(Rd(h3, fs)), split - 2 * HFS))
        h5    == Wr(h4, sb + 4, Rd(h4, cur + 4))
        h6    == Wr(h5, sb + 8, Rd(h5, cur + 8))
        hA    == IF keep THEN h2 ELSE h6
        link  == IF keep THEN next ELSE sb \* what replaces cur in the list
        back  == IF keep THEN prev ELSE sb \* what next->prev becomes
        hB    == IF prev # NULL THEN Wr(hA, prev + 8, link) ELSE hA
        hC    == IF next # NULL THEN Wr(hB, next + 4, back) ELSE hB
    IN  [mem |-> hC,
         first |-> IF prev # NULL THEN firstFree ELSE link,
         touched |-> {cur + 4, cur + 8, fc}
                     \cup (IF keep THEN {} ELSE {sb, fs, sb + 4, sb + 8})
                     \cup (IF prev # NULL THEN {prev + 8} ELSE {})
                     \cup (IF next # NULL THEN {next + 4} ELSE {})]

\* Every step that touches a word outside the heap stops the model there.
Wild(touched) ==
    /\ \E a \in touched : ~In(a)
    /\ fault' = "wild"
    /\ UNCHANGED <<heap, start, firstFree, inited, live>>

\* mem_alloc(size) (lines 75-155).  A NULL result leaves everything as is.
mem_alloc(size) ==
    LET ff == FirstFit(heap, firstFree, size, Cardinality(Words))
    IN
    /\ inited /\ fault = "none" /\ calls < MaxCalls
    /\ calls' = calls + 1
    /\ CASE ff.r = "null"  -> UNCHANGED <<heap, start, firstFree, inited, live, fault>>
         [] ff.r = "loop"  -> fault' = "loop" /\ UNCHANGED <<heap, start, firstFree, inited, live>>
         [] ff.r = "wild"  -> fault' = "wild" /\ UNCHANGED <<heap, start, firstFree, inited, live>>
         [] OTHER ->
              LET r == AllocAt(heap, ff.a, size)
              IN  IF \A a \in r.touched : In(a)
                  THEN /\ heap' = r.mem
                       /\ firstFree' = r.first
                       /\ live' = live \cup {[p |-> ff.a + HFS, n |-> size]}
                       /\ UNCHANGED <<start, inited, fault>>
                  ELSE Wild(r.touched)

\* The body of mem_free(ptr) (lines 179-236): the memory, first_free and
\* the words touched.
FreeAt(h, ptr) ==
    LET fb  == ptr - HFS                                \* free_block
        ft  == get_footer(h, fb)                        \* free_block_footer
        h0  == Wr(h, fb, set_block_free(Rd(h, fb)))
        h1  == Wr(h0, ft, set_block_free(Rd(h0, ft)))
        pf  == PrevFreeFooter(h1, fb - HFS, start)
        \* the free block below, from its footer
        pb  == pf.a - get_full_block_size(Rd(h1, pf.a)) + HFS
        contig == pf.r = "found" /\ pf.a + HFS = fb
        mp  == merge_block(h1, pb, fb)
        \* after the search for the previous free block
        h2  == CASE pf.r = "none" -> Wr(h1, fb + 4, NULL)
                 [] contig        -> mp.mem
                 [] OTHER         -> Wr(Wr(h1, pb + 8, fb), fb + 4, pb)
        next == IF pf.r = "none" THEN firstFree ELSE Rd(h1, pb + 8)
        blk == IF contig THEN pb ELSE fb               \* free_block now
        mn  == merge_block(h2, blk, next)
        h3  == CASE next = NULL        -> h2
                 [] next - HFS = ft    -> Wr(mn.mem, blk + 8, Rd(mn.mem, next + 8))
                 [] OTHER              -> Wr(Wr(h2, next + 4, blk), blk + 8, next)
    IN  [wild |-> pf.r = "wild",
         mem |-> h3,
         first |-> IF pf.r = "none" THEN fb ELSE firstFree,
         touched |-> {fb, ft}
                     \cup (CASE pf.r = "none" -> {fb + 4}
                             [] contig        -> mp.touched \cup {pf.a, pb + 8}
                             [] OTHER         -> {pf.a, pb + 8, fb + 4})
                     \cup (CASE next = NULL     -> {}
                             [] next - HFS = ft -> mn.touched \cup {blk + 8, next + 8}
                             [] OTHER           -> {next + 4, blk + 8})]

\* mem_free(ptr) of a block the program holds.  The program never frees a
\* pointer twice or one it was not given.
mem_free(b) ==
    LET r == FreeAt(heap, b.p)
    IN
    /\ inited /\ fault = "none" /\ calls < MaxCalls
    /\ calls' = calls + 1
    /\ IF ~r.wild /\ \A a \in r.touched : In(a)
       THEN /\ heap' = r.mem
            /\ firstFree' = r.first
            /\ live' = live \ {b}
            /\ UNCHANGED <<start, inited, fault>>
       ELSE /\ fault' = "wild"
            /\ UNCHANGED <<heap, start, firstFree, inited, live>>

\* The program stores v in every word of a block it holds.
UserWrite(b, v) ==
    /\ fault = "none" /\ calls < MaxCalls
    /\ calls' = calls + 1
    /\ heap' = [a \in Words |-> IF a >= b.p /\ a < b.p + b.n THEN v ELSE heap[a]]
    /\ UNCHANGED <<start, firstFree, inited, live, fault>>

Next ==
    \/ mem_init
    \/ \E n \in Sizes : mem_alloc(n)
    \/ \E b \in live : mem_free(b)
    \/ \E b \in live, v \in UserVals : UserWrite(b, v)

Spec == Init /\ [][Next]_vars

-----------------------------------------------------------------------------
(* Properties                                                              *)

TypeOK ==
    /\ heap \in [Words -> Int]
    /\ start \in {NULL, HeapStart}
    /\ firstFree \in Int
    /\ inited \in BOOLEAN
    /\ live \subseteq [p : Words, n : Sizes]
    /\ calls \in 0 .. MaxCalls
    /\ fault \in {"none", "wild", "loop"}

\* mem_alloc and mem_free never follow a pointer or a size out of the heap,
\* and the first-fit loop never runs round a cycle of the free list.
NoFault == fault = "none"

\* No two blocks the program holds at once share a byte, and each lies in
\* the heap: mem_alloc never hands out memory it has handed out before.
NoOverlap ==
    \A b, c \in live :
        /\ b.p - HFS \in Words /\ b.p + b.n <= HeapStart + HeapBytes
        /\ (b # c => b.p + b.n <= c.p \/ c.p + c.n <= b.p)
====
