------------------------------ MODULE DmaPool ------------------------------
(***************************************************************************)
(* The allocator of a component's DMA memory (libsel4camkes/src/dma.c): a  *)
(* list of free regions whose nodes lie in the regions themselves.  A      *)
(* region must be contiguous in physical memory too, so two that touch     *)
(* are joined, by defrag, only if they do so there as well.                *)
(*                                                                         *)
(* Addresses and sizes are in units of alignof(region_t).  Pointers are    *)
(* followed as in the code, through whatever a node no longer in the list  *)
(* still holds.                                                            *)
(***************************************************************************)
EXTENDS Integers, Sequences, FiniteSets, FiniteSetsExt, Functions

CONSTANTS
    Meta,        \* sizeof(region_t)
    PageSize,
    Frames,      \* the physical frame behind each page of the pool, in order
    Sizes, Aligns,   \* what is asked for
    MaxLive,     \* allocations at a time; bounds the state space
    Asserts      \* assert() is compiled in

ASSUME DmaAssumption ==
    /\ Meta \in Nat \ {0} /\ PageSize \in Nat /\ PageSize > Meta
    /\ Frames \in Seq(Nat \ {0})
    /\ Sizes \subseteq Nat \ {0} /\ Aligns \subseteq Nat \ {0}
    /\ Asserts \in BOOLEAN

VARIABLES
    head,         \* the first free region, NULL if none
    node,         \* the region_t at each address
    live,         \* history: what is allocated, as <<address, size>>
    ready,        \* camkes_dma_init has returned 0
    refused       \* the request that was refused last, if the last one was

vars == <<head, node, live, ready, refused>>

NULL == 0
Base == PageSize
End == Base + PageSize * Len(Frames)
Addresses == Base .. End - 1
Blank == [size |-> 0, next |-> NULL, frame |-> 0]
NoRequest == [size |-> 0, align |-> 0]

(* The function the component supplies to reverse mappings. *)
to_paddr(v) == Frames[v \div PageSize] * PageSize + (v % PageSize)

(* The allocator's memory: a record of head and nodes. *)
Pool == [head |-> head, node |-> node]

RECURSIVE From(_, _, _)

(* The regions in the list of pool m, in order; a cycle is cut off. *)
From(m, a, left) == IF a = NULL \/ left = 0 THEN <<>> ELSE <<a>> \o From(m, m.node[a].next, left - 1)
FreeList(m) == From(m, m.head, Cardinality(Addresses))

Listed(m) == Range(FreeList(m))

(* extract_paddr of every node in the list: defrag visits them all, and so
   does check_consistency where assertions are compiled in. *)
Extracted(m) ==
    LET listed == Listed(m)
    IN  [m EXCEPT !.node = [a \in Addresses |->
            IF a \in listed /\ @[a].frame = 0
            THEN [@[a] EXCEPT !.frame = to_paddr(a) \div PageSize] ELSE @[a]]]

try_extract_paddr(m, a) == m.node[a].frame * PageSize + (a % PageSize)

prepend_node(m, a) == [m EXCEPT !.node[a].next = m.head, !.head = a]

SetNext(m, previous, a) ==
    IF previous = NULL THEN [m EXCEPT !.head = a] ELSE [m EXCEPT !.node[previous].next = a]
remove_node(m, previous, a) == SetNext(m, previous, m.node[a].next)
replace_node(m, previous, old, new) ==
    SetNext([m EXCEPT !.node[new].next = m.node[old].next], previous, new)

----------------------------------------------------------------------------
(* b begins where a ends, in both address spaces. *)
Follows(m, b, a) ==
    /\ b = a + m.node[a].size
    /\ try_extract_paddr(m, b) = try_extract_paddr(m, a) + m.node[a].size

(* Variant: defrag looks only for regions to join p to, and does not go back. *)
RECURSIVE OuterForward(_, _, _)
OuterForward(m, pprev, p) ==
    IF p = NULL THEN m
    ELSE LET before == FreeList(m)
             stop   == CHOOSE i \in DOMAIN before : before[i] = p
             hits   == {i \in 1 .. stop - 1 : Follows(m, p, before[i])}
         IN  IF hits = {} THEN OuterForward(m, p, m.node[p].next)
             ELSE LET n == remove_node([m EXCEPT !.node[before[Min(hits)]].size = @ + m.node[p].size], pprev, p)
                  IN  OuterForward(n, pprev, n.node[pprev].next)

RECURSIVE Outer(_, _, _)

(* defrag: for each region p the regions q before it, from the head on.  The
   pointer to the region before p is carried along as the code does. *)
Outer(m, pprev, p) ==
    IF p = NULL THEN m
    ELSE LET before == FreeList(m)
             stop   == CHOOSE i \in DOMAIN before : before[i] = p
             hits   == {i \in 1 .. stop - 1 : Follows(m, p, before[i]) \/ Follows(m, before[i], p)}
         IN  IF hits = {} THEN Outer(m, p, m.node[p].next)
             ELSE LET q     == before[Min(hits)]
                      qprev == IF Min(hits) = 1 THEN NULL ELSE before[Min(hits) - 1]
                      into(a, b) == [m EXCEPT !.node[a].size = @ + m.node[b].size]
                  IN  IF Follows(m, p, q)
                      THEN LET n    == remove_node(into(q, p), pprev, p)
                               back == IF qprev = NULL THEN n.head ELSE qprev
                           IN  Outer(n, back, n.node[back].next)
                      ELSE LET n == remove_node(into(p, q), qprev, q)
                           IN  Outer(n, pprev, n.node[pprev].next)

defrag(m) == Outer(Extracted(m), NULL, m.head)

----------------------------------------------------------------------------
RoundDown(n, by) == n - (n % by)

(* Whether a request for size may be cut out of region p at q: nothing is left
   on either side, or enough to become a region. *)
LeavesRegions(m, p, q, size) ==
    /\ q = p \/ q >= p + Meta
    /\ LET end == p + m.node[p].size
       IN  q + size = end \/ q + size + Meta <= end

(* Where alloc looks in region p: from the end, in steps of align, as long as
   what is left in front is nothing or a region. *)
Scanned(m, p, size, align) ==
    LET from == RoundDown(p + m.node[p].size - size, align)
    IN  {q \in p .. from : \A r \in q .. from : r % align = 0 => r = p \/ r >= p + Meta}

Found(m, p, size, align) ==
    {q \in Scanned(m, p, size, align) : q % align = 0 /\ LeavesRegions(m, p, q, size)}

(* Variant: a new node takes the frame of the region it is cut from. *)
NewNodeSameFrame(m, p, a, size) ==
    [m EXCEPT !.node[a] = [size |-> size, next |-> NULL, frame |-> m.node[p].frame]]

(* A new node, with the physical address if that of the region p is known. *)
NewNode(m, p, a, size) ==
    [m EXCEPT !.node[a] = [size |-> size, next |-> NULL,
        frame |-> IF m.node[p].frame = 0 THEN 0
                  ELSE (try_extract_paddr(m, p) + a - p) \div PageSize]]

(* The four cases of alloc: all of p, its start, its end, its middle. *)
Cut(m, previous, p, q, size) ==
    LET all  == m.node[p].size
        rest == p + all - (q + size)
    IN  CASE p = q /\ all = size     -> remove_node(m, previous, p)
          [] p = q /\ all # size     -> replace_node(NewNode(m, p, q + size, rest), previous, p, q + size)
          [] p # q /\ rest = 0       -> [m EXCEPT !.node[p].size = all - size]
          [] p # q /\ rest # 0       ->
                [prepend_node(NewNode(m, p, q + size, rest), q + size)
                    EXCEPT !.node[p].size = q - p]

(* alloc: the address, and the memory afterwards *)
alloc(m, size, align) ==
    LET list == FreeList(m)
        fit  == {i \in DOMAIN list : m.node[list[i]].size >= size /\ Found(m, list[i], size, align) # {}}
    IN  IF fit = {} THEN [addr |-> NULL, pool |-> m]
        ELSE LET i == Min(fit)
                 q == Max(Found(m, list[i], size, align))
             IN  [addr |-> q,
                  pool |-> Cut(m, IF i = 1 THEN NULL ELSE list[i - 1], list[i], q, size)]

(* What a request for size really takes. *)
Rounded(size) == IF size < Meta THEN Meta ELSE size

(* Variant: the size is not rounded up when a region comes back. *)
FreedAsGiven(m, a, size) ==
    prepend_node([m EXCEPT !.node[a] = [Blank EXCEPT !.size = size]], a)

(* free of a region, without its check: a new first node *)
Freed(m, a, size) ==
    prepend_node([m EXCEPT !.node[a] = [Blank EXCEPT !.size = Rounded(size)]], a)

(* The new state of the pool.  Nodes no longer in the list are memory in use;
   what they hold is not looked at again. *)
Becomes(m) ==
    LET n      == IF Asserts THEN Extracted(m) ELSE m
        listed == Listed(n)
    IN  /\ head' = n.head
        /\ node' = [a \in Addresses |-> IF a \in listed THEN n.node[a] ELSE Blank]

----------------------------------------------------------------------------
Init ==
    /\ head = NULL
    /\ node = [a \in Addresses |-> Blank]
    /\ live = {}
    /\ ready = FALSE
    /\ refused = NoRequest

RECURSIVE AddPages(_, _)
AddPages(m, base) == IF base >= End THEN m ELSE AddPages(Freed(m, base, PageSize), base + PageSize)

(* camkes_dma_init, given a page size *)
camkes_dma_init ==
    /\ ~ready
    /\ ready' = TRUE
    /\ Becomes(AddPages(Pool, Base))
    /\ UNCHANGED <<live, refused>>

(* camkes_dma_alloc: if nothing fits, once more after defragmentation. *)
camkes_dma_alloc ==
    \E size \in Sizes, align \in Aligns :
        /\ ready /\ Cardinality(live) < MaxLive
        /\ LET first  == alloc(Pool, Rounded(size), align)
               again  == first.addr = NULL /\ Rounded(size) > Meta /\ head # NULL
               result == IF again THEN alloc(defrag(Pool), Rounded(size), align) ELSE first
           IN  /\ Becomes(result.pool)
               /\ live' = IF result.addr = NULL THEN live ELSE live \cup {<<result.addr, size>>}
               /\ refused' = IF result.addr = NULL THEN [size |-> Rounded(size), align |-> align] ELSE NoRequest
               /\ UNCHANGED ready

camkes_dma_free ==
    \E r \in live :
        /\ Becomes(Freed(Pool, r[1], r[2]))
        /\ live' = live \ {r}
        /\ refused' = NoRequest
        /\ UNCHANGED ready

Next == camkes_dma_init \/ camkes_dma_alloc \/ camkes_dma_free

Spec == Init /\ [][Next]_vars

----------------------------------------------------------------------------
Regions == {<<a, node[a].size>> : a \in Listed(Pool)}
Held == {<<r[1], Rounded(r[2])>> : r \in live}
Covers(r, a) == a \in r[1] .. r[1] + r[2] - 1

(* Every address of the pool belongs to one free region or to one allocation:
   nothing is lost in the cuts and joins, and nothing given out twice.  (The
   assertions of check_consistency, and more.) *)
NothingLostOrShared ==
    ready => LET used == Regions \cup Held
             IN  /\ \A a \in Addresses : Cardinality({r \in used : Covers(r, a)}) = 1
                 /\ Len(FreeList(Pool)) + Cardinality(Held) = Cardinality(used)

(* What is given out to a device is contiguous in physical memory, and a
   physical address kept in a node is that of its region. *)
PhysicallyContiguous ==
    /\ \A r \in Regions \cup Held : \A i \in 0 .. r[2] - 1 : to_paddr(r[1] + i) = to_paddr(r[1]) + i
    /\ \A a \in Listed(Pool) : node[a].frame # 0 => try_extract_paddr(Pool, a) = to_paddr(a)

(* The request refused last fits at q in the region r. *)
Fits(r, q) ==
    LET left  == q - r[1]
        right == r[1] + r[2] - q - refused.size
    IN  q % refused.align = 0 /\ left \notin 1 .. Meta - 1 /\ right \notin 1 .. Meta - 1

(* A request is refused only after everything that touches, in both address
   spaces, has been joined, although joining goes on in the middle of a scan
   whose pointers it invalidates; and only if it then fits nowhere, except at
   the very start of a region, which a scan in small steps may stop short of
   (dma.c:471). *)
RefusedRightly ==
    refused # NoRequest =>
        /\ refused.size > Meta => \A a, b \in Listed(Pool) : ~Follows(Pool, b, a)
        /\ \A r \in Regions : \A q \in r[1] .. r[1] + r[2] - refused.size :
              Fits(r, q) => q = r[1] /\ refused.align < Meta
=============================================================================
