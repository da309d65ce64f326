# Verification of the signing device

The repository holds a dissertation project: a *signing device* that sits between a
trusted and an untrusted network, checks messages, signs what leaves and verifies what
enters. It is built as CAmkES components on the seL4 microkernel, and the tree carries
the kernel, the CAmkES tool with its code templates, the runtime libraries, the device
itself (`sel4-camkes-proj/hello-camkes-1`), its build output, and PlusCal designs of a
later version (`TLA+ Models`). Paths below are relative to `src/sel4-camkes-proj`.

## Inventory

| part | state | operations | interacts with |
|---|---|---|---|
| seL4 endpoint IPC (`kernel/src/object/endpoint.c`, `tcb.c`, `cnode.c`, `kernel/thread.c`, `api/syscall.c`) | thread states, endpoint states and queues, reply capabilities in caller slots and CNodes, message registers | Send, NBSend, Call, Recv, NBRecv, Reply, ReplyRecv, SaveCaller, invoking a saved reply capability, TCB suspend and resume | called by every thread; atomic (one kernel lock) |
| seL4RPCCall connector (`tools/camkes/camkes/templates/rpc-connector*.c`) | position in the generated code, request being served | server loop of an interface thread, client stub | kernel system calls; calls the component's implementation, which calls stubs again |
| lazy reply capability (`tools/camkes/libsel4camkes/src/tls.c`) | four fields of the thread's TLS | declare, protect, unprotect | server loop and stubs of the same thread; mirrors where the kernel keeps the capability |
| error handling (`libsel4camkes/include/camkes/error.h`, `src/error.c`, `src/sys_exit.c`) | registered handler | discard, abort, halt | stubs and server loops |
| signing device (`hello-camkes-1`) | what has been printed | `run` of modtx and signtx; `verify` of modchk; `sign` and `verify` of crypto; `print*` | eight RPC connections |
| scheduler (`kernel/src/kernel/thread.c`, `object/tcb.c`) | ready queues, bitmap, scheduler action, time slices | timer tick, yield, wake and block, suspend, resume, set priority, set domain | every system call wakes or blocks threads; runs as the kernel is left |
| SHA-256 / HMAC (`components/Crypto/src/sha.c`, `hmac.c`) | hash state, block buffer, bit count | Init, Update, Final | crypto only; sequential |
| capability derivation (`kernel/src/object/cnode.c`, `untyped.c`, `objecttype.c`) | capability table entries, linked in one list with two flags each (the mapping database); watermark of each untyped capability; which memory is clear | Retype, Copy, Mint, Move, Rotate, Delete, Revoke | the system initialiser and every holder of a CNode; clearing and revoking may be preempted and are then repeated |
| CNode deletion (`cnode.c`: `cteDelete`, `finaliseSlot`, `reduceZombie`) | slots of CNodes, zombies that count the slots still to be emptied | Delete, Revoke, and what others do to the remains: Copy, Move, Rotate | as above |
| semaphores (`projects/seL4_libs/libsel4sync`: `sem-bare.h`, `bin_sem_bare.h`) | an atomic counter and an endpoint or a notification | wait, trywait, post | kernel send, receive, signal; used by the next three |
| startup (`templates/component.common.c`, `component.environment.c`) | three semaphores | pre_init, initialisers, post_init, run | all threads of one component |
| stub over a dataport (`rpc-connector.c` with the attribute `buffer`) | the buffer, its lock | begin_send to release_recv | threads of the calling component, the server |
| event connector (`templates/seL4Notification-*.template.c`) | notification, handoff semaphore, lock, registered callback | emit, poll, wait, reg_callback; a thread that takes the events | components' threads |
| DMA allocator (`tools/camkes/libsel4camkes/src/dma.c`) | free list kept in the free regions themselves | init, alloc, free, defrag | one component; sequential |
| IPC fastpath (`kernel/src/fastpath/fastpath.c`) | that of IPC and scheduler | Call, ReplyRecv in common cases | changes both without calling either |

How they fit: a control thread calls a stub; the stub saves a pending reply capability
(`camkes_protect_reply_cap`), marshals and does `seL4_Call`; the kernel queues the caller
on the endpoint or hands its message and a one-shot reply capability to the interface
thread waiting there; that thread unmarshals, runs the implementation, which may call
further interfaces from the same thread, and answers with `seL4_ReplyRecv`, or with
`seL4_Send` on the slot the capability was saved to.

What is hard here:

- *Where the reply capability is.* The kernel keeps it in the TCB until the next receive
  deletes it; user code tracks it in TLS and moves it lazily, in code (the stub) that does
  not know who declared it. One missed update and a caller is never answered, or the
  wrong one is.
- *Cancellation.* A thread can be suspended or restarted in any wait: queued at an
  endpoint, or while a capability to answer it lies in somebody else's slot.
- *Interleaving.* Both sides of the device use modchk and crypto at once; requests queue
  while a server waits in nested calls; all waits are synchronous, so a cycle is a deadlock.
- *Behind the scheduler's back.* The kernel switches threads directly where it can, on
  priority checks that are right only if the thread that was running was the highest.
- *Data in pieces.* The hash takes a message in pieces of any length, buffers what does
  not fill a block and counts in two words; HMAC reuses precomputed contexts.
- *A tree kept as a list.* Who was derived from whom is not stored: it is read off the
  order of a list and two flags, which every operation must leave just so. A CNode may
  contain the last capability to itself, or to the one that contains it.
- *Counter, then system call.* Semaphores change a counter atomically and act on it in a
  second step; waiters and wakers meet in between in any order.
- *Events nobody counts.* A notification keeps one signal, a callback is registered while
  an event may just be arriving, and is invoked with the lock released.
- *Partial failure.* Every marshalling step may fail, and what a failure does depends on
  the handler: continue (discard), stop the thread (abort) or everything (halt).

Correct means: queues, endpoint states and thread states agree; reply authority is live
and one-shot; the TLS record of the capability is true; the right caller gets the answer
to its own request; the thread of the highest priority runs, and one of equal priority
runs in the end; the fastpath does what the slow path does; the digest is that of the
message however it was cut; no memory is in use twice or handed out uncleared, revoking
takes back everything and deleting ends; phases of the start stay apart, exchanges
through a shared buffer do not mix, a callback runs once per registration; every call returns and every control thread finishes; each side of
the device is shown the verdicts on the other side's message, in order.

## Modules

| module | models | reading guide |
|---|---|---|
| `Sel4Ipc` | the kernel part | one action per system call. `SendIPC` and `HandleRecv` are `sendIPC` and `handleRecv` + `receiveIPC`; `HandleRecv` takes the thread states and registers the earlier half of the same system call left, so `ReplyRecv` is one action as in the kernel. Reply capabilities are identified with the thread they resume. |
| `ThreadQueue` | taking a TCB out of a doubly linked queue | used by the kernel's two kinds of queue, those of endpoints and of ready threads |
| `Sel4Sched` | the scheduler | a kernel entry is a handler and then `Leave` (`schedule()`); kernel functions are operators on the record `ks`, under their names in the code |
| `Sel4Kernel` (extends `Sel4Ipc`, instantiates `Sel4Sched`) | both together, and the fastpath | `Slow...` is a system call as in `Sel4Ipc`, its wake-ups and waits told to the scheduler; `fastpath_call` and `fastpath_reply_recv` write the same state in their own way |
| `RpcService` | what an interface promises | pending callers per interface, answered one at a time, each once, oldest first, by a thread that is not itself waiting |
| `CamkesRpc` (extends `Sel4Ipc`) | generated connector, TLS, error macro | one action per stretch of code that ends with a system call; `pc` names the position. `Body` is a parameter: the calls an implementation makes for a request. |
| `SigningDevice` (extends `CamkesRpc`) | the components and their wiring | gives `Body` its value; strings are reduced to what the components tell apart |
| `Sha256` | streaming: `SHA256_Init`, `_addlength`, `_Update`, `_Final` | a context is a record; its `h` is the sequence of blocks compressed so far, so nothing is assumed of the compression function, and equal digests mean equal blocks. `Hash` is the standard's definition for a whole message. |
| `Hmac` (extends `Sha256`) | `HMAC_Init`, `_Update`, `_Final`, `_cleanup`, in the order `HMAC` and `HMAC2` call them | `HMAC` is RFC 2104's definition |
| `Sha256Block` | `sha256_block_data_order` | one action per round; a word is the set of its one bits |
| `Sel4Cte` | entries of capability tables and the mapping database | the kernel's functions, under their names, as operators on an array of entries |
| `Sel4Untyped` (extends `Sel4Cte`) | Retype, CNode invocations, preemption of clearing and revoking | one action per invocation; `RetypePreempted` leaves a retype after some chunks were cleared, `Revoke` may end after any number of deletions; `dirty` is the memory not known to be zero |
| `CapTree` | what the manual says of the capability derivation tree | capabilities in slots, parent and "original" as variables of their own |
| `Sel4Zombie` | deletion of CNodes | `cteDelete`, `finaliseSlot`, `reduceZombie` are recursive operators on a record of slots, steps left before a preemption, exit status; any other thread's Copy, Move, Swap, Delete comes between |
| `SemBare`, `BinSem` | the two semaphores of libsel4sync, and signal and wait on a notification | one step for the atomic change of the counter, one for the system call |
| `Startup` (instantiates `SemBare`) | the start of a component | each kind of thread has a program, the sequence of its waits, posts and phases |
| `StubLock` (instantiates `SemBare`) | a stub over a dataport that several threads share | one action per stretch of the stub; `errors` says whether marshalling may fail in this behaviour |
| `EventConnector` (instantiates both) | `seL4Notification` | one action per stretch of code between atomic operations |
| `Component` (instantiates the last three) | the threads of one component: first they start, then they call stubs or use events, one at a time | |
| `DmaPool` | the DMA allocator | one action each for init, alloc and free; `defrag` and the list walks are operators that follow the pointers as the code does, through removed nodes too |
| `..._proofs` | theorems | see *Proofs* |
| `MC...` | instances for TLC | |

The `Variant` operators are deliberately wrong versions of the definition that follows
them; each was substituted for it to confirm that a property notices.

Correspondence of state: `tcbState`, `blocking` are `tcb_t.tcbState` with its
`blockingObject` and `blockingIPC*` fields; `epState`, `epQueue` the endpoint object;
`callerSlot` the `tcbCaller` slot; `savedSlot` the CNode slot named by the TLS field
`reply_cap_slot`; `mrs` message registers and IPC buffer; `cnodeCap`, `replyCapSlot`,
`replyCapInTcb`, `saveError` the TLS fields, of which only "zero or not" matters;
`halted` that `seL4_DebugHalt` was called. `cte`'s fields are `cte_t`'s `cap` and
`cteMDBNode`. In `Component` each part's semaphore has its own counter, queue and stage.
`served`, `owed`, `due`, `live` and `refused` are history variables.

## Runs

| run | what it asks | bounds |
|---|---|---|
| `kernel` | every interleaving of all system calls, suspend and resume: queues and states agree (`QueueInv`), reply authority (`ReplyInv`), who may wake whom, FIFO | 3 threads (symmetric), 2 endpoints, 1 message |
| `rpc` | the connector with nested calls, contention and errors whose handler aborts or halts: the reply capability is tracked, saved and used for the right caller; refinement of `RpcService` | 2 clients, 3 servers: `relay` forwards, `store` makes two calls for one request, `log` makes none; request `a` may be too long, `a` and `b` may be rejected |
| `rpc_discard_request` | expected violation, see *Findings* | request `a` may be rejected |
| `device` | the device as wired, each error handled by a halt (the default) or discarded (as the documentation recommends): order of verdicts, synchrony of `run`, no deadlock, termination | as the code: one instance |
| `device_verify` | expected violation, see *Findings* | as above |
| `hash` | every cut of every message into pieces, one or two messages per key: what the contexts hold, the digest; all 64 rounds of the compression and the final addition with 64-bit registers against FIPS 180-4 | blocks of 4 bytes, 2 for the length, words of 16 values, keys to 6, pieces to 9, messages to 28 bytes; three inputs and a table of constants with bits in every position |
| `sched` | every sequence of kernel entries: queues, flags and bitmap agree, nobody is lost, the highest runs; with threads that from some point on only use IPC, everybody runnable and not outranked gets its turn | 3 threads, 3 priorities in 2 words of the bitmap, slices of 2 ticks |
| `fastpath` | IPC, scheduler and fastpath: fast steps are slow steps; ready queues and thread states agree | 3 threads (symmetric) with any of 3 priorities each, 1 endpoint, slices of 1 tick |
| `cdt` | retypes, copies, moves, rotations, deletions and revocations in every order: the list is well formed and puts copies side by side, memory is never in use twice nor handed out uncleared; refinement of `CapTree` | 4 slots (symmetric), one region of 2 units cleared one by one, 1 badge, 2 objects per retype |
| `zombie` | CNodes containing each other and themselves, deleted while others move, copy and delete what is left | 3 root slots, 3 CNodes (both symmetric) of 2 slots, preemption after every step |
| `component` | start, stub and events of one component: semaphores exact, phases apart, no mixed exchange, callbacks exact; it starts, stubs return, events arrive | control thread, connector thread and one more; 2 events, 2 calls |
| `dma` | allocation and freeing in every order: nothing lost or given out twice, everything contiguous in physical memory, refused only when it does not fit | 3 pages of 8 units of which two neighbours are physically contiguous, nodes of 3, sizes 2, 5, 11, alignments 2, 4, 4 live allocations |

Why the bounds are enough. Three threads give a queue of two, a middle to leave from, a
holder of a reply capability distinct from its target and from a third thread that
interferes; a second endpoint lets a thread move between queues; contents of messages
influence no kernel decision, so one suffices there. In the connector's run every server
role occurs (no, one, two nested calls), two clients meet at every server, and a server
is called while it waits. In `sched` there may be two threads in a queue while one runs,
or one in another word of the bitmap; in `fastpath` a third thread of a priority below,
between or above the two partners is what the direct switch could overlook. The
scaled-down blocks keep every case of the hash: a piece that ends before, at and after
the end of a block, two whole blocks in one piece, a key shorter than, as long as and
longer than a block, padding with and without a further block, and both words of the
length wrap (8 * 28 exceeds 16 * 8). Four slots hold a region, one made from it, and two
copies or objects, or copies of copies; two units let a region be partly used, partly
cleared, and reused. Three CNodes of two slots give cycles of length one to three, with a
slot beside the cycle. In `component` three threads share each semaphore, so that two may
be between counter and system call while a third changes the counter; two events overlap,
and two calls overlap or follow each other (a callback that registers again is not
counted, so callbacks and events are renewed beyond that). The pool has regions to join on
both sides, regions that touch in one address space only, and allocations larger than a
page. The device has exactly one configuration. Nothing is cut off by state constraints;
the bounds on calls, events and live allocations are in guards.

`CHECK_DEADLOCK FALSE` is used where the system really may stop: in `rpc` an aborted
server leaves its callers waiting, as the documentation of `CEA_ABORT` says, and the same
holds in the two violation runs. Everywhere else a state without a successor must satisfy
`Terminated`, `Quiescent` or `Revoked`, so TLC's deadlock check is a check of the system.

Fairness. In the connector and the device `WF_vars(Thread(t))` for each thread: all
threads run at one priority (the CAmkES default), they use IPC only, and `Thread(t)` is
enabled exactly when `t` is runnable in user code. `RoundRobin` (run `sched`) shows that
the scheduler lets such a thread run. That in turn assumes that the kernel is left once
entered (`WF_vars(Leave)`) and that timer interrupts keep coming (`SF_vars(Tick)`: the
kernel runs with interrupts off, so a tick may find the door closed, but stays pending).
With suspend, resume and changes of priority it would not hold: they put a thread at the
head of its queue, so two threads that do this to each other can keep a third one waiting;
`RoundRobin` therefore speaks of behaviours that from some point on contain IPC and ticks
only (`IpcNext`). In `Component` each thread and the server at the other end are weakly
fair for the same reason; events come or do not come. No fairness is assumed of one
alternative over another: an error may happen every time, and `ClientsFinish` excuses only
a halted system, `StubsReturn` only behaviours in which marshalling fails. That deletion
and revocation end needs no fairness: `DeletionEnds` computes the whole recursion, and
`RevocationEnds` shows that each step decreases a measure.

## Proofs

The prover shows the following for every value of the constants that the named
assumptions of the modules allow, where the runs show it for one. In each case the
invariant checked is not inductive alone; what is proved is the strengthening named here.

| module | theorem | property | inductive invariant |
|---|---|---|---|
| `Sel4Ipc_proofs` | `KernelTypes`, `QueuesCorrect`, `ReplyAuthority`, `ResumptionCorrect`, `ServedInOrder` | `KernelTypeOK`, `QueueInv`, `ReplyInv`, `ResumedRightly`, `FirstComeFirstServed` | `KernelInv` |
| `Sel4Sched_proofs` | `SchedTypes`, `QueuesAreExact`, `NobodyIsLost`, `HighestPriorityRuns` | `SchedTypeOK`, `QueuesExact`, `NobodyLost`, `HighestRuns` | `SchedInv` |
| `Sel4Kernel_proofs` | `ReadyQueuesExact`, `CurrentIsHighest`, `FastpathIsSlowpath` | `ReadyExact`, `CurrentHighest`, `FastIsSlow` | `SystemInv` |
| `CamkesRpc_proofs` | `ReplyCapsTracked`, `CalleesHoldReplyCaps`, `RequestsIntact`, `RpcImplementsService` | `ReplyCapTracked`, `CalleeHoldsReplyCap`, `RequestIntact`, `ImplementsService` | `RpcInv` |
| `Component_proofs` | `CountersExact`, `PhasesStayApart`, `ResponsesAreOwn`, `CallbacksAreExact` | `CounterExact`, `PhasesKeptApart`, `OwnResponse`, `CallbacksExact` | `ComponentInv` |
| `Hmac_proofs` | `ContextIsExact`, `DigestIsHmac` | `ContextHolds`, `DigestRight` | `HmacInv` |
| `Sel4Untyped_proofs` | `ListIsExact`, `MemoryStaysApart`, `FreeMemoryStaysCleared`, `DerivationIsTree` | `ListExact`, `MemoryApart`, `FreeMemoryCleared`, `ImplementsTree` | `UntypedInv` |

`SemBare_proofs` holds the invariant of one semaphore, which `Component_proofs`
instantiates three times. What the others need to know of queues without repetitions is a
section of lemmas at the beginning of `Sel4Ipc_proofs`, `Sel4Sched_proofs` and
`SemBare_proofs`.

**IPC** (`KernelAssumption`: `NoThread` is not a thread, there is an endpoint).
`KernelInv == KernelTypeOK /\ QueueInv /\ ReplyInv`. That the head of a receive queue may
be given a reply capability needs the queue to hold only receivers
(`QueueMatchesState`) and receivers to have an empty caller slot (`CallerSlotFree`); that
a reply does not resume a queued thread needs `ReplyCapLive`; that a dequeued thread is in
no queue any more needs `QueuedOnce`; that a consumed capability leaves none behind
needs `ReplyCapUnique`. The proof goes by effect rather than by system call: lemmas
`EnqueueStep`, `RemoveStep` and `QuietStep` show what joining, leaving and not touching
a queue preserve, `SlotStep` what a change of the slots preserves; `SendIPCStep`,
`HandleRecvStep`, `ReplyStep` and `CancelIPCStep` combine them per kernel function, and
`KernelNextInv` has one step per system call. First come first served follows from the
same lemmas: whoever leaves a queue leaves the order of the others.

**Scheduler** (`SchedAssumption`). Queues, flags and bitmap agree (`ReadyOK`) after every
kernel function: a priority is a word and a bit and these determine it (`PriorityOfBit`),
for any number of priorities and any length of a word. `HandlerInv` says what holds
between a handler and `schedule()`: unless a new thread is to be chosen, the current
thread outranks all that are queued but the candidate. That is what makes it right that
`schedule()` does not look at the bitmap when the candidate does not rank below the
current thread, and it is not visible in any property of user mode.

**Fastpath.** `SystemInv` joins both invariants by the fact that the two halves agree on who
is runnable. A fast call or reply-and-receive is then equal, state for state, to the slow
one followed by `schedule()`: its checks imply that `schedule()` would choose the partner.

**Connector** (`RpcAssumption`: any clients, servers, calls of their bodies, circular ones
included, and any errors). `RpcInv` relates, per thread, the position in the generated code, the
kernel's thread state, the TLS fields and the two slots; for a blocked caller it names the
capability that will resume it and who holds it. The theorems have one hypothesis,
`RequestsKept`: the handler never returns `CEA_DISCARD`, or no request is malformed. Without
it they are false (first finding below); run `rpc` meets it. `RpcImplementsService` maps
each step to a step of `RpcService` or a stutter: a request arrives when the caller is
queued or received, and is answered when the reply resumes the caller.

**Component** (`ComponentAssumption`: any number of other interface threads, any bounds).
Three invariants, one for each part, of which a step changes one. What they have in common is
counting: `SemInv` of `SemBare_proofs` says that waiters less wakers is what the counter is
below zero, so the value of a counter says how many threads it has let pass. `StartInv`
writes the counters of the start as what the control thread's loops have done less the
threads that have begun the step behind; a phase begun by one thread then bounds what the others
have finished. `StubInv` says that the lock's counter is at most one less the threads that have
asked for it: an error that keeps the lock only lowers it further, so at most one thread is
in the exchange. `EventInv` does the same for the binary semaphore, and adds that the
connector's thread posts the handoff with the lock held, which is why no callback can be
registered in between.

**Hash** (`ShaAssumption`: a block has room for more than two words of length). No invariant
but `ContextHolds` is needed; the work is in the functions. `ShortPiece`, `FillingPiece`
and `AlignedPiece` say how the blocks and the rest of a message change when a piece is
appended that does not fill a block, fills it, or begins at one; `LengthAdded` that the carry told
from the low word having become smaller is the carry of the sum, also when the high word wraps;
`UpdateHolds` and `FinalHashes` follow for `SHA256_Update` and `SHA256_Final`. The compression function stays
free in `Sha256`, so the digest theorem is one about which blocks are compressed in which order.

**Capability derivation** (`CteAssumption`, `UntypedAssumption`: finitely many slots; any
initial regions, badges, chunks and fan-out). None of the three invariants is inductive, nor
are they together: they are read off a list, and a step that relinks entries must know that
what it relinks is where it belongs. `UntypedInv` says that there are heights of the
entries, a witness that no variable holds, such that

- the pointers of an entry are its neighbours in the order of the heights (`Ordered`): from
  this follow that following the list never comes back and that unlinking meets the right
  entries;
- capabilities to overlapping memory are to one object, or one is an untyped capability that
  covers the other and comes earlier in the list (`Apart`);
- what an untyped capability covers behind it is a run in the list without gaps
  (`Contiguous`), so revoking, which stops at the first entry that is not a descendant, gets
  all of it; and the capabilities to one object are a run too (`Together`), so
  `isFinalCapability` may ask the neighbours only;
- what is in use of a region lies below its watermark (`BelowMark`), which is why objects made
  at the watermark overlap nothing; and what is above is clear (`Cleared`);
- the copies of one badge are a run that begins with a marked entry, and whoever may have
  children begins one (`Badged`), so a badge's copies are not taken for another's.

`LinkSound` shows this of linking an entry in behind another, by a lift of the heights, under
the condition `Hangs` that says where an entry may be linked in; `EmptySound` of taking
one out. Moves, swaps and rotations need neither: `MoveRenames` and `SwapRenames` show
that each of them renames slots and changes nothing else, also when the two entries are
neighbours, and `RenameSound` that the invariant does not depend on names. For a retype,
`RoomAligned` is the arithmetic that the code leaves unsaid: room for the objects
before their base is aligned is room for them afterwards, since base and size of a region
are multiples of the size of what fits in it. The recursive functions of the model (the run of
`Descendants`, `Following`, the loops of `createNewObjects` and `cteRevoke`) are
unfolded by induction over numbers, which `WFMin` of the library gives as the principle of
the least number; the library's own induction theorems have an operator as a parameter
and cannot be used. The invariant was first checked by TLC on the instance of run `cdt`.

That the list implements the manual's tree (`DerivationIsTree`) is shown in two halves. The
first is about the list: `Descends` says of two entries what revoking the one would do to
the other, `TreeIsForest` that this is the relation of a forest, and the step lemmas how it
changes: entries linked in come to lie below their source or, if that may have no children,
beside it (`Grew`), entries taken out leave the others as they were (`Pruned`), and a move
or a swap renames (`Turned`). The second half knows no list: `GrewParents`, `PruneParents`
and `RenameParents` say what these three do to the nearest entry above, which is what
`Parents` is (`ParentsAre`); `Rises` is the induction along the heights that shows what
`heir` and `Below` of `CapTree`, which recur from parent to parent, come to. `TreeSteps` has
one step per action; a preempted retype and the deletion of an empty slot are stutters.

Only model-checked, and why:

- Liveness (`RoundRobin`, `ClientsFinish`, `EverythingStarts`, `StubsReturn`, `EventsArrive`):
  outside the prover's reach, as is ENABLED.
- `Sel4Zombie` and `DmaPool`: the deletion of nested CNodes and the joining of regions are
  RECURSIVE operators, which the prover's SMT backend does not accept. As recursive functions
  they would first have to be shown to be defined, which is the termination that
  `DeletionEnds` checks.
- `CompressionRight`: addition, schedule and rounds are folds over bits, whose values
  the library has no theorem about.
- `VerdictsInOrder` and `RunIsSynchronous`: the device has one configuration, and the run
  covers all of it.

## Findings

1. `rpc_discard_request`. The documentation recommends `CEA_DISCARD` for servers that are
   to be robust (`tools/camkes/docs/index.md:1653-1657`). After a request that fails to
   unmarshal the server loop returns to the receive
   (`rpc-connector-common-to.c:197-202`, `151-163`, `277-289`) with `reply_cap_in_tcb`
   still set; the next request makes `camkes_declare_reply_cap` fail its assertion
   (`tls.c:28`) and the interface thread is gone. With assertions compiled out the server
   survives and the discarded caller waits for ever.
2. `device_verify`. `crypto_iface_verify` (`crypto.c:17-19`) reports the text as valid
   without computing or comparing an HMAC, although `signtx.c:20` calls it to "verify the
   signature".

## Observations without a run of their own

- `rpc-connector-common-from.c:97-109` and `118-130`: a stub over a dataport returns on an
  error without `release_recv`, so the lock stays taken. The model does the same, and
  `StubsReturn` is stated for behaviours without such an error.
- `dma.c:471`: the scan for a place may stop short of the start of a region although the
  request would fit exactly there, when the alignment is smaller than a node;
  `RefusedRightly` states precisely this exception.
- `dma.c:408`: what `camkes_dma_init` does without a page size depends on a test that looks
  inverted against the comment in lines 405-407; that half of it is not modelled.

## Not modelled

- Kernel: `cancelAllIPC`, `cancelBadgedSends` and `cancelAllSignals` (nobody deletes or
  recycles endpoints in the device), notifications bound to a thread, faults, capability
  transfer, several domains or cores (neither is configured), the authority that bounds
  priorities, the RT-kernel branches, device memory, rights, architecture, reply and IRQ
  capabilities in the mapping database, zombies of TCBs (their slots hold a fixed set of
  capabilities), virtual memory, interrupts, boot. In the connector's modules any runnable
  thread may run next. Badges of endpoints are in `Sel4Cte`; the connector's are left out
  because each connection has an endpoint with one interface thread and requests are told
  apart by their caller.
- Connector: CakeML output, `CEA_IGNORE` (it continues with a failed operation, whose
  outcome is whatever memory held), output parameters and return values (the device's
  methods are all `void` with `in` parameters). Every component modelled in `CamkesRpc`
  has more than one interface, so `might_block()` is true throughout.
- Semaphores: counters at INT_MAX and INT_MIN, which need as many threads, and
  `condition_var.h`, which nothing in the tree's components or templates uses.
- Startup: passive threads (realtime kernels only), and the setting up of heap, TLS and
  dataports before it, which is sequential.
- DMA: `camkes_dma_init` without a page size, statistics, the no-op cache operations.
- Hash: the table of round constants is a parameter, HMAC's keys and messages are opaque
  bytes, and the contexts' reuse after `HMAC_cleanup` begins with `HMAC_Init`.
- Device: the words of the messages, printing.
- The PlusCal designs in `TLA+ Models`: specifications already, of a device whose code is
  not in this repository.
- The CAmkES parser and the capDL loader (build-time and boot-time), tutorial components
  and vendored libraries: most of the tree's lines, among them five preprocessed copies of
  the kernel in the build output and generated hardware headers, which is why the map
  covers a small share of all lines.

## Plan

A relation of `Sel4Sched`'s `runnable` with the connector's threads, so that "any runnable
thread may run next" in `CamkesRpc` becomes a lemma.
