# Models of the system-programming labs

TLA+ specifications of the programs in this repository: the caching web proxy
and the Tiny server of Lab 5, the shell of Lab 2, the allocator of Lab 3 and
the driver that checks it, the memory tracer of Lab 1, the kernel modules of
Lab 4, and the two counters of the homework. Each module is a translation of
the C source; TLC checks small instances, and TLAPS proves the safety
properties of the counters, the proxy with its cache, the shell with its job
list, the allocator and its driver, the tracer, the kernel modules, the Rio
reader and the Tiny server for every size.

Check a run with `tlc -config <run>.cfg <module>` and a proof with
`tlapm <module>.tla`; `PROJECT.json` lists the runs, the lines each definition
stands for, the bugs each property is known to catch, and the hazards of the
code with the properties that guard against them. A definition whose comment
begins with "(a bug to catch)" is one of those bugs, and nothing else uses it.

## Inventory

| Part | State it keeps | Operations | Hard behaviour | What makes it correct | Here |
|---|---|---|---|---|---|
| Web cache, `proxylab-handout/cache.c` | doubly linked list `head`..`tail`, `cache_size`, `cache_mutex` | `cache_find`, `cache_insert`, `cache_evict` | threads, a lock kept after a hit, memory freed and reused | the list stays whole, the size within its limit, LRU order, no use after free, the lock is given back | `Cache`, `LruCache`, `CacheUsers` |
| Request parser, `proxy.c:71-133` | the request; the position inside `strtok` | `parse_request` | that position is one per process, and `strtok` may return NULL | a header's value is the client's own | `ParseRequest` |
| Proxy, `proxy.c` | connections, descriptors, the `int` handed to each thread | `main`, `proxy_thread`, `forward_*` | threads, clients and origins that fail, descriptors that run out, wrappers that exit | every client gets its own, right answer | `Proxy` |
| Counters, `Semaphores/goodcnt.c`, `badcnt.c` | `cnt`, the semaphore | `main`, `thread` | `cnt++` is two steps | with the semaphore no increment is lost, without it a bounded number; the program ends | `GoodCnt`, `AtomicCounter`, `BadCnt`, `Counters` |
| Job list, `shlab/tsh.c:467-610` | `jobs`, `nextjid` | `addjob`, `deletejob`, look-ups | job IDs are reused | a job ID names one job | `JobTable`, `JobNumbers` |
| Shell, `shlab/tsh.c` | the job list, blocked and pending signals, the children | `eval`, `do_bgfg`, `waitfg`, three handlers | handlers interrupt everything, and each other; children change state at any time | the list matches the children, the prompt comes back, keys reach the foreground job only | `Shell` |
| Allocator, `malloclab-handout/src/mm.c`, `memlib.c` | heap words, `heap_listp`, `freelist_head`, `mem_brk` | `mm_init`, `mm_malloc`, `mm_free`, `mm_realloc`, `mm_check` | long call sequences, coalescing, splitting, a heap that is used up | blocks tile the heap, the free list is the free blocks, payloads stay apart and keep their contents | `MemLib`, `Mm`, `Allocator` |
| Allocator driver, `mdriver.c` | the trace with its blocks and sizes, the range list, the statistics | `main`, three passes over each trace, `add_range`, `remove_range` | a checker that may miss what it checks, passes over a heap left as it was | every error is the allocator's, every overlap is reported | `RangeList`, `Driver`, `MmDriver`, `AnyDriver` |
| Memory tracer, `linklab` | counted list, statistics | wrapped `malloc`, `calloc`, `realloc`, `free`, in three parts | address reuse, bad frees, refused requests, the tracer's own among them | the list is the live blocks, bad frees never get through | `MemList`, `MemTrace` |
| Rio, `csapp.c` | `rio_cnt`, `rio_bufptr`, `rio_buf` | `rio_readinitb`, `rio_read`, `rio_readlineb`, `rio_writen` | short reads and writes, interrupted calls, end of file | the bytes arrive in order, none lost or twice | `Rio`, `Tiny` |
| Tiny server, `tiny/tiny.c`, `adder.c` | descriptors, the mapped file, the child, the request | `main`, `doit` and what it calls | clients that stop, leave or do not read, files that go, calls that fail, an unchecked `sscanf`, one client at a time | whole answers to the right client, nothing left open, nobody blocked but by a client | `Tiny` |
| Kernel modules, `kernellab` | `curr`, `data` of ptree, `task` of paddr | module init and exit, the write to `input`, the read of `output` | system calls at once over shared globals, with no lock; pages that are not in memory | an undisturbed write gives the right tree, a read the right address of a process that was asked for | `Ptree`, `Paddr`, `Kernel` |
| HW5, timing code | | | | | not modelled, see the end |

How they interact: `Proxy` calls the cache and the parser, and shares the
cache's mutex and `strtok`'s position among its threads. `Shell` calls the job
list from its loop and from its handlers. `MmDriver` puts `mdriver` around
`mm.c`, `AnyDriver` around an allocator of which nothing is known. `Tiny` reads
through `Rio`. `Kernel` lets the same processes call both kernel modules. The
tracer and the counters stand alone.

## Modules

### The counters

`GoodCnt` has one action per step of `main` (`Create`, `Join`, `Check`) and of
a thread (`P`, `Load`, `Store`, `V`, `Return`); `cnt++` is `Load` and `Store`.
`AtomicCounter` says what it promises: a counter that each thread raises by one
a fixed number of times. `NoLostUpdate` is that specification under a
refinement mapping that counts the increments already stored. The semaphore is
fair only weakly, as `sem_wait` is: `Terminates` holds even so because the
number of rounds is finite. `BadCnt` is the same program without the semaphore;
`Counters` runs the two side by side.

### The cache

`ProxyThreads` holds what the modules about proxy threads share: where each
thread is (`pc`) and the object it has in hand (`arg`, the arguments of
`cache_insert`). `Cache` is `cache.c`. Addresses stand for what `Malloc`
returns; `entry` is memory, with a `live` flag so that a use after `Free` can
be told. Every iteration of the search is a step (`FindNext`), the relinking
of a hit one step under the mutex (`MoveToFront`), each evicted entry a step
(`EvictTail`), the new entry's linking a step (`Link`, or `LinkNoMemory` when
the wrapper exits). `FindHit` keeps the mutex: `cache.c:41` returns without
unlocking. A byte is known by the object it is of and its place there; `Text`
says how many bytes of an object precede its first zero byte, and `strdup`
copies those (`StrDup`).

`LruCache` is the abstract cache: a sequence of objects, most recently used
first; a look-up that finds something moves it to the front, puts happen in
front after dropping from the rear. `IsLruCache` maps the linked list read from
`head` to that sequence.

`CacheUsers` closes the cache with threads that look up and insert for ever.

### The proxy

`ParseRequest` is `parse_request`. The request line is a URI; a header is a key
and a value, of which the value is NULL when the line has nothing after its
colon, or no colon, and the key as well when the line is nothing but colons.
`olds` is the position inside `strtok`, with the line it belongs to and what is
left of it. `StrtokValue` continues wherever `olds` points, which may be another
thread's line. `strtok` returns NULL where nothing is left, which `trim` then
reads (`StrtokNull`): another thread may have used the line up, but one client
alone does it too, with a header that has no value or no key.

`Proxy` composes the cache and the parser with `main` and the rest of
`proxy_thread`. A connection is served by one thread, as in the code. The
descriptor table gives the lowest free descriptor; `clientfd` is never closed,
as in the code. `vargp` is a malloc'ed cell, free again after `Start`. The
origin of a request serves it, cuts it short, stays silent, resets or refuses;
the client may leave or stop in its headers. Every wrapper of `csapp.c` that
fails ends the process (`Exit`), which is what `unix_error` does. A response is
forwarded in blocks of `MAXLINE` and kept for the cache while it fits. The block
a thread has read (`buf`), what it has kept (`body`), a cached value and what a
client got (`reply`) are sequences of bytes, so that a byte of another object, or
in the wrong place, shows. A hit writes the cached value for as many bytes as the
object had (`FromString`): behind the value's end are its NUL and whatever memory
holds (`Beyond`).

### The shell

`JobTable` is the job list: `initjobs`, `addjob`, `deletejob`, `maxjid`,
`fgpid`, `getjobpid`, `getjobjid`. They are one step each: the signals whose
handlers use the list are blocked around `addjob`, and the SIGINT and SIGTSTP
handlers, the only ones that can interrupt `deletejob`, read nothing else than
`fgpid`, whose answer then is what it was before or 0, as if the deletion had
or had not happened. `JobNumbers` adds and deletes jobs in any order and looks
at the job IDs.

`Shell` is the rest of `tsh.c`. `main` is the read/eval loop with its locals;
`stack` holds the frames of the running handlers. A pending signal is delivered
(`Deliver`) between any two steps unless it is blocked or its own handler is
running (`Signal` installs handlers with an empty mask), so that handlers nest
up to three deep; the loop takes a step only when the stack is empty. `eval` is
`Eval`, `Fork` or `ForkFails`, `Addjob`, `Unblock`, `Waitfg`; `do_bgfg` is
`Bgfg`, `BgfgPid`, `BgfgKill`, `BgfgState`, `BgfgWait`, one per access to the
job that a handler can come between. `sigchld_handler` is `Waitpid`,
`ChildStopped`, `ChildReaped`, `WaitpidNone`; the other two handlers are
`FindForeground` and `KillForeground`. A child goes through `fork`, `setpgid`
and `execve` at its own pace, may stop itself (`mystop.c`), be stopped, be
resumed, and end. `kill(-pid)` fails when the group does not exist: before
`setpgid` and after the child was reaped; the shell then exits, as `unix_error`
says. A child before `execve` has the shell's handlers, and drops the signal. A
child that ends, stops or is resumed raises SIGCHLD, and a raised signal is a
flag, not a count.

### The allocator and its driver

`MemLib` is the simulated memory of `memlib.c` and the words in it. `Mm` is
`mm.c`, function by function and macro by macro, on a heap of words: headers
and footers carry size and allocated bit, the free list lives in the payloads
of free blocks, `coalesce` has its four cases, `place` splits or does not,
`mm_realloc` always takes a new block. (Its comment, `mm.c:189-191`, says that a
smaller size returns the same pointer; the code does not.) `mm_check` is the
check of the source, which nobody calls there and `HeapIsRight` calls after
every request. `mm_realloc` copies up to the old block's size, header and
footer included, so that a larger new block receives eight bytes that were
never the caller's; the model copies them too. The loops of `find_fit` and
`mm_check` are functions of the number of steps that are left: a heap of
`MaxHeap` bytes has fewer than `MaxSteps` blocks, so that the bound never stops
a walk of a whole heap, which is proved (`FromCounts`, `BlocksAre`).

`RangeList` is the list of payload extents, `Driver` is `main` of `mdriver.c`
with its three passes. A step is a request of the trace; in the first pass it
is chosen, in the later ones replayed. The allocator's answer is a parameter,
so that `MmDriver` can put `mm.c` there and `AnyDriver` anything at all. The heap
is reset but not cleared between passes and traces, and starts with arbitrary
contents, so that `mm_init` meets what earlier traces left. `eval_mm_valid`
compares plain chars with `index & 0xFF`: `ReadsBack` is that comparison, and
block number 130 of the run one that can never pass it.

`Allocator` is the abstract specification: a set of live blocks with contents,
apart from one another, aligned and inside the heap; a request adds, moves or
removes one and leaves the contents of all others alone. `IsAllocator` maps the
heap's words and the driver's pointers to it.

### The tracer

`MemList` is `memlist.c`: a sorted list of counted items after a dummy element.
`MemTrace` is the wrappers of the three parts, `part` saying which. The C
library gives out any free address, may resize in place or elsewhere, and may
refuse. The program calls in any order and frees what it likes; it resizes only
what it may. The tracer asks the same library for memory, and checks nothing:
`alloc` writes through the element `callocp` answered with (`NoItem`,
`memlist.c:61-62`), and `new_list` may give no list at all, in which case every
search finds nothing and `fini` follows a null pointer. `lacks` says which of the
two the tracer was refused. A read of the item that the list did not find is a
crash.

Where the properties stop says what the tracer gets wrong: once a request of the
program was refused it has counted bytes nobody got and, after a refused
`realloc`, takes a live block for a freed one; an in-place `realloc` counts the
new size as freed; `free(NULL)`, which C allows, is reported as a double free
(the search begins at the dummy); `realloc(NULL, n)` crashes parts 2 and 3; the
wrapper of `calloc` multiplies without a check; a tracer without a list calls
every free illegal.

### Rio and Tiny

`Rio` is `rio_readinitb` and `rio_read`, for any caller: `read(2)` returns any
number of bytes (`Refill`) or is interrupted, a call hands over some. `Tiny` uses
that module (`rio!Refill`, `rio!rio_read`) under `rio_readlineb`, and its run
checks that it is used as `Rio` assumes (`ReaderIsRio`), so that what is proved
of `Rio` holds of the server's reader.

`Tiny` is `tiny.c` on its wrappers. `NoAddress`, `Socket`, `Bind` and `Listen`
are `open_listenfd`; `Accept` takes a client; `Read`, `ReadByte` and `Eof` read
lines; `GotLine` is what `doit` (`GotRequest`) and `read_requesthdrs`
(`GotHeader`) do with one. `sscanf` (`tiny.c:60`) fills as many of `method` and
`uri` as the line has words, and nobody looks at how many: the others keep what
the stack holds at their place, which may be the words of an earlier request,
its query cut off by `parse_uri` (`Cut`), or something else (`Junk`; `"?"` is a
method that is not GET). `before` remembers for each client who had been served
when it came. What `doit` decides becomes a list of calls (`todo`), and each
system call is a step: `WriteSome` (short writes, in the loop of `rio_writen`),
`Open`, `Mmap`, `CloseSrc`, `Munmap`, `Fork`, `Wait`, `Close`. The child is
`Execve`, `ExecveFails` and `Cgi` (`adder.c`). `CallFails` is the failure of the
next call for a reason of its own; every wrapper then ends the process. A client
that leaves may stop sending or close altogether; a write or a read of its
connection may then fail, or end the server with SIGPIPE. A client that stays
need not read: `write(2)` waits while the buffers between the two are full
(`room`), and only the client's reading (`Receive`) ends that, for tiny and for
the CGI program alike.

What this shows of the code: a client that stops in its headers leaves the
server in the loop of `tiny.c:105` for ever (`Spin`), or, at the first header,
comparing a buffer that was never written, which may hold the blank line of an
earlier request; a client that does not read keeps the server just as long; a
request line without a URI, or without any word, may be answered with what an
earlier client asked for; an empty file ends the server at `Mmap`, and so does a
file removed between `stat` and `Open`; a header longer than the buffer may be
cut so that its end looks like the blank line; a CGI program that cannot be run
sends the client what the server had printed but not flushed; `adder` without an
`&` writes through NULL.

### The kernel modules

`Ptree` is the write to `ptree/input` with one step per access to the shared
`curr` or `data`, and the steps of `dbfs_module_init` and `_exit`. The accesses
race: the compiled code may read `curr` again or use the value it had (`Seen`).
`Paddr` is the read of `paddr/output`, whose `task` is shared likewise. A
page-table entry is what the processor and the kernel lay down in it: a present
bit, the other flags, the frame number, the bits above; the word the code reads
is `pte_val` of that, and what the code tests is whether the word is zero.
`Kernel` lets the same processes make either call. A behaviour ends at the first
fault, and `FaultsHaveCauses` says what it can have been: another's unknown
process; a kernel thread, whose ancestors lead to the idle process and never to
init, so that the walk overruns `data`; an `input` file that is there before
`data` is, or after the initialisation has failed and its code is gone. (A call
that is running when the initialisation fails goes on in the model; its code is
freed under it, which is the last of these causes.)

What a read should answer is stated from the entry's fields, not from the code's
test: the frame's address when the present bit is set, and `-EINVAL` when it is
not. (A huge page has no table at one of its levels; the code takes it for a bad
entry and answers `-EINVAL`, and so does `IsAnswer`.) The code asks `pte_none`
only (`dbfs_paddr.c:76`), so that for a page that is swapped out, or that nobody
may touch (PROT_NONE), it answers with an address made of whatever the kernel
keeps in the entry. `IsAnswer` names that exception and no other.

## Runs

| Run | Question | States | Result |
|---|---|---|---|
| `goodcnt` | Are increments lost, how many, does the program end? | 231 000 | holds |
| `cache_users` | Is the list whole, LRU, never used after a free, with three threads at it? | 93 294 | holds |
| `proxy_caching` | What is served from the cache, and is everybody answered until a hit? | 271 302 | holds |
| `proxy_failures` | Descriptors, replies and headers when clients and origins fail | 147 440 | holds |
| `job_numbers` | Are job IDs distinct until `nextjid` wraps, free after a deletion? | 1 983 | holds |
| `shell` | Does the job list match the children, does the prompt come back? | 1 182 768 | holds |
| `allocator` | Is the heap whole after any requests, are the driver's verdicts right? | 350 000 | holds |
| `tracer` | Does the list say what is live, are bad frees told apart, what crashes the program? | 463 961 | holds |
| `tiny` | Is every request read whole and answered whole, is everyone served whom no client blocks? | 353 651 | holds |
| `kernel` | What can concurrent callers of the modules do to each other? | 2 129 417 | holds |
| `proxy_hit_hangs` | Is every request answered? | | no: the mutex is kept after a hit |
| `driver` | Do accepted payloads never overlap? | | no: an enclosing payload passes |

What the properties say, run by run. Some are conjunctions of named parts; the
parts are what to look at when one fails.

- `goodcnt`: `NeverBoom` (main prints OK), `NoLostUpdate`, `Terminates`;
  `RaceIsBounded` for badcnt: never more than the increments made, and at the
  end at least two if each thread made two.
- `cache_users`: `CacheIsWhole` (both directions of the list, its tail and its
  total agree, and the mutex has the one owner inside), `PointersAreValid`,
  `HitFreezesCache` (after the first hit nothing in the cache ever changes
  again, which is also why the entry a hit returns is never freed while it is
  read), `IsLruCache`.
- `proxy_caching`: `CacheIsFaithful` (what a hit serves is what an origin served
  earlier for that URI, as long), `AnsweredUntilAHit` (a silent origin blocks
  nobody else).
- `proxy_failures`: `DescriptorsAreOwn`, `DescriptorsAccounted` (exactly one
  descriptor stays open per forwarded request), `RepliesAreRight` (each byte a
  client gets is the byte at that place of the object it asked for, whoever
  fetched it; only behind the first NUL of a cached object it is what memory
  holds), `HeadersHaveCauses` (keys, unlike values, are never mixed up, and
  values only by two threads in the parser: one parser alone always continues
  in its own line, and finds NULL only where that line has nothing).
- `job_numbers`: `JidsAreDistinctUntilWrapped`, `DeletingFreesTheNext`.
- `shell`: `AtMostOneFG` (`tsh.c:35`), `ListIsOfChildren` (a job is listed
  exactly while its child is there to be waited for, and the handler finds the
  job of a stopped child), `StoppedJobsAreStopped`, `EveryChildIsReaped` (one
  SIGCHLD for many children leaves none behind), `BackgroundIsSpared` (ctrl-c
  kills no background job, even when the foreground job changes between the
  handler's look and its kill), `ForegroundReturns`.
- `allocator`: `HeapIsRight` (`mm_check` finds no fault, blocks tile the heap,
  footers equal headers, the free list's links agree both ways, exactly the
  trace's blocks are allocated, and freeing all leaves one free block),
  `BooksAreRight` (the range list is the live payloads; the utilization, taken
  at the end of its own pass, is at most one: the pass after it runs over a
  fresh heap; of the totals behind it no more is said),
  `ErrorsAreNotTheAllocators` (the driver's errors are a used-up heap or the
  signed comparison; a trace that passed is measured to the end), `IsAllocator`.
- `tracer`: `ListIsRight`, `BytesBalance` (allocated minus freed is live, but for
  blocks resized in place), `VerdictsAreRight` (a bad free never reaches the C
  library, the free of a live block is never reported), `CrashesAreMissingItems`
  (the only ways in which the tracer fails the program: an item the list does
  not have, one the C library refuses it, or no list at all).
- `tiny`: `ServerIsWhole` (nothing is left over from one connection to the
  next), `InOrder` and `ReaderIsRio` (what is read is the stream),
  `HeadersEndAtTheBlankLine`, `AnswersAreRight` (what reaches a client is a
  beginning of an answer to its request, and all of it when tiny closes; for the
  words that its request line does not have, `Meanings` says whose they may be:
  those of clients served before it, or junk),
  `PatientClientsAreSafe` (who stays and asks for a file that is there and not
  empty does not end the server), `ServedUnlessBlocked` (unless a client that
  does not finish its request, or does not read, keeps the server for ever,
  everyone who has sent a request is served).
- `kernel`: `FaultsHaveCauses`, `QuietDataIsATree` (of writes that no other
  overlapped: overlapped ones mix their walks), `TranslationIsRight` (the
  assertion of `app.c:43` for every process, page and offset; with reads at
  once, each is answered for its own process or for one that an overlapping
  read asked for, never with a mixture of two).

Shown by the model and not given a run: `bg` may overwrite the `ST` the
handler has just recorded, so that a stopped job is listed as running
(`tsh.c:369`); with the list full, a child that stops crashes the shell
(`tsh.c:415`), which is `ListIsOfChildren` with fewer slots than children;
`nextjid` goes back to 1 while job 1 may be alive, so that two jobs get one ID
(`tsh.c:512`), and may also grow past `MAXJOBS` without bound (`tsh.c:535`);
`waitfg` waits for ever for process 0 if the job ends while `fg` is at work
(`tsh.c:379`, named in `ForegroundReturns`); ctrl-c before the child's `setpgid`
ends the shell (`tsh.c:440`); two threads parsing headers at once mix up their
values (`proxy.c:109-110`, named in `HeadersHaveCauses`); a binary object is
cached up to its first zero byte (`cache.c:61`, named in `RepliesAreRight`); a
header without a value ends the proxy (`proxy.c:109-110`, named in
`HeadersHaveCauses`); a request line with fewer than two words is answered with
an earlier client's (`tiny.c:60`, named in `AnswersAreRight`); a page that is not
present is given an address (`dbfs_paddr.c:76`, named in `TranslationIsRight`).

### Bounds

- `goodcnt`: two threads, as in the programs, three iterations each: one more
  than the two that `RaceIsBounded` speaks of, so that an old value can undo
  more than one increment.
- `cache_users`: three threads, two keys, three addresses, objects of up to two
  units and a cache of three: a list of three entries (so that an entry is
  moved from the front, the middle and the rear), evictions of one and of
  several entries, addresses reused after a free, and lists with one key twice.
- Proxy: two connections, three for `proxy_hit_hangs` (one to fill the cache,
  one to hit, one to wait). A unit of length is 4096 bytes; `MAXLINE` is two
  units and `MAX_OBJECT_SIZE` three, so that objects of one block, of two and
  of too many occur, at the limit and past it. `cache.h` has a cache the size
  of one largest object; the instances add a unit so that two small ones fit.
  `MAXFD` is 5 in `proxy_failures`, low enough for `Accept` and `Open_clientfd`
  to fail; one of its objects is binary, with a NUL after its first byte, and its
  clients send headers with a value, without one and without a key, and may stop
  or close in the middle. Two threads alone do not make the cache evict under a
  hit or relink a middle entry; that is what `cache_users` has three for.
- `job_numbers`: four slots is the least with which a jid can repeat, and five
  processes fill them; `MaxJid` stops additions once `nextjid` is past 7.
- `shell`: two children and two slots, two keystrokes; `MaxJid` stops new jobs
  once `nextjid` is past 2, which leaves room for one reuse of a slot and of a
  process ID. The shell has one foreground job at a time, so that a second
  child is enough to be in its way.
- `allocator`: a heap of 120 bytes and chunks of 32 (`MaxHeap`, `ChunkSize`):
  three blocks side by side, so that a block is freed with free neighbours on
  both sides, blocks that are split and that are not, and a heap that is used
  up. Two traces (`NumTraces`) of five requests together (`MaxOps`), one run for
  the clock (`Rounds`). Sizes of 4, 12 and 28 bytes are one, and less and more
  than a smallest block.
- `driver`: two blocks of 4 and 16 bytes in 32: the second encloses the first.
- `tracer`: three addresses, four requests (`MaxCalls`), sizes of 1 and 3 below a
  `size_t` of 8 (`SizeRange`), so that 3 times 3 overflows; `Below` lets a count
  go one below zero. The C library may refuse any request of the program, the
  tracer's list, and any of its items.
- `tiny`: a client that sends every kind of request and may leave (`MayLeave`),
  and one that waits behind it and then sends another method, or an empty line,
  which has neither method nor URI and so is answered with the first one's, or
  with junk; the first may send a line of one word. A byte stands for a run of
  bytes that are read together. `MAXLINE` 4 holds a header of two bytes and cuts
  one of four, `RIO_BUFSIZE` 2 makes lines cross a refill; `MaxAddrs` 2
  addresses to bind. One file may be removed (`Removable`).
- `kernel`: two callers, three calls together (`MaxCalls`), a process tree with
  init, two children and a kernel thread, an unknown process; pages of four
  addresses that are present, missing, huge and swapped out, the present one
  with flag bits and a bit above the mask. `DataSize` is two lines, the depth of
  the tree: two turns of the loop, enough to put lines in a wrong order or to
  mix two walks. What it does to deeper trees is proved (`DataIsATree`).

Threads, addresses, process IDs and callers are symmetric in the runs without
liveness. Deadlock is checked where the program cannot stop or its end is a
state of its own (`Ended`); the other configurations are of programs that end
or wait for ever.

### Fairness

The operating system schedules threads and processes that can run; nothing
else is assumed. `GoodCnt`: weak fairness of each thread and of `main`.
`Proxy`: weak fairness of the process's own steps together, with the runs'
finite number of requests; clients need not connect, send or stay. A write to a
client that does not read would block that client's own thread only, and is not
modelled there. `Shell`:
weak fairness of the shell's own steps, which include the delivery of a pending
signal; the user need not type and the children need not do anything. `Tiny`:
weak fairness of the server and of its CGI child, each one sequential process;
clients need not send, stay or read.

## Proofs

The theorems hold for every value of the constants that satisfies the named
assumptions: any number of threads, clients, callers, keys, slots and
addresses, any sizes and limits. Each proof module states its inductive
invariant, one lemma per action, and the theorems at its end.

`CountersProofs`: for every `niters`, mutual exclusion, that `main` of goodcnt
prints OK (`ResultIsRight`) and that every step refines `AtomicCounter`
(`EveryStepAddsOnce`). The inductive invariant adds to the type invariant that
the semaphore is 1 exactly when no thread is between `P` and `V`, that a loaded
register is still equal to `cnt`, and that `cnt` is the sum of the increments
stored. For badcnt, `ResultIsBounded`: `RaceIsBounded`. The upper bound is easy:
neither `cnt` nor a register exceeds the stores made. The lower bound is not
inductive: that `cnt` is below two only while some thread has made at most one
store (`AtLeast`) needs that a thread past its first store has loaded at least
one, so that what it stores next is at least two.

`ProxyProofs` begins with the cache: `CacheInv`, one lemma per action, and what
is proved of the closed system `CacheUsers`:

- `Exclusion`: `[]MutexIsOwned`, a part of `CacheIsWhole`;
- `WholeCache`: all of `CacheIsWhole`;
- `NoUseAfterFree`: `[]PointersAreValid`;
- `HitIsTheLast`: `HitFreezesCache`;
- `CacheIsLru`: the refinement `IsLruCache`.

`MutexIsOwned` is nearly inductive by itself. `PointersAreValid` is not: that
`curr` still points to a live entry needs the links between live entries to lead
to live entries, and that the only action that frees (`EvictTail`) is taken by
the owner of the mutex, while a thread with a pointer owns it too. `CacheInv` is
the conjunction of these. `SizeInv` adds that the live entries can be numbered
from the head to the tail and that `cache_size` is the sum of their sizes,
whatever is evicted or inserted. `WholeCache` reads `ListIsWhole` from it:
`Nodes`, the recursive function that follows the `next` pointers, exists and
visits the entries by their numbers (`NodesAre`, `NodesAreNumbered`), and the
community modules' fold sums the sizes in any order (`SumExists`, `SumStep`).
Both are inductions over data; instead of the library's induction theorems,
whose operator parameters no prover here instantiates, each takes the least
counterexample (`LeastNatural`).

`CacheIsLru` compares sequences. A chain of `next` pointers from the head is the
list (`ChainOfList`), so that the list after a step is found by naming the chain
it should be: with one entry moved to the front (`HitTouches`), without the last
(`EvictDrops`), with a new first (`LinkPuts`). Every other step stutters
(`OthersStutter`). The guard of the abstract drop and put speaks of the sum over
the sequence, which is `cache_size` (`TotalIs`). That a hit takes the first entry
with its key is not true of a step alone: `Passed` says that the entries a walk
has left behind do not have it, which holds because nobody else moves an entry
while the walk owns the mutex.

It goes on with all five safety invariants of the proxy's runs, from the cache's
lemmas and:

- `NetInv`: each open descriptor is the one descriptor of the connection it is
  open on, wherever `main` and the threads keep it. From it `OwnDescriptors`
  (`DescriptorsAreOwn`) and `DescriptorsLeak` (`DescriptorsAccounted`). Neither
  is inductive: that a thread's `connfd` is its own needs that the cell `main`
  hands over is given to one thread only, and is not reused before that thread
  has read it.
- `BytesInv`, `EntryInv` and `HitInv`: which bytes a thread has in its block, in
  its copy and has written, byte by byte; that a live entry's value is the
  beginning of the object under its key, up to the first NUL; and what is written
  from it. From them `RightReplies` (`RepliesAreRight`) and `FaithfulCache`
  (`CacheIsFaithful`): a hit serves what an origin served to a thread that has
  inserted it, because a body is finished when it is inserted and an entry's key
  and value never change while it is live. `RepliesAreRight` is not inductive: it
  needs that an origin's connection yields the bytes of the object the thread
  asked it for, in order (`origin`'s `of` and `at`), that the block just read
  continues what was written, and that the key under which a thread inserts is
  the URI it sent.
- `HeaderInv`, inductive relative to `NetInv`, follows the headers a thread has
  kept line by line through `strtok`'s shared position. From it `HeadersArrive`
  (`HeadersHaveCauses`), for any headers, those without a value or a key
  included: the parser dies of them, but hands on nothing wrong. `Kept`, the
  headers the code would keep of a client's, is a recursive function; that it
  grows by one line at a time is proved by the least counterexample (`KeptIs`,
  `KeptGrows`).

`DescriptorsLeak` counts and `HeadersArrive` speaks of two threads at once: both
assume that the set of threads is finite, which TLC's instances are and a
process's threads are. `WholeCache` assumes the same of the addresses, and so
does `CacheIsLru`.

`ShellProofs` is about the job list and the shell on it. `JidsStayDistinct` and
`DeletingFrees` are the two properties of the run `job_numbers`, for every
`MAXJOBS`. The invariant `JidInv` adds that the job IDs have an upper bound.
Without it `maxjid` need not have a value: its `CHOOSE` stands for the loop of
`maxjid` only because a finite list has a largest job ID (`MaxjidIsLargest`),
which follows from the least-number principle applied to the upper bounds. The
shell's safety invariants follow from `ShellInv`: `OneForeground`,
`StoppedAreStopped`, `ChildrenAreReaped`, `BackgroundSurvives` and
`ListOfChildren`. It relates each child to its job: which handlers may be
running on top of which step, what the frames on the stack still hold of a job
or process that may be gone, that SIGCHLD is pending or its handler running
while a child is there to be waited for or a stop unseen, and that only the
locals of the main loop name the job it is about to change. `ListOfChildren`
assumes no more processes than slots (`tsh.c:415` crashes otherwise); the other
theorems need no such bound.

`KernelProofs` proves the kernel run's three properties: `Faults`
(`FaultsHaveCauses`), `DataIsATree` (`QuietDataIsATree`) and `Translation`
(`TranslationIsRight`). Its invariants say what the shared globals can hold
between two accesses of a caller: `task` is the process of one of the reads that
are under way, and a reader's own copy that of its own or of one that began
meanwhile (`met`). `Translation` then needs the arithmetic of the word: that
clearing the offset bits and masking gives the frame's address
(`PhysicalIsRight`), for any page size and any mask that is a multiple of it,
and that a present entry's word is not zero (`WalkIsRight`). Proving `Faults`
found a cause that the property did not name: `paddr` dereferences the null `mm`
of a kernel thread not only when it is asked for one, but also when one caller's
`task` was replaced by another's, whose process is a kernel thread. Two callers
do not reach it within the bound of the run; the property now names it.

`RioProofs` proves, for every buffer size and every stream, `DeliversInOrder`:
the bytes handed over and the unread rest of the buffer are the stream's
beginning. The invariant adds the bounds of `rio_cnt` and `rio_bufptr`, so that
what is copied lies inside the buffer.

`TinyProofs` proves all of the run `tiny` but its liveness, for any clients and
requests, files and sizes of files, and sizes of the line and of Rio's buffer.
`TinyUsesRio` (`ReaderIsRio`): each step of tiny is a step of Rio on what the
client has sent, or leaves the reader alone. By it the invariant of `RioProofs`,
taken with `INSTANCE`, holds of tiny's reader, and with it `TinyReadsInOrder`
(`InOrder`). `HeadersAreRead` (`HeadersEndAtTheBlankLine`) needs `Lines`: the
line being read is the end of the bytes read, holds no newline, and begins after
one, and no blank line was passed; a line that is cut would break this, and
fitting lines are not. `TinyIsWhole` (`ServerIsWhole`), `TinyAnswersRight`
(`AnswersAreRight`) and `TinyIsPatient` (`PatientClientsAreSafe`) need `Stage`:
the calls that `doit` has left to make tell what has been written, which
descriptors and mappings are open, and where the CGI program is. A write that is
short leaves a stage inside a body; a client that has closed has received less
than was written (`Told`). What `doit` decided stays right because files only go
and failures are only added (`Onward`). `Understood` says what `method` and
`uri` hold: outside a request, words of the clients served so far, a URI perhaps
without its query, or junk; inside one, the request line's own words, and the
former for those it does not have. Since `before` is fixed when a client is
accepted, this is `Meanings`, of which `AnswersAreRight` speaks.

`MemTraceProofs` proves the four properties of the tracer's run: `RightList`
(`ListIsRight`), `TrueVerdicts` (`VerdictsAreRight`), `MissingItems`
(`CrashesAreMissingItems`) and `BalancedBytes` (`BytesBalance`). What `alloc` and
`dealloc` do to a list is stated once, for lists in order of addresses
(`AllocIs`, `DeallocIs`), and then in terms of the blocks the C library has
(`AllocBooks`, `DeallocBooks`). The invariant `TraceInv` adds to the properties
that every live block has an item, whatever the program was refused, while the
tracer was refused nothing and has not failed (`ListBooks`); and that until the
program is refused, and while it runs, each item is right about its address:
counted once with the block's size, or not at all, and the item that NULL may
get has no bytes. Without the part about NULL the bytes of `realloc` would not
balance. For `MissingItems` it adds that an item is refused only in the call in
which the process fails, so that a crash in any later call has another cause.

`MallocProofs` proves what the `allocator` run checks, for every heap, chunk
size and trace: `HeapRight` (`HeapIsRight`), `BooksRight` (`BooksAreRight`),
`ErrorsRight` (`ErrorsAreNotTheAllocators`) and the refinement
`ImplementsAllocator` (`IsAllocator`). The heap is a chain of blocks of any
length, and nothing is proved by following it. The argument goes by shapes:

1. A shape is what the tags and the links spell: the set of blocks with their
   sizes, the free ones, and a rank for each free block. `Tiled` says that each
   block begins where one other ends, `Linked` that the links of a free block
   are its neighbours in rank. Both speak of adjacent blocks only, so that an
   operation disturbs them in a few places. `Shaped(h, S, T)` says that the heap
   `h` has the shape `S`, but that the blocks of `T` are tagged free: inside
   `mm_free` and `place` they are more than those on the list.
2. Each function of `mm.c` has a double on shapes (`Inserted`, `Removed`,
   `Merged`, `Split`, `Extended`, then `Coalesced`, `Placed`, `Malloced`,
   `Freed`, `Realloced`), and a lemma says that the function does to the words
   what its double does to the shape, and leaves the other payloads alone.
   `Rested` adds what holds between two calls: no two free blocks meet.
3. The walks of `find_fit` and `mm_check` take the steps of a rank or of the
   addresses, which are fewer than their bound.
4. `Holds` relates a heap to the books of the driver: the used blocks are those
   of the table, each large enough for its payload. What `mm.c` answers depends
   on the shape alone, and the trace is legal, so that `Plays` names the shape
   and the block table after each request of a trace: replaying it leads there
   again, whatever the heap held before `mm_init` (`NextInStep`). That is why
   the second and the third pass need no check of their own.
5. The inductive invariant `IInv` is that: types and bounds (`Sound`), the heap
   and the table where the trace leads (`InPass`), and in the first two passes
   the ranges, fill bytes and totals that the driver counts (`InCheck`,
   `InMeasure`). None of the properties is inductive by itself: `HeapIsRight`
   does not say that a payload fits into its block, so that filling it might
   overwrite the next header; `BooksAreRight` says nothing of the sizes that
   `remove_range` is not given; and that no later pass finds an error needs the
   whole trace to have been played once. `IInv` speaks of a history of any
   length (`\E hist`), so that TLC cannot evaluate it; the run checks what it
   implies.

`AcceptedPayloadsNest` is of the driver around any allocator at all, for every
heap, every trace and whatever is answered: what the overlap check does ensure
is that two accepted payloads that meet do so with one strictly inside the other.

The assumptions are the named ones of the modules: `niters` is a natural number
(`NitersAssumption`); a null pointer is no address and "no thread" no thread,
and each object has a number of bytes before its first zero byte
(`CacheAssumption`); the empty URI is a key and the null pointer none
(`ParseAssumption`); headers are records of a key and a value, either of which
may be missing, and there are at least three descriptors (`ProxyAssumption`:
with fewer the listening descriptor could not be opened); the list has at least
one slot and 0 and -1 are no process IDs; every process has a parent and the
null pointer is no process (`PtreeAssumption`); the mask is a whole number of
pages, a page-table entry has its fields where the processor looks for them, and
a present one has some flag, the present bit itself (`PaddrAssumption`); sizes
are positive and of whole words (`DriverAssumption`), the heap is a multiple of
eight bytes (`MaxHeapAssumption`: `MAX_HEAP` is 20 MB), and so is a chunk, which
is at least one smallest block (`ChunkSizeAssumption`: `CHUNKSIZE` is 4096; with
a smaller one `mm_init` would make a block that has no room for its links); the
tracer's addresses are finitely many and not null, and the sizes requested are
those of a `size_t` (`MemTraceAssumption`). A request to tiny is not empty and
begins with a request line, which has two words that matter or fewer, the sizes
of files are natural numbers, and Rio's buffer is not empty (`TinyAssumption`;
`RioProofs` states the last one itself). TLC evaluates them on every run.

Only model-checked:

- liveness (`Terminates`, `AnsweredUntilAHit`, `ForegroundReturns`,
  `ServedUnlessBlocked`), and the fairness that `NoLostUpdate` asks for besides
  the steps that `EveryStepAddsOnce` proves: fairness and ENABLED are out of the
  prover's reach.

## Plan

Done: every component of the inventory but the timing code and HW5, with the
abstract specifications `AtomicCounter`, `LruCache`, `Allocator` and `Rio` (as
the reader of `Tiny`), and the proofs above.

What is worth doing next, in this order:

1. The run over the C library's `malloc` in `mdriver` (option `-l`).
2. The shell with process groups of several processes (`mysplit.c`).

## Not modelled

- The text of requests, command lines and output (`parseline`, `get_filetype`,
  the log of the tracer, the driver's tables): properties are not about it.
- Sizes beyond the limits of an `int` (`proxy.c:198`), reads past `buf`, and what
  the bytes behind the end of a truncated cached value are: `Beyond` stands for
  any that are not the object's.
- `parse_uri` on an empty URI, which looks at the byte before it: a URI that
  `sscanf` has written has at least one, and `Junk` stands for what is there when
  it has not. Words longer than their buffers, and a `method` or `uri` that
  junk has overwritten in part.
- The shell's process groups with several processes (`mysplit.c`), SIGQUIT and
  the listing of jobs. The terminal's delivery of a key to the shell's whole
  group: the driver, `sdriver.pl`, signals the shell alone.
- `cache_free` and `mem_deinit`: the first is after a loop without end, the
  second is never called.
- `mdriver`'s options, its passes over the C library's `malloc`, and how `fsecs`,
  `fcyc` and `clock.c` measure: they count cycles and repeat a call, and their
  control depends on nothing but the clock.
- The loading and unloading of paddr (a directory and a file), failing copies
  from and to user space, failing `kmalloc`, and a process that ends while it is
  walked.
- The wrappers of `csapp.c` that no program here calls. `csapp.c` is the same
  text in `proxylab-handout` and in `tiny`; the copies of labs 1, 2 and 3 that
  were handed in, of HW5's and the semaphores' `csapp.c`, are not mapped a
  second time.
- HW5: programs of a few straight lines around `open`, `dup2` and `fork`.
