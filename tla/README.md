# Verification of wasm-profiling

The repository measures three WebAssembly interpreters (WAMR, wasm3, wasmi) on an
STM32L4 board: execution time, stack, heap and code size of one benchmark at a
time. It has three sibling trees, `src/wamr`, `src/wasm3` and `src/wasmi`, each
with firmware (`stm32/src`, `stm32/l4`) and a host script
(`stm32/run-benches.py`). The interpreters, libopencm3 and newlib are git
submodules or dependencies and not part of the repository; what the models need
of them is written down below as *external*.

A number in the resulting csv is right only if a chain of parts is right: the
linker wrappers that trace the heap, the packets on the ITM port, the replay on
the host, the marking of the stack, the lines on the serial port, and the script
that runs everything twice per benchmark and files the numbers. These modules
model that chain.

## 1. Inventory

| Part | Code | State | Operations | Interacts with | Hard behaviour | What makes it correct |
|---|---|---|---|---|---|---|
| Heap tracing wrappers | `main.c` `__wrap_*`, `l4/init.c` `trace_buffer` | the heap, the packets sent | malloc, calloc (wasm3), realloc, free | C library below, interpreter above, ITM port | failures, NULL, zero and wrapped sizes, order of packet and call | one packet per call, from which the heap can be reconstructed |
| Allocator front ends | `platform_api_vmcore.c`, `lib.rs` `CAllocator` | none | os_malloc ... os_mremap; alloc, dealloc, realloc | wrappers | corner cases of mmap and mremap | nothing bypasses the wrappers |
| Heap replay | `run-benches.py` `get_heap` | dict, total, peak | one step per packet | ITM bytes | moved blocks, lost or mangled packets | returns the true peak, raises nothing on a sound capture |
| Campaign | `run-benches.py` `main` and the workers | loop variables, pool, gdb, csv | build, flash, start, await, next, write | board, OpenOCD socket, serial port, gdb | exceptions, timeouts, gdb errors nobody reads, lost lines, bytes of an earlier run, hangs | every row belongs to its benchmark; the campaign ends |
| Firmware main program | `post_main`, `run_bench`, `wasm_interp` | what the library has made, lines printed | load, instantiate, call twice, release, print | interpreter, both ports | unchecked results, early returns, hangs | rows only of successful runs; everything released |
| Stack measurement | `mark_stack`, `count_stack` | markers in RAM | mark, count | benchmark's frames, heap | gaps, stale markers, heap and stack meeting | reported depth is the true depth |
| WASI calls (WAMR) | `main.c` `fd_write`, `fd_seek`, `fd_fdstat_get`, `fd_close`, `proc_exit` | converted table, result parameters | check, convert, write, free; seek; exit | guest memory, `_write`, `lseek` | bad buffer in the middle, short writes, negative offsets | without NUL complete output or none; no leak; a result exactly when the call says so; returns |
| Standard output | `l4/init.c` `_write` | none | write | USART | NUL characters | len characters are written |
| Standard input | `l4/init.c` `_read`, `get_buffered_line` | ring, two indices | edit, enter, read | USART | indices that wrap | reads return what was entered |
| Clock | `sys_tick_handler`, `_times`, time wrappers, printed delays | millisecond counter, `start`, `start_msecs`, `stop_msecs` | tick, read, print | runner, benchmark | 32-bit products that wrap, the counter itself | delays are the elapsed time, and the benchmark's own times agree with them |
| SWO framing | `SWOReader.readinto`, first half of `get_heap` | the socket, a frame, the line read | read a frame, a line | OpenOCD, ITM, killed workers, resets | loss of synchronisation, end of file, two traces in one stream | one whole trace is replayed |

Hardware set-up, build files, the header generator, results and the F4 port (an
older copy for another board that the build does not use) are not modelled:
they have no control flow a property could be about.

`PROJECT.json` lists the hazards, each at the line where it bites and with the
properties that watch it.

## 2. Modules

| Module | Models | Uses |
|---|---|---|
| `AllocTrace` | wrappers and allocator front ends, the device side of the heap measurement | |
| `HeapReplay` | `get_heap()`, second half | |
| `HeapProfile` | the two composed over a reliable stream | both, `HeapMeter` |
| `HeapMeter` | abstract: allocate, resize, release, report the highest value | |
| `MCHeapProfile` | symmetry of addresses for TLC | `HeapProfile` |
| `HeapProfileProofs` | the proofs about `HeapProfile` | `HeapProfile`, TLAPS |
| `HeapCapture` | `get_heap()` on any capture at all | `HeapReplay` |
| `HeapCaptureProofs` | the proof about `HeapCapture`, and what `SumFunction` sums | `HeapCapture`, TLAPS |
| `Board` | what the host can tell of one run of the firmware | |
| `Firmware` | `post_main()` and the three runners in detail; implements `Board` | `Board` |
| `Harness` | the campaign: `main()`, its two workers, gdb, board | `Board` |
| `HarnessProofs` | the proofs about `Harness` | `Harness`, TLAPS |
| `StackMark` | `mark_stack()`, the run, `count_stack()` | |
| `MainProofs` | the proofs about `main.c`: `StackMark` and `Firmware`, with its refinement of `Board` | both, TLAPS |
| `WasiWrite` | `fd_write()`, `wasmtime_ssp_fd_write()`, `_write()` | |
| `WasiCalls` | all WASI calls of the WAMR firmware | `WasiWrite` |
| `WasiProofs` | the proofs about `WasiCalls` and so about `WasiWrite` | `WasiCalls`, TLAPS |
| `Clock` | counter, `clock()`, delays, timers | |
| `ClockProofs` | the proofs about `Clock` | `Clock`, TLAPS |
| `SwoLink` | the ITM link byte by byte, and what `get_heap()` cuts out of it | |
| `SwoLinkProofs` | the proofs about `SwoLink` | `SwoLink`, TLAPS |
| `LineBuffer` | `_read()`, `get_buffered_line()` | |
| `LineBufferProofs` | the proofs about `LineBuffer` | `LineBuffer`, TLAPS |

Operators named "Mutant of X" are variants of X with a plausible bug. They are
not part of any specification; they document which mistake a property catches.

### Heap: AllocTrace, HeapReplay, HeapProfile

`build` selects which calls reach the wrappers: `WamrNext` (through the platform
layer), `Wasm3Next` (with calloc, the only build that wraps it), `WasmiNext`
(through `CAllocator`). Each of `Malloc`, `Calloc`, `Realloc`, `Free` is the whole
wrapper: the library call with every outcome it may have, and its packet.
`heap` is the truth; `used`, `high` and `seen` are histories. The host variables
`memmap`, `total`, `peak` are those of `get_heap()`; one action replays one packet.
The union in the packet is one record whose unused fields are never read.

External: the C library returns NULL or memory that overlaps no live block; a
realloc that returns NULL has failed and left the old block (full newlib, where
`realloc(p, 0)` does not free). The buffers newlib itself allocates for stdio go
through `_malloc_r` and are outside what the wrappers can see; "peak" is about
what the program asks for. wamr and wasmi do not wrap calloc; neither calls it
in the code of this repository.

### Campaign: Harness, Board, Firmware

`Harness` has one action per blocking step of `main()`. `heapJob` and `measJob` are
the two workers; they end with a result or an exception. What the board sends is
cut into tokens carrying the run they come from (READY, PACKETS, DONE on the ITM
socket; one token per test on the serial port), so that a row can be compared
with the run it came from. `GdbTimeoutError` and `UnicodeDecodeError` are
`ValueError`s, so they are caught by the `except` clause; all other exceptions end
`main()`. The `finally` clause calls `exit()` on `gdbc`, which is None when building
or flashing failed: that raises again, and the action is `Abort`.

gdb is external. The `write()` of pygdbmi raises an exception only when gdb does not
answer in time; an answer that is an error is returned, and neither `flash_bin()`
nor `start_bin()` looks at it. So each of the two has three outcomes: what it was
written for; a refused command, after which it goes on as if nothing had happened
(`Refuses`), with the board in any of the `Mishaps` (untouched, old or new firmware,
stopped, running or dead), or not started; and the timeout. `refused` is the history of
the benchmarks for which that has happened. When gdb does its work again for a later
benchmark nothing of it must be left.

A line of a trace may be damaged by lost bytes (`SwoLink` says how), or missing
with the whole rest when OpenOCD closes the socket, which `readinto()` does not
notice. A damaged line is no "trace ready!" and no "TRACE_DONE", and `get_heap()` reads
on, for ever if nothing else comes. `lost` is the history that this has happened
to the very line this `get_heap()` was waiting for. Packets that are damaged, or
followed by a damaged line, are replayed to some number or raise (`HeapCapture`
says what they do to it).

The numbers of one test are taken to be printed together with "END OF TEST";
a text cut in two by flashing the board in the few microseconds between the
stack line and that line is not modelled.

`Firmware` justifies `Board`: each interpreter's runner is a list of steps, each
with what its failure does, and the refinement mapping shows only the two ports.
A step of a list makes, checks, copies, prints or releases something. The
properties compare the order in which a step makes and a later one releases with
the order of the lists, so a list that is wrong fails them. `WamrHook`
is the module hook with which two benchmarks get their input; the same hooks of
wasm3 (`*(int32_t)args[0] = ...`, `benchmarks.c:448` and `:492`) dereference an
integer, so these two builds of wasm3 do not compile and are no states of the
model. `RegisterWasi` is `register_wasi()`.

External: once a step has failed, later steps that depend on it do not succeed
(they fail or never come back).

### StackMark, WasiWrite, WasiCalls, LineBuffer

`StackMark` counts words, not bytes. (Its `Init`, `Next`, `Spec`, `TypeOK` are called
`StackInit`, `StackNext`, `StackSpec`, `StackTypeOK`, for `MainProofs` to have them beside
those of `Firmware`.) At reset RAM holds any markers at all. A
call opens a frame of which the lowest word and any others are written; the heap
grows from below. `_sbrk` is external and stops at the stack pointer.

`WasiWrite` cuts characters to NUL, newline and others; guest address checks
have either outcome. `LineBuffer` cuts typed characters to those the code tells
apart, and `screen` and `entered` record what the user sees and has finished.
(As it stands `usart_setup()` enables only the transmitter of the port, so
nothing reaches `_read()` until that is changed; no part of the firmware reads.)

`WasiCalls` makes the choice of the function part of the initial state; fd_write
takes the steps of `WasiWrite`, the four others are single steps with their
result, their line on the serial port and their result parameter. `lseek` is the
stub of the C library and may return an offset, 0 or -1; printf is one token.

### Clock

`now` is the true time in milliseconds and exists only for the properties. The
constants are those of the build: `Word` 2^32, `Second` 1000 and CLOCKS_PER_SEC
100, which is newlib's value for ARM (external), so one tick of `clock()` is
10 ms. `second` says what the second delay of a firmware is: measured, not there
(HEAP_TRACE), or wasmi's copy of the first one. The four timer functions are
those of `env` in wamr and of `m3_LinkRawFunction` in wasm3; `get_time` and
`get_milsecs` are operators because they change nothing.

### SwoLink

`HeapCapture` allows any damage to packets; `SwoLink` asks which damage the link
can do. A byte that the firmware sends is put on `wire` as a header and a payload,
and each may be lost. What is on the wire also says of which run it is and of
which place in the run's text (`run`, `index`): two histories that no reader looks
at and that the proofs need to say which byte comes next. `need` and `payload` are the two loops of `readinto()`;
`heap` is `get_heap()`, whose BufferedReader is fed frame by frame. "trace ready!"
and "TRACE_DONE" are cut to one letter and the newline; data bytes are 1, 2, 3
(which `readinto()` would take for headers) and the newline. `Reset` is the download
of the next firmware, `NewWorker` the end of a pool; both may come at any byte, and
in either order a new worker may read what an old firmware sends.
`Close` is external: OpenOCD ends and `recv()` returns nothing from then on. What
then happens is the loop of lines 36 and 37, which changes nothing, so it is the
absence of `Receive` in the model. (The other loop, 45 and 46, behaves the same.)

## 3. Runs

| Run | Question | Bounds |
|---|---|---|
| `heap_profile` | is the reported peak the true one; does the measurement implement `HeapMeter` | 2 addresses, sizes 0..2 in a `size_t` of 3 values, 4 packets |
| `heap_capture` | what does a damaged capture do to the total | 2 addresses, 2 sizes, 3 packets, all captures |
| `firmware` | which lines and which releases on every path; does it implement `Board` | none: the model is finite |
| `stack_mark` | when is the stack depth right | 8 words, 2 skipped, 2 markers instead of 8, 3 calls, any initial RAM |
| `harness` | whose numbers are in a row; does `main()` wait in vain; can it go round or stop early | 2 benchmarks (4 runs), gdb refuses commands of the first |
| `wasi_calls` | is output complete, are errors clean, is a result there when it should be, does it return | 2 buffers of up to 3 characters |
| `clock` | when are delays and timers right | 24 ms, counter of 20, 3 ms to a tick, product of 20 |
| `swo_link` | what does `get_heap()` get through the link; does it end | 2 runs, 2 data bytes each, 1 lost byte, 2 bytes on the wire |
| `line_buffer` | do the ring, the screen and reads agree before the wrap | ring of 5, 8 characters typed |
| `wasi_write_len`, `line_buffer_wrap`, `line_buffer_word` | comments the code does not keep, see below | as above |

Why the bounds are enough to be interesting: with four packets a block can be
allocated, moved onto a freed address, fail to move and be freed, and calloc
wraps (2 * 2 mod 3); two benchmarks are needed for a late byte of one to reach
the row of the next, and a benchmark has two runs; gdb refuses commands of the
first benchmark only (`MaxRefused`), so that the second shows what it leaves
behind (the proofs are for any); a ring of 5 fills (4
characters) and goes round within 8 characters; in `clock` the product of a
reading (ticks 0..6 times 6) wraps at the fourth tick and the counter itself at
20 ms, both inside the 24 ms; in `swo_link` two runs are needed for a worker to
find the rest of an old trace, two data bytes for the wrong header 3 to swallow a
letter of the text that follows, and one wire byte more changes no verdict (it
was tried with 3); 8 words hold a stack with a gap,
a heap and the skipped words, in all orders.

Deadlock is not checked: every model stops when its work is done (`returned`,
`aborted`, `finished`, `done`) or at its bound.

### What the runs show

- `ReplayFollowsDevice`, `PeakExact`, `ReplaySucceeds`: after any number of packets
  the dict is the heap the device had then; the result is the true peak; nothing
  the wrappers send makes the replay raise.
- `TotalCoversDict`: on a damaged capture the total is never too low for the
  dict, and is too high only after a realloc to another address, where the
  script does not check that the address is unused.
- `RowsFaithful`: unless a pool was torn down while its board still had something
  to say (`torn`), every row has the sizes of its own benchmark, and the times and
  heap of its own benchmark if gdb has refused no command for it. Both conditions
  are needed. `start_bin()` may time out after the board has started, and the
  READY ... DONE it then sends is read by the next run's `get_heap()`; and after a
  refused download the old firmware runs and is filed under the new name, which
  nothing in the script notices. What the property excludes is that this goes
  beyond the benchmark it happens in, and that damaged lines do more than falsify
  the heap of their own row.
- `TimesOfOwnBenchmark` holds even after such a teardown, under the condition on gdb
  alone: a board that is programmed and a serial port that is opened anew leave no
  way for the times of another benchmark.
- `OneDebugger`: gdb processes do not pile up from run to run.
- `NeverWaitsInVain`: while `main()` waits for `get_heap()`, the lines it waits for are
  in the socket or the board has still to send them, unless it is one of these
  three. It rules out that a teardown, a late answer or a worker of another run
  consumes a line that is then missing, and that losing any other line, or
  packets, has this effect.
- `AlwaysLessLeft`: every step of `main()`, workers and board leaves less to be done
  (`Left`), so no loop between them goes round for ever, whatever fails.
- `StopsAtEnd`: where no step of main(), workers and board is left, the campaign is at
  its end, or waits in a tracing run for `get_heap()`, which has no timeout, after the
  board has hung, gdb has refused a command or the line `get_heap()` needs was lost
  (a closed socket loses them all). With `AlwaysLessLeft` this is termination: a
  behaviour cannot go on for ever and can stop only there.
- `RowMeansSuccess`: a row is recorded only after a run in which every step
  succeeded, except for wasm3, whose `post_main()` drops the error; such a row
  has no second delay (-1 in the csv).
- `ReleasedInOrder`, `SuccessReleasesAll`: whenever something is live so is all that
  was made before it, so resources go in reverse order; and all of them go
  exactly when the run succeeded.
- `NeverTooMuch`, `NeverTooLittle`: the stack depth is exact when the stack has no
  gap of 8 unwritten words and 8 marked words remain above the heap; a shallow
  stack is reported as deep as the 0x100 words `mark_stack()` skips.
- `OutputFaithful`, `FailsCleanly`, `TableFreed`, `Returns`: `fd_write` sends
  nothing if it returns an error, and otherwise, if there is no NUL in the
  buffers, everything once and in order; it frees its table on every path, and
  returns unless a buffer begins with NUL. (With a NUL further on, what precedes
  it is sent again and again until `written` has reached the length of the buffer:
  neither everything nor nothing, and the count is wrong. `OutputFaithful` leaves
  these buffers out.)
- `ToldWhatHappened`: a WASI call that returns to the benchmark returns 0 exactly
  if it has assigned its result; proc_exit does not return. The errors are
  (uint16_t)-1 and, from `lseek`, a negative number cut to 16 bits: they
  are not 0 because -1 is the only negative result of the C library's `lseek`
  (`Offsets`); of another one the low 16 bits could be. That they are errors WASI
  defines is not claimed (they are not).
- `DelayAccurate`: a printed delay is right to within 10 ms, also across the wraps of
  single readings, because the difference is taken before the product. Its two
  conditions are needed: the product holds 11.9 hours, and the count is not a
  multiple of a tick when it wraps after 49.7 days.
- `TimerAccurate`, `MilsecsMonotonic`: the benchmark's own times multiply first, so they
  are wrong whenever a wrap of the product, every 11.9 hours after reset, falls
  between the readings, however short the time.
- `TimerWithinDelay`: inside one run the two agree: a benchmark never measures more
  than the runner prints.
- `OneWholeCapture`: without losses `get_heap()` replays the trace of one run, whole,
  although workers and boards were stopped in the middle of frames and texts.
  The greedy regular expression, which starts at the last "trace ready!", is what
  keeps two traces apart. (That the run may be the wrong one is the `torn` of
  `RowsFaithful`.)
- `LengthKept`: one lost byte does not shift the packets that follow. A lost header
  lets the payload through as a "corrupted packet", a lost payload is made up by
  the next header. The exception is a payload byte 3 that is taken for a header.
- `CaptureEnds`: `get_heap()` ends if its firmware does, except after a loss, a false
  header 3, or when the socket was closed, which `readinto()` never notices.
- `RingIsWhatYouSee`, `ReadsWhatWasEntered`: until the indices wrap.

### Comments the code does not keep

- `l4/init.c:241`, "Write "len" of char from "ptr"": `_write` stops at a NUL. A guest
  buffer that begins with NUL makes `fd_write` loop for ever (`wasi_write_len`).
- `l4/init.c:266`, "Implements a buffered read with line editing": `buf_len` is
  computed in `int` and negative once `end_ndx` has gone round and is below
  `start_ndx`, so `_read` returns 0 although a line was entered and the ring is not
  empty (`line_buffer_wrap`; in its trace the first line leaves `start_ndx` at 1 and the
  newline of the second moves `end_ndx` to 0). A ring filled to its last slot, where
  the indices are equal and a correct modulo would give 0, too, is excluded.
- `l4/init.c:198`, "^W erases a word": the loop tests the slot after the last
  character, which may hold an old space (`line_buffer_word`).

### Fairness

`Firmware`, `WasiWrite` and `WasiCalls` run on the only thread of the board: weak fairness of
the next step says that the processor runs; a program that never comes back is
the explicit step `Hang`. In `Harness` the operating system schedules the three host
processes and the hardware runs the board; that something is done while something
can be done (weak fairness of `Next`) is enough for a campaign to get where `StopsAtEnd`
says, because no process can keep another from its turn for ever when every step
brings the end nearer. The serial timeout is a step of its worker that is possible
as long as it reads, which is what `timeout=120` gives. In `SwoLink` the firmware and the worker run (weak fairness
each); nothing forces a reset, a teardown, a loss or a closed socket. `Clock` has
no fairness: its properties are safety.

## 4. Proofs

`HeapProfileProofs` proves for every set of addresses, every `SizeLimit` and every
`MaxPackets`, under `AllocAssumption` only (Null is no address, None no integer):

| Theorem | Property |
|---|---|
| `TypeCorrect` | `TypeOK` |
| `ReplayCorrect` | `ReplayFollowsDevice` |
| `ReplayNeverFails` | `ReplaySucceeds` |
| `PeakCorrect` | `PeakExact` |
| `MeterImplemented` | `ImplementsMeter` |

The argument. `ReplayFollowsDevice` is not inductive: the step that replays packet
number `pos + 1` is right only because of how that packet relates to the two
snapshots around it, and that was decided long before, when the device sent it.
`HistoryInv` keeps this relation for every packet sent: `seen` has one entry more
than `packets`, consecutive entries differ as the packet between them says (a
malloc's address was free before, a reallocated or freed block was there), and
the last entry is the current heap. `ReplayInv` says that the host state is the
entry of `seen` it has reached, that a replay only starts once the device has
stopped, and that it has not failed. Their conjunction with `TypeOK` is inductive;
one lemma per action of the device and of the host shows its preservation, and
the other properties follow from it. For `ImplementsMeter` each device step is
mapped to `Allocate`, `Resize`, `Release` or a stutter and `Return` to `Report`.

`ClockProofs` proves all of `Clock` for every even `Word`, every CLOCKS_PER_SEC of at
least 2 that divides `Second`, and behaviours of any length (`ClockAssumption`):

| Theorem | Property |
|---|---|
| `TypeCorrect` | `TypeOK` |
| `DelayCorrect` | `DelayAccurate` |
| `TimerCorrect` | `TimerAccurate` |
| `TimerInside` | `TimerWithinDelay` |
| `MilsecsForward` | `MilsecsMonotonic` |

The argument. The properties compare a number with a time, so the invariant `Inv`
ties every number in the state to the time it was read at: `ms_since_boot` is `now`
modulo the word, `start` and the timers are what the clock gives at the times in
the histories, and a printed delay is the wrapped product of two such readings.
It is inductive because no step but the tick changes the time. The rest is
arithmetic about quotients and remainders: readings with the same count are
whole ticks apart (`TicksApart`), the product of a difference that fits is exact
(`StepsOf`, `DelayOf`), and two products with the same quotient differ by exactly the
ticks between them (`ProductsApart`).

### The other components

| Theorem | Property | Holds for every |
|---|---|---|
| `HeapCaptureProofs!TotalCorrect` | `TotalCoversDict` | capture, set of addresses, set of sizes |
| `HarnessProofs!TypeCorrect` | `TypeOK` | number of benchmarks, `MaxRefused` |
| `HarnessProofs!DebuggersCorrect` | `OneDebugger` | |
| `HarnessProofs!TimesCorrect` | `TimesOfOwnBenchmark` | |
| `HarnessProofs!RowsCorrect` | `RowsFaithful` | |
| `HarnessProofs!NoVainWait` | `NeverWaitsInVain` | |
| `HarnessProofs!LeftDecreases` | `AlwaysLessLeft` | |
| `MainProofs!FirmwareTypeCorrect` | `TypeOK` | build of the three interpreters, traced or not, with a hook or not |
| `MainProofs!RowsMeanSuccess` | `RowMeansSuccess` | |
| `MainProofs!ReleasesInOrder` | `ReleasedInOrder` | |
| `MainProofs!SuccessLeavesNothing` | `SuccessReleasesAll` | |
| `MainProofs!BoardImplemented` | the safety part of `ImplementsBoard` | |
| `MainProofs!StackTypeCorrect` | `StackTypeOK` | size of the stack, `Skip`, `Consec`, number of calls, initial RAM |
| `MainProofs!NotTooMuch` | `NeverTooMuch` | |
| `MainProofs!NotTooLittle` | `NeverTooLittle` | |
| `WasiProofs!TypeCorrect` | `CallsTypeOK` | number and length of buffers |
| `WasiProofs!TableIsFreed` | `TableFreed` | |
| `WasiProofs!OutputArrives` | `OutputFaithful` | |
| `WasiProofs!ErrorsAreClean` | `FailsCleanly` | |
| `WasiProofs!ErrorsAreTold` | `ToldWhatHappened` | |
| `WasiProofs!CallsGoForward` | (`GoesForward`, stated there) | |
| `LineBufferProofs!TypeCorrect` | `TypeOK` | size of the ring from 2 on, number of characters |
| `LineBufferProofs!RingCorrect` | `RingIsWhatYouSee` | |
| `LineBufferProofs!ReadsCorrect` | `ReadsWhatWasEntered` | |
| `SwoLinkProofs!TypeCorrect` | `TypeOK` | number of runs, length of traces, losses, depth of the link |
| `SwoLinkProofs!CaptureCorrect` | `OneWholeCapture` | |
| `SwoLinkProofs!LengthCorrect` | `LengthKept` | as above, for one lost byte and the first worker, which the property is about |
| `SwoLinkProofs!NotStuck` | (`NeverStuck`, stated there) | number of runs, length of traces, losses, depth of the link |
| `SwoLinkProofs!LinkRunsDown` | (`Shrinks`, stated there) | |

In each module `IInv` is the inductive invariant; its parts carry the argument:

- **Harness.** `RowsFaithful` speaks of `torn` and of `refused`; the invariant says what they
  exclude. `BenchInv`: for a benchmark whose commands gdb has obeyed (`Obeyed`) the
  board has the firmware of the run once it is programmed, a timing run follows
  the tracing run of the same benchmark, and what `get_measurements()` finds on the
  serial port is never older; it holds even if `torn`, and it is established anew by
  each download that is not refused, whatever earlier benchmarks have left.
  `SilenceInv`: as long as no pool was torn down early, an old board has printed
  all it has to print before the next pool exists, so the only thing a new worker
  can find of it is the rest of a trace whose READY is gone. That is also so after
  a benchmark with refusals, because a teardown with a talking board is what
  `torn` records. `TraceInv`: then the one READY on the socket is that of the run, and
  packets lie between it and any later DONE, or `get_heap()` has seen that they were
  damaged. `ProcessInv` ties workers and gdb to the place of `main()`.
- **Harness, its end.** `WaitInv` is `NeverWaitsInVain` with the places of READY and
  DONE in the socket made explicit (`Of`), until the line waited for is lost: reading shifts them by one, sending adds
  one at the end. `Left` weighs what is to be done so that each step pays: a token
  in the socket 1, one the board has still to send 2 (sending puts it in the
  socket), a step of `main()` 12 (it may start the board anew, worth 8, and a
  worker), a run 7 steps. The lemmas say what each kind of step takes from which
  part (`BoardLeftLess`, `MainLeftLess`, `StepLeavesLess`).
- **Firmware.** The properties speak of all builds, and each build is a list of
  steps. `Orderly` says what makes a list right: a failure is caught by a later
  step that stops (`FailuresCaught`), a thing is made before any is released
  (`MadeFirst`), what was made later is released earlier (`LastInFirstOut`),
  everything is released (`AllReleased`), and nothing that can fail follows the
  second delay (`SecondIsLast`). Seven lemmas prove it, one per list of the code:
  this is where a swapped or missing call would show. The rest does not look at
  a list any more. `FirmwareInv`: what is live is what the first `n` steps of the list
  have made and not released (`LiveInv`); a failure lies ahead of a run that will
  stop (`FailedInv`); which lines can be out (`LinesInv`), where the input is
  (`InputInv`), and what the ITM port has sent (`PortInv`). `BoardImplemented` maps the
  start of `post_main()` to `TraceReady`, the first step of the list of a traced build
  to `TracePackets`, and so on to the end of `post_main()`; all others are stutters.
- **StackMark.** `MarkInv`: the words between the heap and the deepest word the stack
  has reached are still marked, and that deepest word is not. `CountInv`: the last
  `consec_markers` words above `ptr` are marked, the one above them is not, and no
  earlier run of `Consec` marked words was passed. The properties are what these
  two say of each other when the count stops. The proof showed that `Skip` must not
  be 0: `mark_stack()` would then mark the word `sp` points at, which is in use. The
  code skips 0x100 words; `StackAssumption` says it.
- **WASI.** `StageInv`: nothing is sent or assigned before all buffers are converted,
  and the table exists exactly between its allocation and the one place that
  frees it. `OutputInv`: without NUL the wire holds the buffers before the current one,
  and the current one from the moment it is counted.
  `GoesForward`: a step reaches the next stage of the call, the next buffer, or has
  written more of one that is not yet written. Only `Write` at a buffer that begins
  with NUL does nothing at all; that is the one way not to return.
- **LineBuffer.** `RingInv`: wherever `_read()` is, the ring is the part of the input
  that place is about (the entered line, or the line on the screen) and the other
  is empty. It holds until the indices go round; the types hold for ever.
- **HeapCapture.** `TotalCoversDict` is inductive once the dict is known to be finite
  (`Map`). The work is in the sums: a change of one entry changes the sum by the
  difference (`SumFunction` of a changed, extended or shortened function).
- **SwoLink.** `Reading` is what `get_heap()` will have read when `readinto()` has returned
  what it already holds; it makes a frame cut in two by a teardown and a whole one
  the same thing. `BoardInv` and `WireInv` say where in its text the board is and
  that every item on the wire is what its place says; `WireWhole`, that without
  loss each item follows the one before it. `HeapInv` has one clause for each mode.
  While it seeks, a worker may be out of phase with the frames; `SeekInv` says that
  it can take a letter for the end of "trace ready!" only where that text is.
  While it captures it is `Aligned` (what it has got is the text of the run of the
  next byte, up to that byte) or `Restarting` (the board has been reset, and what it
  has got will be dropped at the next "trace ready!"). When it is done it has the
  trace of a run that is over. No part of this bounds the number of resets or
  teardowns. The proof showed that a campaign without any run is no state of the
  model: `SwoLinkAssumption` says `MaxRuns` is not 0.
- **SwoLink after a loss.** `LengthKept` asks what a reader has got when a byte is
  missing, so the invariant counts. `GapInv`: half of a frame has an ordinal, and the
  ordinals of the items on the wire tell how many are missing before the next one,
  never more than `lost`. `Stands` lists the seven ways in which a reader may stand
  before the next item: with the frames; one byte behind them after a lost payload
  or header; or inside a payload of two or four bytes that it believes in, because
  it took a payload for a header. Each way has its own difference between the bytes
  got and the place of the item. As long as the loss is still ahead on the wire the
  reader is `InStep`. `CaptureCount` adds that the end of "trace done!" is not seen
  before the text ends, from where every way leads to the same length, or to one
  byte more if a payload 3 was taken for a header (`Extra`).

- **SwoLink, its end.** `EndInv` adds what keeps `get_heap()` from missing the two
  texts it waits for. `StillAhead`: a worker that seeks, on the board of its own run,
  has not had that run's "trace ready!" yet, and stands so that the letters will
  not be swallowed: the payload it believes in is at most two bytes long
  (`ShortPayload`: only a 3 means four, and a genuine header is never 3), so that it
  is through with it before the first letter or ends with it. `EndAhead`: one that
  captures has not read the last newline, or its D before it. When nothing can be
  taken any more (`Resting`), the next item would be one after the end of the text,
  which contradicts both, so the worker is done. `Left` is the variant: a byte of
  heap trace is worth 5, because it becomes two halves of a frame (2 each) that
  become two items on the wire (1 each).

Each of these invariants was checked with TLC on the bounds of the run of its
module before it was proved.

What the variants are for. `Returns` and `CaptureEnds` hold under fairness and stay with
TLC, and so does `StopsAtEnd`, which is about ENABLED, but their content is not left to
a small instance: `AlwaysLessLeft`, `GoesForward` and `LinkRunsDown` prove, for every
value of the constants, that steps lead down (so nothing loops), and `NeverWaitsInVain`
and `NotStuck`, that where nothing can be done the wait is over or has the named
cause. What the proofs leave out is the last inference, that a step that stays
possible is taken, which is weak fairness itself.

Recursive definitions. `FoldLeft`, `FlattenSeq` and `SumFunction` of the community
modules are recursive functions, and no induction theorem can be instantiated
by the installed provers. The proofs use the least-element principle instead
(`LeastNumber`, from `NatLessThanWellFounded`): the sizes of the arguments for which a claim
fails are a set of naturals; if it is not empty it has a least element, and the
recursion equation refutes that one. The fold of a function is shown to exist
the same way, since a recursive definition is a CHOOSE (`FeedsExist` and its
counterparts).

Only model-checked:

- What holds under fairness or is about ENABLED, which these provers do not reach:
  `StopsAtEnd`, `Returns` and `CaptureEnds` as such, and that `Firmware` keeps the fairness
  of `Board`, the other half of `ImplementsBoard` (it needs ENABLED).
- The runs that expect a violation.

## 5. Plan

Done, in this order: heap measurement with its proofs; damaged captures; campaign;
WASI output; line editing; firmware runs refining the board; stack measurement;
clock and timers with their proofs; the ITM link; the remaining WASI calls; the
hooks.

Proved since: all safety properties of every module, `Firmware` and its refinement
of `Board` included, and for the campaign, the WASI calls and the link that they
run down and do not get stuck. No invariant and no action property of a run is
left to TLC alone but `StopsAtEnd`; what is left is what holds under fairness (section 4).

Worth doing next: `NotStuck` after one lost byte, for the campaign as a whole
rather than the link alone; and the F4 port, should the build use it again.

### Not modelled

- `clock_setup`, `usart_setup`, `gpio_setup`: register writes; only the rate of the
  tick is used (`Clock`).
- `exp2_wrapper` and `fwrite_wrapper` of wamr: one call of the C library each, no
  state of this code.
- The numeric arguments of the single benchmarks, and what they compute.
- The F4 port, the header generator, build files, CI and recorded results.
- The interpreters, libopencm3 and newlib, which are not in the repository.
