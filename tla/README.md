# Liberation, modelled in TLA+

Liberation is a debugger library for Mach (macOS, iOS). It attaches to a task,
puts software or hardware breakpoints into it, and can answer the breakpoint
exceptions of its own task. Nothing in it takes a lock, most results of Mach
calls are passed on or dropped, and the target and the exception server run
while the client works. This directory models the parts whose behaviour depends
on that, checks them with TLC and proves their safety with TLAPS.

## The system

| component | state | operations | uses |
|---|---|---|---|
| Process (`process.cc`) | `pid_`, `name_`, `task_`, `paused_` | `GetProcess`, `IsAlive`, `Kill`, `Pause`, `Resume`, `Threads`, `ReadMemory`, `WriteMemory`, `GetRegions`, `ThreadState` | Mach calls, `proc_listpids`, `sysctl` |
| software breakpoints (`x64/`, `armv7/breakpoint_*.cc`) | `active_`, `address_`, `original_opcode_` | `Apply`, `Reset` | `Process::ReadMemory`, `WriteMemory` |
| hardware breakpoints (`x64/breakpoint_x64.cc`) | `active_`, `address_`, `in_use_` | `Apply`, `Reset` | `Process::Threads`, `x64ThreadState::Load`, `Save` |
| `BreakpointHandler` | the vector `breakpoints_` | `InstallBreakpoint`, `UninstallBreakpoint`, `EnableBreakpoint`, `DisableBreakpoint`, `BreakpointAtAddress`, `Breakpoints` | `Breakpoint::Apply`, `Reset` |
| `ExceptionHandler` | its port, `exception_history_` | `SetupHandler`, `server_thread`, `ExceptionCallback` | `BreakpointHandler`, thread states, Mach ports |
| message stubs (`mach_exc*.c`, generated) | the reply port of each thread | three client stubs, `mach_exc_server` | `mach_msg` |
| thread states (`*/thread_state_*.cc`) | a copy of the registers, views of them by name | `Load`, `Save`, `operator[]` | `thread_get_state`, `thread_set_state` |
| hosts, disassembler | none to speak of | getters | a hardware register; capstone |

A client calls the handler, the handler calls the breakpoint, the breakpoint
calls the process, the process calls the kernel. In the other direction the
kernel sends an exception to the port, a server thread receives it through the
message stubs and calls `ExceptionCallback`, which looks the breakpoint up in
the handler's vector and disables it. Both directions share the vector, the
breakpoints and the target's memory.

`GetProcess`, `IsAlive` and `GetRegions` stand beside this: each asks the kernel
several times about processes or mappings that change between the answers, and
takes what it was told for one picture.

What is hard here: calls on one or on two breakpoints that interleave between
two Mach calls; a Mach call that fails between two others; `push_back` against
`assign` in a second `Apply`; a vector that moves under an iteration; target
threads that run, start or exit between `Load` and `Save`; cached state
(`paused_`, `active_`, `in_use_`, the dr registers) that is not the kernel's;
a `SetupHandler` that stops half way; a server thread that runs into a breakpoint
itself; refusals whose results are dropped; the reply that comes after its call has failed; pids that go to another
process between two questions; an address space that changes under the walk
through it; a `Save` of what was never loaded. `PROJECT.json` lists these hazards, each at its line.

What makes each part correct:

- software breakpoints: the program can be restored from what was saved; what
  `Apply` and `Reset` return is true; a trap belongs to an active breakpoint;
  no page stays writable and executable;
- handler: every trap of a registered breakpoint stays findable; what was saved
  stays the program's when server and client meet on a breakpoint; an operation
  on one breakpoint does not unregister another;
- hardware breakpoints: after `Reset` no thread has the breakpoint enabled,
  after `Apply` every thread it went through has; registers are not set back
  under a pause that holds;
- exceptions: answered once, answered at last, thread not left suspended, no
  port registered without a server;
- messages: what one stub packs the other unpacks; nothing read outside of the
  message; a call's success is its own; a call runs at most once;
- process lookup: whoever is alive throughout is found; name and task are of one
  process;
- memory regions: a region that stays is found, one that never was is not
  returned, the walk ends;
- thread states: a name is its register; only what was loaded is written back,
  flavor by flavor.

## The modules

| module | models | correspondence |
|---|---|---|
| `TaskMemory` | bytes and page protections of the target | operators for what `vm_read_overwrite`, `vm_write` and `vm_protect` do (external) |
| `SoftwareBreakpoint` | `Apply`, `Reset` of the three software classes, `ReadMemory`, forced `WriteMemory` | one action per Mach call; `op[t]` is where thread `t` is; `done`, `overlapped`, `rearmed`, `unread`, `refusals` are history |
| `BreakpointHandler` | the registry, EXTENDS `SoftwareBreakpoint` | `breakpoints` is `breakpoints_`; `at[t]` is the handler's method `t` is in, from which `CallApply`, `CallReset` and `InCallStep` go through `SoftwareBreakpoint`'s own actions; `stray` is history: what was enabled while it was not in the vector |
| `HardwareBreakpoint` | `Apply`, `Reset` of the x86_64 hardware class, `Load`, `Save`, `Pause`, `Resume`, `Threads` | `call[d].todo` is the list of threads; between `Load` (`Loaded`, `ToSave`) and `Save` the target runs; `Pause` and `Resume` are two steps each, the assignment of `paused_` and the Mach call (`toTask`), which may be refused; `Answers` are the flavors that `thread_get_state` or `thread_set_state` does not refuse; `refused`, `doubtful`, `unsure`, `rearmed`, `overlapped` are history |
| `ExceptionHandler` | `SetupHandler`, `server_thread`, `ExceptionCallback` | `setup[k]` is the next Mach call of call `k`; `server[s]` the place in the callback |
| `ExceptionMessages` | the generated stubs | bodies of messages as words of four bytes; `2` and `224` are `MaxCode` and `MaxState` |
| `ExceptionCall` | what the stubs promise: a remote call | the abstract specification that `ExceptionMessages` implements, through `RemoteCall == INSTANCE ExceptionCall WITH ...` |
| `ProcessTable` | both `GetProcess`, `IsAlive`, `Kill`, with `ProcessExists`, `NameForPID`, `PIDForName` | `table` is the kernel's, `call.pc` the next question to it; `found` is the `Process`; every call of the kernel may be refused; `NoPid` stands for 0 and for numbers that are no pid; `present`, `steady`, `missed` and `unnamed` are history |
| `RegionWalk` | `GetRegions` | one `Query` per `vm_region_recurse`; an address space is a set of entries, submaps among them |
| `ThreadStates` | `Load`, `Save`, `operator[]` and assignment of the four classes | a word of an object holds where it comes from: the thread, the assignment, or nowhere; each flavor is got and set by a call of its own, which may be refused |
| `SoftwareBreakpointProofs`, `BreakpointHandlerProofs`, `HardwareBreakpointProofs`, `ExceptionHandlerProofs`, `ExceptionMessagesProofs`, `ProcessTableProofs`, `RegionWalkProofs`, `ThreadStatesProofs` | theorems | see below |
| `MC*` | values of constants for TLC | |

A definition whose comment says "faulty variant" is not part of any
specification. It is a plausible mistake in the code, used in the place of the
definition after it to see that a property notices.

Undefined behaviour is a choice: `active_` and `in_use_` are initialised by
nobody and start with any value; an unread buffer holds any of `StaleByte`;
`Reset` through a pointer that an `Apply` has invalidated writes the bytes or
stale ones; two unlocked `push_back`s may lose one of the bytes; a lookup over a
vector that has moved finds anything, or kills the process; entries of a list of
pids that nobody has written are any pids; a name or a task that was never
written is any; a region whose query failed is whatever was there. What is left out is
memory that such accesses corrupt elsewhere.

## The runs

| run | instance | shows |
|---|---|---|
| `SoftwareX64` | 2 threads, 2 breakpoints on neighbouring bytes of one page, a page behind; `MaxCalls` 5, 1 refusal | `Confined`, `OriginalKept`, `TruthfulReturn`, `TrapIsActive`, `NoPageLeftWritable`, `TypeOK` over 5 million states |
| `SoftwareARM` | a 4-byte breakpoint over two pages, a 2-byte one behind it; `MaxCalls` 4 | `Confined`, `OriginalKept` and `TruthfulReturn` for the classes that save with `assign` and do not set `active_` |
| `Handler` | a client, a server, 2 breakpoints, `MaxInstalled` 2, `MaxCalls` 4; the client enables and disables breakpoints in the vector or not | `ArmedIsRegistered`, `SavedByteSurvives`, `OnlyOwnRemoved` |
| `Hardware` | 1 debugger thread that applies and resets, 2 that pause and resume, 2 target threads, 2 breakpoints; `MaxCalls` 4, of which pauses are some, `MaxRefused` 1, `in_use_` from 2 | `ResetDisarms`, `ApplyArms`, `EnabledIsActive`, `PausedCallsDoNotRewind` |
| `HardwareRefuses` | 1 pausing thread, 2 target threads, 1 breakpoint, no refusals, `in_use_` from 0 | violation: the third `Apply` refuses with free registers |
| `Exceptions` | 2 calls of `SetupHandler` and the 2 servers they start, 1 other thread, 1 breakpoint, `MaxTraps` 3; both builds | `SuspendBalanced`, `AnsweredOnce`, `RegisteredHasServer`, `Answered` |
| `ExceptionsUnhandled` | 1 of each, servers do not trap | violation: on x86_64 the server passes on the exceptions of its own breakpoints |
| `Messages` | 2 clients, 3 calls of both together, `MaxCode` 1, `MaxState` 1 | `ArgumentsArrive`, `StubsAgree`, `SuccessIsOwn`, `WaitingIsOwed`, and that the stubs implement `ExceptionCall` |
| `MessagesForeign` | every message of up to 7 words of 0..3, every frame | `ReadsInside` |
| `Regions` | every address space out of nine entries on 4 pages with submaps in submaps, 2 changes during the walk, or the exit of the task | `StableFound`, `RegionsWere`, `ExactWhenQuiet`, `Ends` |
| `Processes` | 3 pids, the debugger and 3 processes, two of one name; 0 is listed and has a name; every call of the kernel may be refused, any number of times; `Slack` 0 | `AliveIsFound`, `Coherent` |
| `States` | the four classes in full, 2 `Load`s, 1 assignment, any number of `Save`s, one flavor of one call refused | `AssignedIsNamed`, `JunkOnlyUnfetched`, `OldOnlyIfLate` |

Bounds and why they do. `MaxCalls` 5 allows two overlapping calls on one
breakpoint and three more on it or its neighbour: applied twice, reset, and
reset while the other is applied. `MaxRefusals` 1: a second refusal would end
another call at another step, in a state that a first one reaches as well.
`LastAddr`: addresses next to the breakpoints are all that a write can reach,
since saved bytes grow by one per `Apply`. In `Handler`, `MaxInstalled` 2 has one
breakpoint registered twice as well as two, and the kernel refuses nothing
(`MaxRefusals` 0): failures come from unmapped pages, and refusals are examined in
`SoftwareX64` and by the proofs. `MaxPC` 1 is enough for a thread to be set back.
Four calls in `Hardware` are an `Apply` or `Reset` between a pause and a resume,
two pauses and a resume (nesting), or a `Resume` at work when another thread pauses;
or twice `Apply` and `Reset` without pauses. `in_use_` starts at 2 there, so that
two of four slots are left, the refusal for want of slots comes within the bound and
one `Apply` can find the slots of another breakpoint's. `MaxRefused` 1 is one thread
of which the kernel refuses either flavor, at any `Load` or `Save`, again and again;
the other thread shows that nothing is lost for it. The debug state that a refused
`thread_get_state` leaves unwritten is in this run one that seems to hold the first
breakpoint's address, enabled in the last slot. `MessagesForeign` reaches both counts at their largest, and past it.
In `Messages` a call's payload is of one word value, which a misplaced read
confuses with a count or with the trailer; three calls give one client a late
reply to its first call during its second. `MaxTraps` 3 lets one server be
rescued by the other and both be stopped later. Two changes in `Regions` put an
entry away and back, or take a submap from around the walk and map another;
more levels than two of submaps repeat the step into one. With three pids in
`Processes` a pid goes to a second process while a third stays, and a process of
the wanted name exits while another of it starts. `Slack` 0 is the least room the
list can get, which with three pids is enough, or none when the estimate is refused;
that it is cut short by processes that more than quadruple is left to the proof. `MaxRefusals`
1 in `States` refuses one flavor of one `Load` or `Save`; what a second refused
flavor leaves is a matter of its own words. Two `Load`s in `States` are two sets of views; that assignments
through different views do not meet follows from each writing its own words.

Many properties are narrower than one would wish, because the code is. What each
leaves out is a state of the model, and nothing is claimed there:

| property | says nothing of |
|---|---|
| `OriginalKept`, `TruthfulReturn`, `TrapIsActive` | breakpoints on which two calls have overlapped (two unlocked `Apply`s can save the trap), whose reads have failed, or into whose bytes another reaches. `OriginalKept`, and `TruthfulReturn` after a `Reset`, also leave out ARM breakpoints applied while armed (`assign` loses the code). That an `Apply` which returned false left the code alone is said only while the kernel has refused nothing at all, and of no breakpoint applied while armed. |
| `NoPageLeftWritable` | a kernel that refuses, and breakpoints that reach over a page's end |
| `ArmedIsRegistered` | ARM classes; breakpoints that were ever enabled outside the vector (`stray`: `EnableBreakpoint` arms them all the same), that share a byte with another, whose code is a trap already, or whose reads have failed; a kernel that refuses anything (a failed `Apply` may have left its trap); stale bytes that look like a trap (a racing `Reset` may write one) |
| `SavedByteSurvives` | ARM classes, breakpoints that share a byte with another or whose reads have failed |
| `ResetDisarms`, `EnabledIsActive` | breakpoints that were once applied twice without a `Reset` in between (`rearmed`: `Reset` disarms one slot, the earlier one stays enabled with `active_` false), threads of which the kernel has refused something while they were alive, overlapping calls of `Apply` and `Reset` |
| `ApplyArms` | breakpoints beside which another has been applied to any thread (it may take the same slot); threads of which something was refused; overlapping calls |
| `PausedCallsDoNotRewind` | a `Load` before which no pause has held: between the two lines of `Pause`, after a refused `task_suspend`, when the last `Pause` began while a `Resume` was at work; a `Resume` begun since the `Load`; threads of which something was refused; overlapping calls. `paused()` alone does not keep a thread from being set back. |
| `AliveIsFound` | calls of which a list was refused or cut short (`missed`); processes of which `proc_name` has written nothing (`unnamed`), as far as names go, and new processes that have taken over a pid |
| `Coherent` | refused tasks, names never written, and a process that was started during the call: it may get the pid between `proc_name` and `task_for_pid` |
| `AssignedIsNamed` | assignments of another width than the register's; the four views of the AArch64 class that are `Misplaced`: its names go on with FP, LR, SP and PC behind X29 and X30, which already are FP and LR, so that the four refer to what lies two registers further, PC to memory behind the thread state |
| `JunkOnlyUnfetched`, `OldOnlyIfLate` | flavors that `Save` has set although no `Load` has got them, ever or since the thread ran |

`Kill` returns true when `kill` has failed, as in the code. `Hardware` has one thread that
applies and resets, so that `overlapped` is for the proofs, which allow any number.

Deadlock is not checked in any run: clients may stop calling, bounds are
reached, and a thread whose exception nobody answers is a state of its own that
`Answered` speaks about.

Fairness is assumed twice. In `ExceptionHandler` of the servers: weak fairness
of `Callback(s)`, since `server_thread` is an endless loop of a detached thread
that blocks in nothing but the receive. A server that runs into a breakpoint
itself cannot take a step until it is answered; `Answered` says that an exception
on a port with a server is answered unless it stays for ever with such a server, or
on a port all of whose servers are stopped so, and `MaxTraps` bounds how often
servers trap, without which they might answer each other for ever. Clients,
`SetupHandler`, the kernel's exceptions and the parent handler need not go on. A
server that has read another port's name from the dead stack frame leaves its own
port unserved. In `RegionWalk` weak fairness of `Walk`: the thread in
`GetRegions` goes on, in a loop that waits for nobody. The task's changes during
one walk are bounded (`MaxChanges`): one that maps a submap around the address
again and again would hold the walk for ever. Nothing else of the system promises to
go on, so the other modules state no liveness.

## The proofs

`SoftwareBreakpointProofs` proves, for every set of threads, breakpoints, pages
and addresses and every bound, from the assumptions named in `TaskMemory` and
`SoftwareBreakpoint` (`LastAddrAssumption`, `PageAssumption`, `BkptAssumption`,
`KindAssumption`, `AddressAssumption`, `InitMemAssumption`,
`InitialProtAssumption`, `StaleAssumption`, `BoundAssumption`):

- `TypeCorrect`: `Spec => []TypeOK`;
- `ConfinedHolds`: `Spec => []Confined`;
- `PagesAreReprotected`: `Spec => []NoPageLeftWritable`.

The inductive invariant is `IInv == TypeOK /\ SizesOK /\ Covered /\ Confined`.
`TypeOK` alone is not inductive: that what `Reset` writes are bytes depends on its
size being at most that of the saved bytes (`SizesOK`), which holds because
neither `push_back` nor `assign` makes them fewer. `Confined` is not inductive
either: when an `Apply` ends, the address it wrote is not claimed by its call any
more, so the breakpoint must have saved it by then. `Covered` says so: whenever
a call is past its read, what it writes is within the saved bytes of its
breakpoint, or another call is about to save (the lost `push_back` of two threads).
`ClaimedGrows` then shows that no step takes an address out of what is claimed,
and `MemStep` that memory changes only there. For the pages the invariant is
`NoPageLeftWritable` itself beside `IInv`: with one page per breakpoint
(`OneTargetPage`), a call that ends, in success or because its `vm_write` found
the page not writable, ends with that page not writable (`ReturnStep`).

The second half of `SoftwareBreakpointProofs` proves, from the same assumptions,
`OriginalKept`, `TruthfulReturn` and `TrapIsActive`. Its invariant `MInv` adds to
`IInv`, for every breakpoint on which no calls have overlapped, whose reads have
succeeded and into whose bytes no other reaches (`Good`), what its state means
(`Meaning`): at most one thread is in a call on it; what is saved first is the
program's own code, and if nothing is saved the code is in place; what is in memory
before, in each stage of and after a call; `active_`. A call that is past its first
`vm_protect` does not fail for an unmapped page (`Mapped`). A step never makes a
breakpoint good again (`GoodBefore`), steps of calls on other breakpoints leave it
as it is (`ElsewhereStep`), and the rest is one lemma per Mach call.

`BreakpointHandlerProofs` begins with a lemma (`HandlerSteps`): each step of a handler
method is a step of one call of `Apply` or `Reset`, or leaves memory and breakpoints
alone. So what is proved of every behaviour of `SoftwareBreakpoint` holds of the
handler and its server too; `HandlerConfined` and `HandlerReprotects` say so of
`Confined` and `NoPageLeftWritable`. (`OriginalKept` and its like carry over as well,
but say little here, as they leave out breakpoints on which calls overlap.)

It goes on to prove `ArmedIsRegistered` (`TrapsAreRegistered`), `SavedByteSurvives`
(`SavedBytesSurvive`) and `OnlyOwnRemoved` (`OthersStayInstalled`) for any number of
servers and breakpoints. Here calls on one breakpoint do overlap, since a server
disables what the client is enabling, so `Meaning` is of no help. `RegistryInv` says
instead where each method stands in the vector (`VectorOK`; a method on a breakpoint
that is not there has made it `stray`) and, of each breakpoint, that a trap in memory
has an element which is not the one a running `Install` may still take off, and that
no `Uninstall` has already put the saved byte back (`ArmedOK`). It is inductive because
the client alone applies: only it writes traps, only it saves bytes, and the byte it
saves first is the program's own. The last is needed while the kernel refuses calls
and for breakpoints outside the vector too, and is an invariant of its own
(`SavedInv`): a breakpoint that has saved nothing has changed nothing (`SavedOK`),
because an `Apply` past its read has saved and a `Reset` of nothing writes nothing.

`HardwareBreakpointProofs` proves `ResetDisarms`, `ApplyArms`, `EnabledIsActive` and
`PausedCallsDoNotRewind` for any number of threads on both sides, breakpoints, calls
and refusals, with the exceptions of the table above. It assumes that breakpoints have
addresses of their own (`AddressAssumption`), that an unwritten debug state is a debug
state (`JunkAssumption`) and nothing of `in_use_` but that it is an integer
(`InUseAssumption`). None of the four is inductive, since between `Load` and `Save`
the registers to be written are neither the thread's nor yet its own. The invariant
(`Quiet`) says what they may differ in (`SaveOK`), and of the threads the call still
has to go through that they are as before it, of the others that they are as after
it (`ApplyOK`, `ResetOK`), each for the threads of which the kernel has refused nothing
and that have not exited (`Living`). `TargetOK` is why `Reset` finds what `Apply`
enabled, although it searches for the address and old slots keep theirs: every slot
with that address lies below `in_use_`, and only the last is enabled, unless the
breakpoint is `rearmed`. `PausesOK` is about pauses of any number of threads, and holds
with overlapping calls too: when `paused_` is true, no `Pause` is between its two lines
and the last one was neither refused nor met a `Resume` at work, then the suspend count
is above 0 and nobody is about to lower it. With it, what was loaded under such a pause
is what the thread still has at the `Save`.

`ExceptionHandlerProofs` proves `SuspendBalanced`, `AnsweredOnce` and
`RegisteredHasServer` for any number of setups, servers, threads and breakpoints,
from `NothingAssumption`, `ThreadAssumption` and `PortAssumption` (names that
differ). None of the three is inductive. Beside the types the
invariant needs that an exception is in one place (`InOnePlace`: on one port once,
or with one server, and exactly while its thread waits, at a breakpoint) and that
the suspend count of a thread says where in its callback that server is (`Counted`). The
first is why the second can hold, because two servers that read the same port never
have the same thread; and that a waiting thread waits at a breakpoint is why
`ExceptionCallback`'s return without `thread_resume` is never taken.

`ExceptionMessagesProofs` proves `ArgumentsArrive`, `StubsAgree`, `SuccessIsOwn`,
`WaitingIsOwed` and `ReadsInside`, and that the stubs implement `ExceptionCall`
(`StubsAreARemoteCall`), for any clients and other senders, any number of calls and
any `MaxCode` and `MaxState`. It assumes that clients are not among the senders of
foreign messages (`SenderAssumption`) and that words are natural numbers
(`WordAssumption`). The invariant is about the requests nobody has answered
(`Standing`): one of the client's present call is what its stub has built, names the
reply port the client waits on, and excludes a reply and a run of the catch routine;
one of an earlier call names a port that has been given up, so that its reply
reaches nobody. Together with `NoneTwice`, that no call has two requests, this is why a call runs at
most once and never succeeds with a late reply. `ClientOK` says that a client which
waits has its request or its answer, or the notification that stands for it.
In the refinement the catch routine may also run after the client has given up; if
the client is in a later call by then, that is a stutter. That the stubs agree rests on lemmas
about layout: what one packs at a position the other reads there, for every length
of code and state.

`ProcessTableProofs` proves `AliveIsFound` and `Coherent` for any processes, names and
finite set of pids, whatever the kernel refuses, from the assumptions of
`ProcessTable`, none of which bounds the pids: `PidAssumption` says that they are
finitely many and 0 none of them. The invariant says that a process has one pid and
never comes back (`TableOK`), what each stage of a call knows (`CallOK`: a list that was
neither refused nor cut short has every process that stays, and a scan that has not
found the wanted one still has it before it), and that a granted task is of the pid it
was asked for or of a process that is gone (`FoundOK`). That a list with room for it is
complete (`AllListed`) is a fact about cardinalities: the entries it has are among the
pids, and as many.

`RegionWalkProofs` proves `StableFound`, `RegionsWere` and `ExactWhenQuiet` for every
set of well formed address spaces, nested to any depth and changed any number of
times. For the first the invariant is `Unmissed`: a wanted region that stays is noted,
or it ends behind the address. It takes what `vm_region_recurse` finds next to end
before any other leaf begins (`NearestEndsFirst`), which rests on how submaps nest
(`Above`, `LeafApart`).

`ThreadStatesProofs` proves `JunkOnlyUnfetched` and `OldOnlyIfLate` for any number of
`Load`s, `Save`s, assignments and refused calls: what a flavor's `thread_set_state`
transfers, its `thread_get_state` has fetched, into the same members. It also
proves `AssignedIsNamed` (`ViewsAreNamed`), from the layout of each class: every view
but the `Misplaced` ones spans exactly the words of the register whose name it has
(`ViewIsRegister`), and `operator[]` returns a view of the name it was asked for
(`LookupFinds`), the views of a second `Load` being those of the first.

With these, every invariant, action property and refinement that a passing run
checks is proved. Model-checked only are the liveness properties `Answered` and
`Ends`: liveness under fairness is out of the prover's reach.

## Not modelled

- Hosts and the disassembler: no state, or an external library's.
- ARM hardware breakpoints, AArch64 breakpoints, `InjectLibrary`: stubs.
- `Breakpoints(flags)`, `Description`, `CurrentAddress`, `Self`: they read only.
  The unforced `WriteMemory`: one `vm_write`, which nothing in the repository calls.
- Two clients that change the vector at once, and hardware calls of two
  debugger threads with a claim about the result: undefined behaviour with no
  bound on what it does, or no promise to check. `task_threads` of a task that has
  exited, for the same reason.
- `exception_history_`, written and never read; it grows without bound.
- A debugger that kills itself.

## Plan

Done, in this order: `TaskMemory`, `SoftwareBreakpoint` and its proofs,
`BreakpointHandler`, `HardwareBreakpoint`, `ExceptionHandler` with servers that trap,
`ExceptionMessages` and the remote call it implements, `RegionWalk`,
`ProcessTable`, `ThreadStates`, and the proofs of every module's safety properties.
Left: an abstract breakpoint (armed or not, one step per call) that
`SoftwareBreakpoint` implements for calls that do not overlap. `Meaning` is the
invariant it would need.
