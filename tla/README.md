# tclvisa in TLA+

tclvisa is a Tcl extension in C that puts the VISA instrument library behind
Tcl channels: `visa::open` returns a channel, `puts` and `gets` write to and
read from the instrument, `fconfigure` changes its options, and about twenty
commands in the namespace `visa::` cover the rest of the VISA API. This
directory holds TLA+ models of its logic, the TLC configurations that check them
and proofs that TLAPS checks. File and line references are to `src/`.

1. [The system](#1-the-system)
2. [Modules](#2-modules-and-how-they-correspond-to-the-code)
3. [Runs](#3-runs)
4. [Fairness](#4-fairness)
5. [Proofs](#5-proofs)
6. [Findings](#6-where-code-and-documentation-disagree)
7. [What is left out](#7-what-is-left-out)
8. [Plan](#8-plan)

## 1. The system

The code's own logic is some 2,000 lines in `src/src/tclvisa`; `visa_constants.inc`
is a generated table of about the same size. There are no callbacks from VISA
and no threads of its own: a thread of the process runs a Tcl interpreter, and
everything happens inside a script's command. What makes the code hard is that
its state is spread over four parties that fail and proceed independently:

| Party | What it keeps | In the models |
|---|---|---|
| the script | what it believes: its timeout, its locks, the mode it set | history variables (`wanted`, `told`, `asked`) |
| Tcl's channel layer | its own blocking flag, input and output queues, the table of channels by name | modelled from how the driver is called; external |
| tclvisa | one `VisaChannelData` per channel: `session`, `blocking`, `timeout`, `isRMSession`, `lastError`, `lastErrorMsg` | the subject |
| VISA | sessions, attributes, locks, per process or per device | modelled from how it is called; external. Every call may fail. |

### Components

**Blocking mode and I/O timeout** (`visa_channel.c`: `blockModeProc`,
`getVisaTimeout`, `setVisaTimeout`, `-timeout`; `set_attribute.c` and
`get_attribute.c` on that attribute). VISA has no non-blocking I/O, so the driver emulates it by a
zero timeout. *State:* VISA's timeout attribute, `blocking`, the saved `timeout`,
Tcl's flag. *Hard:* three copies of one fact, up to two fallible calls per
switch, two interfaces to the timeout, and conversions between Tcl's integers, C
`int`, `long` and VISA's unsigned 32 bits. *Correct when* the script's timeout
survives every sequence of commands, Tcl's flag and the driver's do not differ in
the dangerous direction, and a value read back means what was set.

**Last error** (`storeLastError`, `get_last_error.c`, `visa_utils.c`).
*State:* the last status of each channel and its message; the place where
`strtok` got to. *Hard:* the place is hidden and, in some C libraries, shared by
all threads; a message may lack the code the parser expects. *Correct when* the
message is that of the status, and each answer is the error of its own channel.

**Output** and **input** (`outputProc`, `inputProc`, `-queue`). *State:* Tcl's
queues and what the device has taken or sent. *Hard:* a transfer may end early by
a timeout or an error; Tcl's loops read zero as progress on output and as the end
of the file on input; output may wait in Tcl (`puts -nonewline`) until a `flush`
or a `close`; Tcl and the driver may differ about the mode. *Correct when* bytes
pass once and in order or the command fails, a command that falls short is
explained by the last error, `-queue` counts every byte once, and commands return.

**Sessions and channels** (`createVisaChannel`, `closeProc`, `open.c`,
`open_default_rm.c`). *State:* VISA's sessions, channels named after session
numbers. *Hard:* closing a resource manager (RM) takes its instruments' sessions
with it and leaves their channels; numbers come back; threads end and Tcl closes
their channels in any order; `viClose` may fail. *Correct when* channels and
sessions stay paired and no session is left behind.

**Serial options and locks** (`setOptionProc`, `getOptionProc`, `lock.c`,
`unlock.c`). *State:* the port's attributes, which all sessions on it share, and
VISA's locks, which belong to sessions: a thread with two of them can lock itself
out. *Hard:* an option is up to four VISA calls, each able to fail, and other
threads' calls come in between; `visa::lock` waits without limit unless told
otherwise; a channel whose `viClose` failed leaves its locks behind. *Correct
when* an exclusive lock makes options atomic, a script is never told it has a lock
it has not, `visa::last-error` reflects a command of several calls, a mode read
can be set again, and scripts that lock in order do not wait for one another
forever.

**Searching and parsing resources** (`find.c`, `parse_rsrc.c`). *State:* VISA's
find list, the result so far. *Hard:* the loop asks for one name more than there
are; resources change meanwhile; any call may fail. *Correct when* a search that
succeeds is complete and VISA's list is closed however it ends.

**Single-call commands** (`clear.c`, `assert_*.c`, `gpib_*.c`, `get_attribute.c`,
`set_attribute.c`, `tcl_utils.c`): one VISA call each, its status stored. *Hard:*
the widths of integers, and that an attribute of any width is read into a zeroed
64-bit place. *Correct when* an integer reaches VISA as given or is refused, and an
attribute that is read can be set again.

**File transfer** (`read_to_file.c`, `write_from_file.c`): one VISA call and a
size. *Hard:* the size is taken before VISA opens the file, and cast. *Correct
when* the command tells what has been moved.

**Package initialisation and constants** (`tclvisa.c`, `visa_constants.*`):
registration, once per interpreter. **Build, installers, documentation, demos**:
no behaviour of the library.

Interactions: the mode decides how output and input read a timeout (`blocking` in
`ChannelOutput` and `ChannelInput`, where a `SwitchMode` action between commands
stands for all of `VisaChannel`); everything stores its status in the last error;
sessions are what every other component's channels stand for.

## 2. Modules and how they correspond to the code

`PROJECT.json`, under "map", names for every definition the lines it stands for.
`X_Name` variants of a definition (such as `Result_PartialAsZero`) are deliberate
mistakes, used only to see that the properties notice them.

**VisaStatus** – the values of `ViStatus`, by class. `VI_ERROR_TMO` is a class of
its own because the I/O procedures treat it so; `CONN_LOST` stands for every other
listed error (among them `VI_ERROR_RSRC_LOCKED` in `SerialPort`); `FILE_ERROR`
for the two whose message has no bracketed code (`visa_utils.c:50-57`);
`UNLISTED` for those the table lacks.

**VisaChannel** – blocking mode and timeout; a step is a whole command.

| Definition | Code |
|---|---|
| `blocking`, `timeout`, `lastError` | fields of `VisaChannelData` |
| `tmo` | `VI_ATTR_TMO_VALUE` of the session |
| `tclBlocking`, `SetBlockMode` | Tcl's flag, which follows a driver that returned 0 |
| `blockModeRM`, `blockModeSame`, `blockModeBlocking`, `blockModeNonblocking` | the branches of `blockModeProc` |
| `setOptionTimeout`, `getOptionTimeout` | `fconfigure -timeout` |
| `tclvisa_set_attribute`, `tclvisa_get_attribute` | `visa::set-attribute`, `visa::get-attribute` on the timeout |
| `tclvisa_clear` | a command with one VISA call |
| `GetUInt32`, `ToInt`, `ToLong`, `FitsInt` | the conversions; `Half` is 2^31 in the code, any positive number in the model |

**TimeoutRegister** – the abstract specification: per channel, one timeout that
mode switches leave alone, and the answer VISA gave last. In blocking mode a new
value takes VISA's consent (`Set`), and a value may be lost only on the way back to
blocking mode, in a step that leaves a refusal or a warning of VISA's as the
answer (`Lose`). `VisaChannel` implements it with
`value <- IF blocking THEN tmo ELSE timeout`, `mode <- blocking` and
`answer <- lastError`. A warning counts as a refusal here although the driver takes
it for success: VISA has not taken the value.

**LastError** – `storeLastError` and `visa::last-error` in several threads, each
of which runs `strtok` step by step: `FirstToken`, `NextToken` (reads the shared
place), `SkipSpace` (writes it back, dereferences the token, frees the copy).
`PerThread` says what kind of C library it is, and `mixed` holds the threads whose
two calls of `strtok` had another thread's call in between.

**ByteStream** – the abstract specification of either direction: bytes arrive
once and in order, and a run of them may be dropped only by a step that is seen
to fail.

**ChannelOutput** – `puts`, `puts -nonewline`, `flush` and `close` over
`outputProc` (`Result` is its mapping of status and count to result and errno)
and Tcl's `FlushChannel` (`FlushFailed`, `FlushWrote`). Bytes are numbers, so that
repetition and reordering show. `closing` says that the command is a `close`,
after which the channel is gone and nothing else happens (`phase = "closed"`), and
`dropped` counts what failed commands gave up. Implements `ByteStream`.

**ChannelInput** – `gets`, `read` and `fconfigure -queue` over `inputProc` and
Tcl's `Tcl_Gets` and `DoReadChars`. `Begin` is either command; it loops over
`GetInput`, `inputProc` and `InputConsumed` until it ends by `GetsLine`,
`GetsEof` or `GetsBlocked`, `ReadFull` or `ReadShort`, or by `InputFailed`. Which
bytes are newlines, and where reads are cut, is free. `blocking` is the driver's
flag and `tclBlocking` Tcl's, which `SwitchMode` moves as `VisaChannel` does: the
combination of a blocking driver under a Tcl that takes it for non-blocking
occurs. `getOptionQueue` adds VISA's count to Tcl's. Implements `ByteStream`.

**VisaSession** – opening an RM and instruments, closing, the end of a thread and
a new one in its place. `closeProc` has three outcomes: closed, refused, or not
open any more. A call of `viOpen` that fails changes nothing here.

**VisaLocks** – `visa::lock` and `visa::unlock` of sessions that belong to threads
and are opened on ports. `tclvisa_lock` begins the command, `LockReturns` is
VISA's answer when there is one (`viLock`: at once, after the wait, or never),
`LockFails` any other error. `ex`, `sh` and `key` are VISA's; `told` is the stack of
locks the script believes in. `Reopen` is `close` and another `visa::open`: the
session's locks go, or, when `viClose` failed, stay in `orphaned` with nobody to
undo them. `ordered` holds the threads that have never asked for a lock while
believing to hold one on the same or a later port.

**SerialPort** – extends `VisaLocks` by what the locks are for. A command is begun
by `setOptionProc`, `getOptionProc` or `tclvisa_set_attribute`, which lists its
VISA calls in `op[s].todo`, and goes on one call at a time (`SetNext`, `GetNext`);
other sessions come in between. `setTtyAttributes`, `toVisaParity`,
`fromVisaStopBits` and so on are the code's functions of those names; `StoredRead`
says which status a command of several reads stores. A session on the raw
attribute may set one and a half stop bits, which `-mode` has no word for.
`asked[s]` remembers the attributes and values of the script's last `-mode` under its
lock: all four, without those VISA warned about, and none after an error.

**PortLock** – the abstract specification of an exclusive lock: a port has at most
one holder, which takes it only when nobody has it and gives it back itself, and
while there is one nobody else's command changes the port. `SerialPort` implements
it with `holders` the sessions whose scripts believe in an exclusive lock and
`command <- op`: nested locks, shared locks, the wait, keys and failed calls of
VISA are the detail it hides.

**Commands** – the remaining commands of one session. `visa::find` goes one call at
a time (`tclvisa_find`, `FindNext`, `FindEnd`), and so does
`visa::write-from-file`, which takes the size of the file (`write_from_file`,
`getFileSize`) before VISA opens it (`viWriteFromFile`); resources and the file
change in between. `SingleCall` is the common shape of the commands that make one
VISA call, each of which is an action named after its function;
`Tcl_GetUIntFromObj`, `Tcl_GetUInt16FromObj` and `Tcl_GetUInt32FromObj` are the
code's, with `Bad` for an error. `AttributeRead` and `AttributeWritten` are what
`visa::get-attribute` and `visa::set-attribute` do to an attribute's value. `U16`
and `U32` are 2^16 and 2^32 in the code, any positive numbers in the model.

**MC…** – constants for TLC; each says what its instance contains.

**VisaChannelProofs, LastErrorProofs, ChannelOutputProofs, ChannelInputProofs,
VisaSessionProofs, SerialPortProofs, SerialPortTypeProofs, CommandsProofs** – the
proofs about the module each is named after (section 5).

## 3. Runs

| Run | Checks | Instance and why it is enough |
|---|---|---|
| `visa_channel` | `TypeOK`, `TimeoutKept`, `TclNeverAhead`, `ReadBackDenotesTimeout`, `NonblockingNeverBlocks`, `ImplementsRegister` | One device channel and one RM channel (channels share nothing, and the theorems are for any number); a 2-bit unsigned integer with script values beyond and at each edge of both its signed and unsigned ranges, so every conversion is met. |
| `visa_channel_revert` | violates `RevertReported` | as above |
| `last_error` | `TypeOK`, `AnswerOwnUnlessMixed`, `CrashExplained` | Two threads, the first with two channels: a second thread to interfere, a second channel to be mistaken for the first. One place of `strtok` for the process. |
| `last_error_shared` | violates `AnswerIsOwnError` | as above |
| `last_error_no_code` | violates `AlwaysAnswers` | as `last_error` |
| `channel_output` | `TypeOK`, `ImplementsStream`, `OkMeansReceived`, `LastErrorExplainsAnswer`, `BlockingPutsReturns`, `PutsReturnsOnceReady` | Up to 3 bytes at once, 6 in all: a write can be cut twice, a line can follow a failed one, and output can wait for a flush or a close. |
| `channel_output_spin` | violates `NonblockingPutsReturns` | as above |
| `channel_input` | `TypeOK`, `ImplementsStream`, `AnswerExplained`, `QueueIsWhole`, `InputReturns` | A buffer of 2 bytes and 4 sent, any of them newlines, and reads of 3 bytes and of all there is: a line may take two reads, a read may hold the end of a line and the start of another, and full and short reads both occur. |
| `visa_session` | `TypeOK`, `ChannelsOwnSessions`, `PanicOnlyIfDisorderly`, `NoOrphans`, `ExitClosesSessions` | Two threads and three numbers: an RM with two instruments, two RMs, or one thread's numbers given to the other. |
| `serial_port` | `TypeOK`, `LockedModeIsWhole`, `LastErrorExplains`, `ModeReadsBack`, `DeadlockOnlyOutOfOrder`, `ImplementsPortLock`, `CommandsReturn` | Three layouts. Two threads on one port: one uses all options and holds two nested locks, the other writes `-mode` and takes one lock, with four forms of `visa::lock` (exclusive and shared, finite and infinite, with and without key); one valid mode, different from the port's initial one in each attribute but the data bits, and one invalid; VISA may warn about the parity, one of the calls whose status is dropped, and the stop bits, whose status is stored. Two threads that lock two ports in either order, with sessions that VISA may fail to close: the smallest circle. One thread that has opened its port twice: the circle of one. |
| `commands` | `TypeOK`, `FindIsComplete`, `FindListClosed`, `LastErrorExplains`, `IntegersReachVisa`, `AttributeRoundTrip`, `TransferIsTold` | Two resources, so that the loop runs twice and its last call finds nothing. A 1-bit and a 2-bit unsigned integer, with script values on either side of each edge; attributes of a narrow signed and a wide unsigned type; files on either side of the largest count, and none. |
| `commands_whole_file` | violates `EntireFileWritten` | as above |

The largest are `channel_input` (440,989 distinct states), `last_error` (405,216),
`serial_port` (317,832, the slowest with about 100 s on two workers) and
`visa_channel` (260,762).

What they show, beyond single steps:

- *Timeout.* Whatever mixture of switches, sets and reads, by either interface
  and with any call failing, the script's timeout is in force when the channel
  blocks – unless VISA refused, or warned, when it was to be restored (`TimeoutKept`,
  `ImplementsRegister`). A set command in
  non-blocking mode never reaches the device, and what makes a non-blocking
  channel wait is only VISA's refusal of the zero timeout, or its warning, which the
  code does not look at (`NonblockingNeverBlocks`). The -1 that `fconfigure -timeout` shows for
  `VI_TMO_INFINITE` can be set again (`ReadBackDenotesTimeout`). Because of the
  inverted result of `blockModeProc`, Tcl's flag may lag behind the driver's, but
  only to the harmless side (`TclNeverAhead`).
- *Last error.* Even with one `strtok` place for all threads an answer is wrong only
  when another thread's call came between a command's own two
  (`AnswerOwnUnlessMixed`), and only then, or on a message without a code, is a null
  pointer dereferenced (`CrashExplained`). `crashed` ends the behaviour, which is why deadlock is not checked there.
- *Output.* Partial writes are counted right in every mode (`ImplementsStream`). A
  command that succeeds has delivered its line and all that waited before it, a
  non-blocking one too, because Tcl's loop goes on until it has; a `close` that
  says nothing has left nothing behind (`OkMeansReceived`).
- *Input.* A `gets` that hands over a partial line, and a `read` that falls short,
  are explained by the last error, even where Tcl and the driver differ about the
  mode (`AnswerExplained`). A read error discards bytes, and only then are bytes
  lost. `-queue` is exactly what the device has sent and no command has delivered
  or given up (`QueueIsWhole`).
- *Sessions.* While RMs are closed after their instruments, a channel always
  stands for its own thread's session, even when VISA gives numbers out again;
  and then Tcl cannot meet two channels of one name, which would end the process
  (`PanicOnlyIfDisorderly`). If not, a stale channel may come to stand for another
  session, and closing it closes that one: what the properties still say of this
  case is `NoOrphans` and `ExitClosesSessions`. Deadlock is not checked because a
  panic ends the process.
- *Serial port.* Scripts that believe in an exclusive lock are one per port, and
  the lock keeps others' calls out, even in the middle of a command begun before
  and after a nested lock is undone (`ImplementsPortLock`), so that after a
  `-mode` under it without an error each attribute VISA did not warn about is as the
  script asked (`LockedModeIsWhole`); a warning about one of the first three is
  dropped, and the script is not told that the attribute is unset (section 6). What `-mode`
  reads is a mode that can be set again, even when another session's calls came
  between its four reads, unless the stop bits have no Tcl form; under the lock
  it is what the script has set (`ModeReadsBack`). The last error tells whether a
  command of several VISA calls failed, with the exceptions the property names.
- *Locks.* Threads wait for one another, or for themselves, only when one of their
  scripts has asked for a lock on the same port as one it holds, or an earlier one
  (`DeadlockOnlyOutOfOrder`). A lock kept by a session that VISA failed to close is
  no circle, and nobody can undo it: `CommandsReturn` makes an exception for it.
- *Commands.* A search that is not reported as failed has found what there was
  when it began (`FindIsComplete`), and closes VISA's list however it ends
  (`FindListClosed`); the status of its last `viFindNext`, which always fails, does
  not become the last error (`LastErrorExplains`). Of an error that `visa::find` or
  `visa::parse-rsrc` suppresses the property asks nothing but that the last error be
  that error or success: manual and code disagree (section 6). A suppressed timeout of a file
  transfer does, and the result is what has been moved (`TransferIsTold`). A
  narrow negative attribute comes back positive from `visa::get-attribute`, but
  setting what was read restores the attribute (`AttributeRoundTrip`).

Bounds: `Ints` and `Sizes` (the integers scripts pass and the sizes of files),
`States` (the values of attributes), `MaxLine`, `MaxBytes`, `Total`, `BufSize`,
`ReadSizes` (bytes), `MaxNest`, `Full`, `Lockers` and `Unclosable` (locks, and
which sessions use what), `Declinable` (the attributes VISA may warn about). The other models are finite without bounds.

## 4. Fairness

Only what the process itself guarantees:

- `ChannelOutput`, `ChannelInput`: weak fairness of the steps within a command.
  The thread keeps running and `viWrite` and `viRead` return, since they have a
  timeout; a script that sets `VI_TMO_INFINITE` asks for the contrary and is
  excluded. Nothing is assumed of the device: `BlockingPutsReturns` and
  `InputReturns` hold for one that never takes or sends anything. A `gets` fed
  faster than it reads, without a newline, need not return; here the device
  sends `Total` bytes at most. `PutsReturnsOnceReady` takes readiness as a premise.
- `VisaSession`: Tcl goes on closing the channels of an interpreter it has begun
  to delete. Scripts need not close or exit.
- `SerialPort`: weak fairness, per session, of the return of VISA calls. `viLock`
  returns when the lock is free or its timeout is over. A script need not unlock,
  so `CommandsReturn` leaves out a `visa::lock` without a timeout while VISA has
  reason to wait. That VISA gives up a lock for some other reason (`LockFails`) is
  possible but never relied on.

`VisaChannel`, `LastError` and `Commands` make safety claims only.

## 5. Proofs

Each theorem is for every value of the constants that the `ASSUME` of its module
allows: any sets of channels, threads, sessions, ports and resources, any widths,
sizes and script values. TLC evaluates these assumptions for the instances of
section 3. `PROJECT.json` lists the theorems with the properties they state.

`VisaChannelProofs` (from `ChannelAssumption`):

- `TypeCorrect`: `TypeOK` is inductive. The substance is that each integer a
  script can pass becomes a `ViUInt32` (`GetUInt32Type`).
- `TimeoutIsKept`, `TclIsNeverAhead`: `TypeOK /\ TimeoutKept /\ TclNeverAhead` is
  inductive, with one step per action. `TimeoutKept` needs `TypeOK` only so that
  the functions can be updated; the history variable `lost` is what makes it
  inductive through a failed restore.
- `NonblockingIsKept`: the action property, from `TypeOK`.
- `ReadBackIsFaithful`: `ReadBackDenotesTimeout` after each command, resting on
  `RoundTrip`: `(ViUInt32)(int) u = u`, and the same for `long`.
- `RefinesRegister`: initial states map to initial states, and every step to
  `Set`, `Switch`, `Lose`, `Call` or a stutter of `TimeoutRegister`. A driver that
  never restored the timeout would not refine it: `Lose` needs VISA's refusal.
- `ModesAreThoseAssumed`: a step of `VisaChannel` that changes a flag of a channel is
  a `SwitchMode` of `ChannelInput` and of `ChannelOutput` for that channel, idle and
  with nothing buffered. `TclNeverAhead` is needed: without it `blockModeBlocking`
  could leave Tcl's flag set where `SwitchMode` has it clear.

`LastErrorProofs` (from `LastErrorAssumption`):

- `TypeCorrect`: `TypeOK`, for either kind of `strtok`. The invariant `Underway` says
  that even a single place for all threads points into the buffer of some thread.
- `AnswersOwnUnlessMixed`, `CrashesExplained`: for either kind. The inductive
  invariant adds how far each thread has got (what its copy, its place and its list
  hold at each `pc`, unless it is in `mixed`) and that a thread asks about its own
  channels. A thread is put in `mixed` by whoever calls `strtok` at the same place
  while it is between its own calls.
- `AnswersAreOwn`: `AnswerIsOwnError` under `PerThread = TRUE`, where `mixed` stays
  empty. The run `last_error_shared` shows it fail otherwise.

`ChannelOutputProofs`, `ChannelInputProofs` (from `OutputAssumption`,
`InputAssumption`): buffers and counts of any size.

- `TypeCorrect` and the safety invariants rest on `Counted`: the bytes in Tcl's
  queues, in the caller's buffer, at the device and given up add up to what was
  written or sent; and on `Returned`: what the result of the last call of the
  driver says of its status and count.
- `OutputIsStream`, `InputIsStream`: the refinement of `ByteStream`. Each step
  moves a run of bytes from the front of what is pending, drops a run by failing,
  or changes nothing `ByteStream` sees.
- `RepeatsOnlyOnTimeout`: the only way round Tcl's flush loop is a non-blocking
  timeout, so that finding 4 is the only way for it to spin. `Repeats` ties the
  result and errno of `outputProc` to the status that made them.
- `BlockingFlushRunsOut`, `InputRunsOut`: a measure that each step of the command's
  thread makes smaller and no other step makes larger, of the phases that are left
  and, on input, of the bytes not yet read (`Unread`).

`VisaSessionProofs` (from `NumbersAssumption`): `TypeCorrect`,
`NoSessionOrphaned`, `ChannelsOwn`, `OrderlyNeverPanics` from one invariant. It adds
`ChannelsOpen`: as long as no RM has been closed before its instruments, every
channel stands for an open session, so that a number VISA gives out again belongs
to no channel. `ExitLeavesNothing` and `ExitRunsOut`: the channels of a thread that
ends become fewer with every step it takes, and when there are none left its
sessions are closed.

`SerialPortProofs` (from `LocksAssumption` and `PortAssumption`):

- `LocksInv` connects belief with VISA: the locks in `told[s]` are the `sh[s]` shared
  and then the `ex[s]` exclusive ones that VISA has, no two sessions conflict, and
  the ports of an `ordered` thread rise with its requests.
- `NoDeadlockInOrder`: in a circle of waiting threads take one that waits for the
  latest port (finitely many, so there is one); its blocker waits for a later one.
- `HolderWrites` (`OnlyHolderWrites`): belief in an exclusive lock means that every
  other session on the port is locked out (`Believes`), whatever command it is in.
- `LocksImplementLock`: the refinement of `PortLock`. Two scripts never believe in
  exclusive locks of one port (`OneHolder`), a belief changes only in a step of its
  own session, from nobody's or to nobody's, and a port changes only in a step of a
  session that nobody locks out.
- `CallsRunOut`: each return of a VISA call shortens the list of calls to come, of
  the session that waited for it and of no other.
- `ErrorsTold`: while an option other than `-ttystatus` is read, the status so far is
  an error exactly when a value is missing (`Readings`).
- `ModeIsWhole`: each pair of attribute and value in `asked[s]` is in the port or among
  the calls still to come (`Agreed`); other sessions are kept out by `Believes`.

`SerialPortTypeProofs` (from the same, on top of `LocksInv` and `ModeInv`):

- `ModeReadBack`: what `-mode` and `visa::set-attribute` have still to set is in the
  domain of its attribute (`CallGood`), so the ports are (`PortsGood`), and so is what
  a reading `-mode` has read so far, which under the lock is what the script asked
  for (`ReadGood`).
- `TypeCorrect`: `TypeOK`, from these. `TypeOK` bounds the locks of a session by
  `MaxNest`; the inductive form counts the lock it waits for as well (`Nested`).

`CommandsProofs` (from `CommandsAssumption`):

- `FindComplete`, `FindCloses`: the loop invariant `Searching` of `visa::find`. The
  names before `find.left` are in the result, VISA has the others in its list.
- `TransfersTold`: the invariant `Writing`. Without an argument, and while nobody else
  has touched the file, the count is its size.
- `IntegersExact`, `ErrorsExplained`: from what a single call does; any widths.
  `ErrorsExplained` leaves the suppressed errors of searching open, as its property.
- `AttributesRoundTrip`: `AttributeRoundTrip`, for attributes of any width. All that
  is needed of `%` is in `Small`, `Negative` and `Whole`: what it does to a number
  below the width, to a negative one, and to the width itself.
- `TypeCorrect`: `TypeOK`, from these invariants.

Every invariant and action property of the runs, and every refinement, is thus a
theorem. Only model-checked are the liveness properties: `BlockingPutsReturns`,
`PutsReturnsOnceReady`, `InputReturns`, `ExitClosesSessions`, `CommandsReturn`. TLAPS
does not reason about `ENABLED`, on which fairness rests, nor by induction over a
measure. For all but `PutsReturnsOnceReady` the measure itself is proved above
(`BlockingFlushRunsOut`, `InputRunsOut`, `ExitRunsOut`, `CallsRunOut`): what is left to
TLC is that a command which is not over has a step to take and takes it.

## 6. Where code and documentation disagree

Each has a run of its own whose counterexample shows it; `PROJECT.json` quotes
the texts.

1. `visa_channel.c:195`, `blockModeProc` returns `setVisaTimeout(…) ? 0 : -1`, and
   `TCL_OK` is 0: `fconfigure -blocking 1` throws after it has restored the
   timeout and succeeds when it has not.
2. `get_last_error.c:52`, `strtok` keeps one place per process in the GNU library:
   threads that ask for their last errors at once can get each other's text.
3. `get_last_error.c:52`, `isspace(*s)` comes before the test for NULL: after
   `VI_ERROR_FILE_ACCESS` or `VI_ERROR_FILE_IO` (whose messages have no code in
   brackets) `visa::last-error` dereferences a null pointer.
4. `visa_channel.c:277`, a zero result of `outputProc` makes Tcl call it again at
   once: a non-blocking `puts` to a device that takes nothing does not return.
5. `write_from_file.c:59`, the size of the file is cast to 32 bits:
   `visa::write-from-file` without a count writes only a part of a file of 4 GB or
   more, and succeeds; the manual says that it writes the entire file.

Some more need no run, since a single line shows them:

- `visa_channel.c:276`: a timeout is suppressed by every read but only by a
  non-blocking write, where the manual (`tclvisa.tex:245`) says by "IO operations".
- `find.c:60`, `parse_rsrc.c:45`: an error these commands suppress is stored as
  `VI_SUCCESS`, where the manual (`tclvisa.tex:254`) says that `visa::last-error`
  returns suppressed errors too. `LastErrorExplains` accepts either.
- `visa_channel.c:753-770`: `setTtyAttributes` looks at its first three statuses only
  for errors. When VISA warns that it does not support the baud rate, the parity or
  the data bits, `-mode` succeeds, and `visa::last-error` gives the status of the
  last call.
- `visa_channel.c:803`: a warning of `viSetAttribute` makes `fconfigure -timeout`
  succeed although VISA did not take the value; `visa::last-error` has the warning.
- `visa_constants.c:28`: `Tcl_NewStringObj(value, 0)` takes a length of 0, so that
  `TCLVISAVERSION` is empty.
- `visa_channel.c:452-460`: `getOptionProc` returns -1, and not the options, for an
  `fconfigure` that names none.
- `visa_channel.c:181`: `closeProc` returns VISA's status, of which Tcl takes every
  value but 0 for an error: a warning of `viClose` makes `close` report one although
  the session is closed.

## 7. What is left out

- Tcl and VISA themselves, beyond what the driver sees of them.
- **Package initialisation and constants** (`tclvisa.c`, `visa_constants.*`): a
  straight list of registrations, once per interpreter, that stops at the first one
  Tcl refuses; it keeps no state that a later command reads but the constants, which
  are Tcl variables. That an integer constant is narrowed to an `int`
  (`TMO_INFINITE` is -1) enters `VisaChannel` and `Commands` through the integers
  scripts pass.
- The access mode and the timeout of `visa::open` (`open.c:41-57`,
  `tclvisa.tex:86-91, 754`). `VisaSession` and `VisaLocks` open every session
  unlocked; an exclusive lock taken on opening is, for every other session, the same
  as a `visa::lock` by a session that has done nothing else yet, which `VisaLocks`
  has after every `Reopen`, but the wait of such a `visa::open` and its failure are
  not modelled.
- The conversion of the timeouts of `visa::lock` (`lock.c:58`) and `visa::open`
  (`open.c:56`): a `long` cast to `ViUInt32`, without the check that
  `Tcl_GetUInt32FromObj` makes elsewhere. `VisaLocks` knows only finite and infinite.
- A script's own reaction to an error, such as a retry of a `puts` that timed out
  after some bytes.
- Attributes whose value is a string: `visa::get-attribute` has no case for them
  (`get_attribute.c:56` reads into an integer).
- `visa::get-attribute` and `visa::set-attribute` are modelled in three places, by
  what the properties of each tell apart: the timeout in `VisaChannel`, the stop
  bits in `SerialPort`, any other integer in `Commands`, which takes C's `long` for
  64 bits.
- In `Commands`, script integers beyond a C `long`, and a `long` of 32 bits, in
  which `ftell` fails for a file of 2 GB.
- The patterns of `visa::find` and the names of `visa::parse-rsrc`; the bytes of a
  file transfer, which count only as a number.
- The texts of messages and the values of attributes that no property tells
  apart (XON, XOFF, flow control, modem lines).
- Memory: a message overwritten by a second error is leaked, as is the
  channel's data when `viClose` fails. A property of the channel cannot see
  either.
- The cap of a buffer at 0xFFFFFFFF bytes in `inputProc` and `outputProc`: an
  `int` never exceeds it.
- Encodings and end-of-line translation, which are Tcl's.
- Build, installers, documentation and demos.

The last error is left as it was by two commands that succeed, `-ttycontrol` and
setting the timeout of a non-blocking channel, which makes no VISA call. The models
have it so; the property of the former names the exception, and `VisaChannel`
makes no claim about the latter.

## 8. How the project grew, and where it may go

Order: `VisaStatus`, `VisaChannel` with `TimeoutRegister` (the logic most of the
driver depends on) and its proofs; `LastError` and its proofs; `ByteStream` with
`ChannelOutput` and `ChannelInput`; `VisaSession`; `SerialPort`; `Commands`; then
`read`, `-queue`, `puts -nonewline`, `flush`, `close`, attributes, and locks on
several ports (`VisaLocks`); the proofs about every component; `PortLock`, the
measures behind the liveness properties, and the link between `VisaChannel` and the
modes of `ChannelInput` and `ChannelOutput` (`ModesAreThoseAssumed`).

Worth adding: theorems that hold of `gets` and `puts` together on one channel, whose
modules now share only its modes; and an abstract specification of
`visa::last-error`, for which the properties of three modules now stand.
