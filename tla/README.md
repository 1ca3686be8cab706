# FerrisTools in TLA+

FerrisTools is a collection of small C++ utilities that do not depend on each
other. This directory holds TLA+ models of them, TLC configurations that check
the models on small instances, and theorems that TLAPS proves for every value
of the constants. Paths are relative to the repository (`src/` is its root).

## 1. The system and what is modelled

| Component | State it keeps | Operations | Status |
|---|---|---|---|
| `asio-client/asio_tcp_client.hpp` | `io_service_`, `socket_`, `deadline_`; the result of the call in progress on the caller's stack | `connect`, `read`, `write`, `read(asio_message&)`, `write(asio_message&)`, `abort`, constructor, destructor | modelled, proved |
| `asio-client/ssl_tcp_client.hpp` | four pointers built by the first `connect`, the TLS session in `socket_` | `init`, `connect`, `hand_shake`, `read`, `write`, `abort`, destructor | modelled, proved |
| `asio-client/asio_udp_client.hpp` | socket, `deadline_` | `receive`, destructor; `send_to` changes no state of the client | modelled, proved |
| `md5-in-windows/md5` (`Hash`, `md5Hash`, `md5.c`) | `status`, `m_hash`; `MD5Context`: chaining words, bit count, partial block | `reset`, `add`, `getHash`; `MD5Init`, `MD5Update`, `MD5Final` | modelled but for the destructor and the compression function, proved |
| `utf-encode-convert-using-boost`: text | none (pure functions) | `is_utf8`, `get_utf8_length`, `remove_corrupt_tail` | modelled, proved |
| `utf-encode-convert-using-boost`: directories | the file system | `enum_directory` | modelled, proved |
| `utf-encode-convert-using-boost`: the rest | none | conversions, temporary names | not modelled (section 6) |
| `String/String2HexByteUtil.hpp` | none; the caller's buffer | `HexStringToHexBytes`, `HexBytesToHexString` | modelled, proved |
| `CurlUtil/CurlUtil.hpp` | response buffer, curl handle, two lists | `CurlSend`, `WriteMemoryCallback` | modelled, proved |
| `EasyLog-A_CppClass_for_log` | singleton pointer, log file | `Inst`, `Log`, what its statics do | modelled, proved |
| `md5-in-windows/md5-test.cpp`, `CurlUtil/libcurl`, `git-alias-windows/profile` | | | not modelled (section 6) |

The components do not call each other. Inside the three network clients the
interaction is what is hard: the calling thread, the handlers that `io_service`
runs, the timer queue, the network and other threads that call `abort()` all
work on one socket and one deadline.

### How a network client works

A call (1) sets the one `deadline_` of the object, (2) starts an asynchronous
operation whose handler writes to `ec` and `length` on the caller's stack, and
(3) runs handlers one at a time (`run_one`) until `ec` is no longer
`would_block`. A second chain of handlers, `check_deadline`, is always waiting
on the timer. Setting a deadline cancels its wait, so that it runs, sees that
the deadline has not passed, and waits again for the new one. When it finds the
deadline passed it closes the socket (UDP: cancels the operation), which makes
the operation's handler run with `operation_aborted`, and goes back to sleep.

What has to be right, and what a unit test hardly reaches:

* there is one such actor, never none and never two;
* it never acts on the deadline of an earlier call, and never sleeps past the
  one in force;
* an operation's handler and the actor may be ready at the same time, and the
  outcome must be sound whichever runs first;
* no operation outlives the call whose stack it points to;
* after a transfer that failed half way the connection is not used on;
* `abort()` comes from another thread, without a lock;
* `ssl_tcp_client::init()` may throw after any of its steps;
* a timed out UDP receive must not lose a datagram that came in just then.

The other components are sequential, with two exceptions. `EasyLog` may be used
by several threads, and by other statics before `main()` and after it, without
a lock anywhere. `enum_directory` makes many system calls between which other
processes may change the directories it walks through. In the rest what is hard
are boundaries (bytes at the limit of a range, a text cut in the middle of a
character, a buffer that is just large enough, an `int` that is not) and steps
that fail half way (`realloc` in the middle of a response, a wrong character
after some bytes were written).

`PROJECT.json` lists these and the other hazards line by line, with the
properties that would catch them, or why no property does.

## 2. Modules

| Module | What it is |
|---|---|
| `AsioTimer` | `deadline_timer` and the timer queue, as operators on a record. External: modelled from the calls the clients make |
| `TcpClient` | `asio_tcp_client` with its network and its aborting threads |
| `BlockingCall` | abstract: what a blocking call with a time limit promises |
| `MCTcpClient` | instances of `TcpClient` for TLC |
| `UdpClient`, `MCUdpClient` | `asio_udp_client`, its instance |
| `TimedMailbox` | abstract: what a receive with a time limit promises |
| `SslClient`, `MCSslClient` | `ssl_tcp_client`, its instances |
| `Utf8` | what well-formed UTF-8 is: the reference, not translated from the code |
| `Utf8Util`, `MCUtf8Util` | the text functions of `utf-encode-convert.hpp`, their instance |
| `DirectoryWalk` | `enum_directory` and the processes beside it |
| `HexUtil` | `String2HexByteUtil.hpp` |
| `CurlUtil` | `CurlSend` and its callback |
| `MCUtilities` | instances of these three |
| `Journal` | abstract: what a log file shared by several writers promises |
| `EasyLog`, `MCEasyLog` | `EasyLog`'s singleton and `Log`, instances |
| `AsioTimerProofs` | lemmas about the timer's operators |
| `TcpClientProofs` | the inductive invariant of `TcpClient` and its consequences; it implements `BlockingCall` |
| `UdpClientProofs` | the inductive invariant of `UdpClient`, and that it implements `TimedMailbox` |
| `SslClientProofs` | the inductive invariant of `SslClient` and its consequences |
| `Utf8Proofs` | the text functions are right for every text |
| `HashObject` | abstract: what the interface of class `Hash` promises |
| `Md5Stream`, `MCMd5Stream` | `Hash`, `md5Hash` and the context of `md5.c`, instances |
| `Md5StreamProofs` | lemmas about division with remainder, the inductive invariant of `Md5Stream`; it implements `HashObject` |
| `EasyLogProofs` | what becomes of `EasyLog`'s object, the stamps, and that the file implements `Journal` |
| `UtilityProofs` | the inductive invariants of `CurlUtil`, `HexUtil` and `DirectoryWalk`, and their consequences |

`UtilityProofs` and `MCUtilities` extend three modules that have nothing to do
with each other; therefore their initial states, steps and specifications carry
a prefix (`HexInit`, `WalkNext`, `CurlSpec`). `MCUtilities` is a program that
calls one of the three (`used`): their behaviours are not mixed, since none can
see what another does.

### AsioTimer

The record keeps `expiry` (what `expires_at()` returns, as ticks to go, 0 once
passed, `Inf` for `pos_infin`), `waiting` (queued `async_wait`s), `wakeAt` (when
the timer queue completes them), `mayWait` (Boost's
`might_have_pending_waits`) and `queued` (completed waits whose handlers are to
be run). `wakeAt` is separate from `expiry` because the timer queue keeps the
time at which a wait was queued for: storing a new expiry without cancelling
the wait does not move it. `mayWait` is kept because a cancel is skipped when
it is false. Both matter in the race described in section 4. The owner's calls
to `cancel`, `expires_at` and `async_wait` are single operators.

### TcpClient

`pc` is the owner's place: `idle` between calls, `resolving` in the blocking
resolver (before the deadline is set), `loop` in the `do ... while` of
`connect`, `read` or `write`, `gone` after the destructor. `ec` and `moved` are
the variables on the caller's stack; `op` is the current step of the composed
operation: with the kernel, or completed with its handler `queued`. `sock` is
the socket, `live` the directions in which the connection can still carry
bytes, `timer` is `deadline_`, `ret` what the last call returned. `age`,
`aborted` and `torn` are history that only properties read.

One action per step of the code: the beginning of each call (`Connect`,
`ResolveSucceeds`, `Read`, `Write`, `ReadMessage`), one handler run by
`run_one` (`RunConnectStep`, `RunTransferStep`, `CheckDeadline`), the timer
queue noticing that a wait is due (`DeadlineWakes`), the returns
(`ReturnFromConnect`, `ReturnFromTransfer`, `HeaderDone`, `BodyDone`), the
network, the clock, `abort()`, and the destructor. `check_deadline` and the
owner's `expires_from_now` are one action each: the three steps of another
thread's `abort()` fall before or after them, not between their own accesses to
`deadline_`. This is an abstraction: the finer interleavings of that data race
are not explored, and what is shown about racing aborts is shown at this grain.

Handlers that are ready form a set, not a queue: an action may run any of them.
`io_service` runs them in the order in which they became ready, so the model has
more behaviours than the code, and what is checked holds for the code's. The
exception is liveness, where it makes no difference because at most two
handlers are ever ready and neither is starved.

`abort()` by the owner is one action (`OwnerAborts`). By another thread it is
three, `AborterCancels`, `AborterClears` and `AborterSets`, the three places
where `expires_from_now` touches the timer, with no lock around them.

`read(asio_message&)` and `write(const asio_message&)` are compiled only with
`USE_ASIO_PROTOCOL`, and `asio_message` is not in the repository: the length of
the body is any number the header may decode to. `write(const asio_message&)`
is `write` with another length. `local_address_` is left out, the endpoint it is
made from is used for nothing else.

### BlockingCall

The contract: a call begins with its time ahead of it; time runs out only for a
call with a limit (or, if other threads may abort, for any); the link is cut
under a call only after its time has run out; only connecting brings the link
up; a call that reports success had a link to succeed on. `TcpClient` implements
it with `link` = connected, `due` = the deadline in force has passed,
`outcome` = the sign of what was returned.

### UdpClient and TimedMailbox

`receive` with the same machinery. The differences: the actor cancels the
operation and keeps the socket, so what the socket's buffer holds stays;
`async_receive` tries the socket at once; there is no `abort()`. Datagrams are
opaque. `TimedMailbox` promises messages once each and in order, and that a
receive gives up only when its time is up and then takes nothing out; the
mailbox is mapped to what the handler has stored, then what the operation
holds, then the socket's buffer (`Box`); its receiver's state to `Phase`, its
limit to `Limited` and `Due`, what a receive gave to `Outcome`. `send_to` is one
synchronous system call that changes nothing `receive` uses, and no state of the
client: there is no action to write for it.

### SslClient

`parts` counts the pointers that `init()` has assigned; `InitThrows(k)` is an
`init()` that throws in step k, and the next `connect` finds what it left.
`stopped` is the state in which `io_service` is once it has run out of work:
`run_one` then returns at once, without an error, and `Spin` is a round of the
loop that does nothing. `session` is the SSL object's handshake, which is not
reset by a reconnect; `stale` is history and says that it was begun on an
earlier connection. `plain` is what was decrypted and not yet read, which needs
no network. Callers are assumed to have connected before they use anything
else, and not to go on after a `connect` that returned -1: before that the
pointers are null. `abort()` from another thread is the same code as in the TCP
client and is checked there.

The branch `if (err) break` in the loops is left out: `run_one(err)` reports no
error in this use.

### Md5Stream and HashObject

A state is a `Hash` object with its context: `status`, `m_hash` (`<<>>` is NULL),
`buf`, `bits` and `in`. The caller hashes a `source` of which it has `fed` so
many bytes to `add()`; where it cuts is free (`Sizes`), so every way to add any
message is a behaviour. The compression function is not computed: `buf` is the
sequence of blocks absorbed so far (`MD5Transform` appends one), which tells
apart any two digests made of different blocks. The rest is done as the code
does it: the two words of the bit count with the carry that shows in a
comparison, the completion of a block begun earlier, whole blocks, the rest, the
mark 0x80, one or two blocks of padding, the count. `in` starts with anything
and keeps what an earlier message left there. `new` may fail inside `getHash()`;
`bad_alloc` then reaches the caller, as it does with the Windows compilers this
directory is for, which ignore the exception specification.

`Digest` is the reference: pad the message as a whole, then cut it into blocks.
The layout of the length field (low word first, little-endian, contrary to
"MSB-first" in the comment at `md5.c:116`, which is not MD5's) is shared by both.
`HashObject` says what `Hash.h` offers for any algorithm: the digest of all that
was added, however it was cut and however often it is asked for; errors in the
wrong state, and only there.

Assumed: `uint32` has `WordBytes` bytes and `WordMax` values (on Windows
`unsigned long` has four bytes; where it has eight, `md5.c` indexes past `in`
and does not compute MD5 at all), and the machine is little-endian. In
the theorems nothing ties `WordMax` to `WordBytes`: it is any number of whole
blocks of bits, so the small words of the TLC instances are covered too.

### Utf8 and Utf8Util

`Utf8` is the standard's table of well-formed byte sequences. `Utf8Util` has a
caller with a text (`whole`) that it may cut anywhere (`Cut`: `text` is what is
left) and hands to the three functions. `is_utf8` and `get_utf8_length` are one
action per character, with the pointer as a position `str`: `PassCharacter`,
`Refuse` and `Accept` with the checks of lines 225-287 (length of the sequence
by its first byte, continuation bytes, the code point put together and compared
with its limits); `CountCharacter` and `LengthDone` with the jumps of
`get_utf8_length`. Text that is not well-formed lets a jump pass the terminator:
what is found there may be any byte (`Found`), for `Overrun` bytes.
`remove_corrupt_tail` is one action; its loop over at most three bytes is
`StopsAt`.

### DirectoryWalk

`stack` has a frame for each nested call of `enum_directory`: the directory, and
of its iterator which entries it must still give (`must`: there all the time),
may give (`may`: there at some time) and gave (`seen`). `at` is what comes next.
Each system call is an action: opening the iterator, which may fail and then ends
that call without a word to its caller (`refused`), its steps (`Advance`, and
`ReadFails` where `++pos` throws), and the two questions about an entry. Between
any two of them another process may add or remove an entry (`Change`). `MaxLinks`
is the system's own limit of symbolic links in a path (ELOOP), the only thing that
ends a circle of them.

### HexUtil

A call is begun with a text or a block of bytes, a length, a buffer's size, and
pointers of which one may be NULL (`null`); refusals return at once. Then one
step for each byte written, so that what a call that fails in the middle leaves
in the buffer can be seen. The lengths (`Lengths`, which may be negative) are an
`int` of which `MaxInt` is the largest: `Wrapped` is what `2 * nInLen` becomes,
for an `int` that wraps around.

### CurlUtil

One call of `CurlSend` from the first `malloc` to `free`, each step an action
that may fail wherever the code, or libcurl, may: `malloc` (unchecked: `memset`
ends the process), `curl_easy_init` (a NULL handle is used on), the header list,
`realloc` in the callback (`OutOfMemory`: `chunk.memory` becomes NULL and its
`size` stays), the transfer, the cookie list, and a `bad_alloc` of the strings
(`BadAlloc`: nothing is cleaned up). libcurl may split the body in any way
(`Write(n)`). `owned` is what was allocated and not released. A body is made of
zeros and two other characters, since it is copied as a C string (`CString`).

### EasyLog and Journal

The process goes through `phase`: "statics", where one thread constructs the
statics of the files whose turn comes before `Log.cpp`'s; "main", from the
constructor of `_instance` to its destructor, with the other statics and `main()`
and its threads; "exit", where the statics constructed first are destroyed last.
Which files come first the language does not say. `StaticsLog` says whether
their constructors and destructors log (`MayLog`). The constructor of `_instance`
resets the pointer; its destructor deletes the object and leaves the pointer,
which a later `Inst()` finds (`Exit`). `Log()` uses no member of its object, so
the model goes on where it was deleted, and says that it was (`deleted`). It is
assumed that `main()` joins its threads before it returns, and that a static
does not log while another thread runs.

`Inst()` is five steps (the check, the constructor, `auto_ptr::reset`'s delete and
assignment, `get`), `Log()` is the time, `localtime()`, `strftime()` field by
field from the one `struct tm` that `localtime()` has, opening the file, the
three pieces that go into the stream's buffer, and closing, which writes them at
the end of the file in one go. The file may not open. `main.cpp` logs from one
thread and from no static; nothing in the class says that only it may.

That closing adds a record in one step is an assumption: on POSIX a write to a
file opened with `O_APPEND`, as `std::ios::app` does, is one. The C libraries of
Windows, for which `src/README.md` says the class is made too, go to the end of
the file and then write, and a record that another thread writes in between may
be overwritten. For several threads there, nothing about the file is shown; for
one thread it makes no difference.

`Journal` is a file to which a call adds one whole entry or nothing. `EasyLog`
implements it with `journal` <- `Records`, the file's pieces three by three.

## 3. What the runs check

| Run | Question | Bounds | States |
|---|---|---|---|
| `tcp_single_thread` | The owner alone: type, no orphaned operation, truthful returns, no torn stream continued, the actor sleeps on the deadline in force, the contract, every call with a timeout leaves its loop | timeouts 0, 1, 2; 2 endpoints; 2 bytes | 69 thousand |
| `tcp_abort` | One thread calls `abort()` at any moment: still one actor, and no call cut that was neither late nor aborted | timeouts 0, 1; 1 endpoint; 2 bytes | 380 thousand |
| `tcp_abort_race` | does a call with a timeout still return? (no: section 4) | timeouts 0, 1 | |
| `udp_receive` | type, exactly once and in order, polling, the mailbox, every receive with a timeout returns | timeouts 0, 1, 2, none; 2 kinds of datagrams, 4 arrivals, buffer of 2 | 50 thousand |
| `ssl_client` | any step of `init()` may throw and `connect` be tried again: type, the actor keeps the service alive unless `init()` left it half built, truthful returns, no call cut early, a short read is the last, calls with a timeout return | timeouts 0, 1, 2; 2 endpoints; 2 bytes; up to 2 bytes left over | 123 thousand |
| `ssl_half_built` | does a completed operation still end its call? (no: section 4) | timeouts 0, 1 | |
| `md5_stream` | type, context and digest, the contract of `Hash`; the memory for the digest may run out | blocks of 4 bytes, count words of 5 bits; texts of 21, 12 and 134 bytes; pieces of 0, 1, 2, 3, 5, 9, 30 | 37 thousand |
| `utilities` | `CurlSend`: the block has room for what is written, what is returned is the body or a beginning of it, handle and buffer are released. Conversions: no byte beyond the buffer but the terminating zero, exact, the length told is that of the result. `enum_directory`: what was there all the time is listed once; the walk ends | every body of up to 4 characters, every split, 2 cookies; every text of up to 4 characters over both sides of each limit, blocks of up to 4 bytes, lengths from -2, 4 sizes, `int` up to 7; 2 directories, a link in a circle, 2 changes | 1.6 million |
| `easylog` | an object that main() has stays until it is deleted unused; a record's time is its thread's; the journal | 2 threads, 2 calls each, one of the threads also in statics; 2 ticks over midnight | 1.3 million |
| `easylog_race` | is an object alive while it is used? (no: section 4) | 2 threads, 1 call each | |
| `easylog_statics` | is there one object, and is it collected? (no: section 4) | 1 thread, 2 calls | |
| `utf8` | type; `is_utf8` exact; the count exact; the cut character, and nothing else, removed | every text of up to 4 bytes over 15 bytes at the limits and of up to 5 over 5 bytes, cut anywhere | 2.1 million |

`utilities` and the three runs of `EasyLog` are about calls, or a process, that
end, and therefore do not check for deadlock.

Why the bounds are enough: timeouts 1 and 2 tell an earlier call's deadline from
a later one's and 0 is no timeout; two endpoints give a first, a next and a
last; two bytes give a transfer that stops in the middle; one aborting thread
can come between any two steps, and the theorems cover more. Two datagrams in the
buffer and four in all let one receive time out while another datagram waits.
Blocks of four bytes with a length field of two give every remainder, both kinds
of padding, and pieces that end before, at and after a block or span several;
the text of 134 bytes overflows both words of the count. In one text every byte
is different, which shows any byte out of place; another is made of 0 and 0x80,
which padding is made of. Four characters of a body give every place for a zero
and three calls of the callback behind the first. Twice four bytes
are more than an `int` up to 7 counts. Two threads are all that a race needs, and two
calls each let one thread find what the other left, or what a static left. Five bytes hold a character
of each length with the one before it. One link back, of which a path may follow
one, gives two levels of the same directories and the path that is refused.

Properties worth a word:

* `OneDeadlineActor` counts the waits and ready handlers of `check_deadline`.
* `NeverCutEarly` speaks of the step that closes the socket, or aborts the UDP
  operation, and of the ticks counted since the call set its deadline.
* `NoResumeAfterTear` is why a failed transfer is safe to report without its
  count: the direction it failed in carries nothing until the next `connect`.
* `ShortReadIsTheLast` is the TLS client's counterpart, where `read` returns the
  count instead of the error.
* `NothingLost` says that accepted datagrams are, in order, those returned,
  the one in the handler or operation, and those in the buffer.
* `IsUtf8Exact` compares the code's arithmetic on code points with the
  standard's table, in which there is none.
* `StaysSettled` is what several threads may rely on: call `Inst()` once in `main()`
  before there are others, and all of them use that one object until it is
  deleted when nobody does, whatever statics did before.
* `LongTailRemoved` speaks of texts of three bytes and more, `StampIsOwn` of records during which no other thread converted a time,
  `WritesWithin` of lengths that an `int` counts twice: section 4 says what
  happens otherwise. The models contain those cases; the properties name them.

### Fairness

`FairSpec` asks weak fairness of the handlers `run_one` would run, of the timer
queue, of the returns and of the clock: `run_one` blocks only while no handler is
ready and no timer due, and the loop calls it again and again. Nothing is
assumed of the network, which may never answer, of callers, which may never
call, or of threads that abort. `TimedCallReturns` is about the loop. The
resolver runs before the deadline is set, and may take any time.

`DirectoryWalk` asks weak fairness of the walk's own next step and nothing of the
processes beside it. The other modules have no liveness property: their loops
are bounded by the data they are given, or wait for a server that nothing bounds.

## 4. Where code and comments part

* `tcp_abort_race`: `asio_tcp_client-main.hpp:18` says of a write
  `// timeout = 5s`. With `abort()` in another thread
  (`asio_tcp_client.hpp:81`) a later timeout can be lost. `abort()` cancels the
  wait; the owner runs `check_deadline`, which sees the old deadline and goes
  back to sleep on it; `abort()` then clears the flag that says somebody sleeps.
  The next call's `expires_from_now` finds the flag cleared and wakes nobody.
* `easylog_race` and `easylog_statics`: `Log.h:3` calls the class a "simple
  singleton (automatic garbage collection)". Two threads that find no object make
  two; the `reset` of the second deletes the first, which its thread is using
  (`LivesWhileUsed`; or both delete nothing, and one object is never collected).
  And with one thread the order of statics is enough (`CollectedSingleton`): a
  static of another file that logs before `_instance` is constructed makes an
  object that is then forgotten; one whose destructor logs after that of
  `_instance`, if there was no object, makes one that nobody deletes, and if there
  was, uses the deleted one, as `auto_ptr`'s destructor leaves its pointer. TLC
  reports one trace for each run. The others are found by the same instances:
  the use after the end with `LivesWhileUsed` in `EasyLogStatics.cfg`, the object
  made at the end where `Init` starts in `phase = "main"`.
* `ssl_half_built`: `ssl_tcp_client.hpp:168` says
  `// Block until the asynchronous operation has completed.` `init()` takes a
  non-null `socket_` for a complete initialisation (line 219), but lines 226-230
  can throw after it was assigned. The next `connect` has no actor; after its
  operation nothing keeps `io_service` going, it stops, and the next call spins.

Seen while modelling, where no comment or document is contradicted, or where the
statement is too obvious for a run. The models behave as the code does:

* `ssl_tcp_client.hpp:121`: the SSL object is kept over a reconnect; its handshake
  is done already, so that a second `hand_shake` returns 0 at once, without a
  word from the new peer. `TruthfulReturn` names this exception (`stale`).
* `ssl_tcp_client.hpp:222`: an `init()` that throws before `socket_` was assigned
  is begun anew, and what it had built is lost.
* `md5Hash.cpp:24`: `Hash::add` takes a `size_t` and passes it on as `unsigned`; where
  `size_t` is wider, a piece of 2^32 bytes or more is cut. The theorems assume
  shorter pieces (`ShortPieces`).
* `md5.c:156` clears the context `In case it's sensitive`, but `sizeof(ctx)` is the
  size of a pointer: the last block and the count stay. Digests are not
  affected (`reset` starts the context anew).
* `Log.cpp:13`: with several threads a record may carry the time of another thread, or the date of one
  and the hour of the other.
* `String2HexByteUtil.hpp:104`: the zero after a text needs one byte more than is
  asked for; and from 2^30 bytes on `2 * nInLen` is no longer an `int`. A negative
  length is no error: nothing is converted, and `HexBytesToHexString` tells a
  negative length (`IntCounts` leaves these lengths out).
* `CurlUtil.hpp`: the two lists are never freed, a block that `realloc` could not
  grow is lost, a body is returned as far as its first zero, an exception leaves
  everything behind. Only the connection has a timeout.
* `utf-encode-convert.hpp`: `remove_corrupt_tail` does not look at texts of less
  than three bytes, though they may be cut; `get_utf8_length` may jump over the
  end of a text that is cut or otherwise not well-formed.

## 5. What is proved

For `TcpClient`, for every set of timeouts, every number of endpoints and bytes,
and every set of aborting threads, from `TcpConstants` (the bounds are positive
numbers and the timeouts lie within theirs) alone:

| Theorem | Property |
|---|---|
| `Invariant` | `IInv`, the inductive invariant |
| `TypeCorrect` | `TypeOK` |
| `OneActorAlways` | `OneDeadlineActor` |
| `NothingOutlivesItsCall` | `NoOrphanedOperation` |
| `ReturnsAreTruthful` | `TruthfulReturn` |
| `TornStreamsStayDead` | `NoResumeAfterTear` |
| `NeverEarly` | `NeverCutEarly` |
| `ActorNeverOversleeps` | `ActorSleepsOnDeadline`, if no other thread aborts |
| `KeepsContract` | `Spec => ContractSpec`, the refinement |

None of the properties is inductive. `IInv` adds to them: `CallShape` (the
owner's place, the call and the operation belong together), `StepFits` (what a
step may still transfer fits into what is left), `ResultSound` (what the
operation may report, before it has reported it), `DeadDirections` (a failed or
torn direction is not live: that is why a torn stream stays dead) and
`DeadlineOwned` (unless aborted, a finite deadline has at least as many ticks to
go as the call's timeout has left, which is why the actor cannot cut it early).
`StartSteps`, `NetworkSteps`, `HandlerSteps`, `ReturnSteps` and `OtherSteps`
prove that each action preserves what `IInv` says of the call, `TimerSteps` what
it says of the deadline; `AsioTimerProofs` reduces each timer operation to its
effect on the expiry and on the number of waits. The refinement matches every
action with one of the contract's or with a stutter (`StepAllowed`).

For `Md5Stream`, for every set of texts and every way to cut them, every block
size, word size and content of fresh memory, from `SizesAssumption` (a count word
holds whole blocks of bits, a block more than the length field),
`InputsAssumption` (texts are bytes) and `ShortPieces` (no piece is longer than
an `unsigned` can say, see section 4):

| Theorem | Property |
|---|---|
| `TypeCorrect` | `TypeOK` |
| `PiecesAddUp` | `ContextDescribesMessage` |
| `DigestCorrect` | `DigestIsOfMessage` |
| `KeepsContract` | `Spec => ContractSpec`, the refinement |

`IInv` is their conjunction with `DigestMeansEnd` (a digest is there only after
`getHash()`, so nothing is added to an overwritten context). The argument:
`AddBitsCorrect` (the two words always hold the count, carry included),
`UsedCorrect` (the low word alone tells how much of a block is filled, even after
it has wrapped), `AbsorbDescribes` and `UpdateDescribes` (the context of the
first n bytes and a piece give that of n + len), `FinalBlocksArePadding` and
`FinalIsDigest` (what `MD5Final` absorbs is what is missing of the padded
message). The first lemmas of the module are about the uniqueness of quotient and
remainder, on which all of them rest, since block and word sizes are arbitrary.

For `UdpClient`, for every set of timeouts and datagrams and every size of the
buffer, from `UdpConstants` (the bounds are positive and timeouts lie within theirs
or are none), alone:

| Theorem | Property |
|---|---|
| `Invariant` | `IInv`, the inductive invariant |
| `TypeCorrect` | `TypeOK` |
| `OneActorAlways` | `OneDeadlineActor` (no run) |
| `NothingOutlivesItsCall` | `NoOrphanedOperation` (no run) |
| `EachDatagramOnce` | `NothingLost` |
| `PollsFind` | `PollFindsWaiting` |
| `NeverEarly` | `NeverCutEarly` (no run) |
| `KeepsMailbox` | `Spec => MailboxSpec`, the refinement |

`IInv` adds `CallShape` (the owner's place, the call, its operation and its
result belong together: a success has a datagram and an error has none),
`HoldsWaiting` (a receive that began with a datagram waiting holds one in its
operation: no cancel takes it away), `CutWhenDue` (what was cancelled was due)
and `DeadlineOwned`. `NothingLost` follows from three facts about the mapped
mailbox: an arrival appends to it (`ArriveGrowsBox`), a return takes its first
message (`ReturnTakes`), everything else leaves it as it is (`BoxStays`). The
refinement takes one lemma for each action that changes the mapped state.

For `SslClient`, for every set of timeouts, number of endpoints and bytes, and
every set of steps at which `init()` may throw, from `SslConstants`:

| Theorem | Property |
|---|---|
| `Invariant` | `IInv`, the inductive invariant |
| `TypeCorrect` | `TypeOK` |
| `ServiceStaysAlive` | `DeadlineActorKeepsServiceAlive` |
| `NothingOutlivesItsCall` | `NoOrphanedOperation` (no run) |
| `ReturnsAreTruthful` | `TruthfulReturn` |
| `NeverEarly` | `NeverCutEarly` |
| `ShortReadsEnd` | `ShortReadIsTheLast` |

`IInv` adds to the parts that the TCP client's has: `ResultSound` (a session is
done only where a handshake ended well or an earlier connection left it),
`ReadSound` (bytes are left decrypted only behind a read that was filled, so a
short read leaves none, and its direction is dead) and `BuildSound` (a call runs
only with all four parts; the service stops only where `init()` left it without
an actor; elsewhere there is one).

For `Utf8Util`, for every set of texts of any length, from `Utf8UtilAssumption`
(texts are bytes):

| Theorem | Property |
|---|---|
| `TypesHold` | `TypeOK` |
| `IsUtf8IsExact` | `IsUtf8Exact` |
| `LengthStops` | `StopsAtTheEnd` (no run): no jump passes the end of well-formed text |
| `LengthCounts` | `CountsWellFormed` |
| `TailIsRemoved` | `LongTailRemoved` |
| `TailKeepsWellFormed` | `KeepsWellFormed` (no run): whole text loses nothing |

`Table3` and `Table4` turn the code's comparisons of code points into the rows of
the table, `PassesExact` says that a character passes exactly if the table has
it. `NoOverlap` (no character begins inside another) makes well-formed text a
row of characters; `Walked` is the invariant of both loops (what lies behind the
pointer is well-formed and counted, and no character straddles it). For the cut
text `CutBetween`, `CutInside` and `LastCharacter` say where the cut may have
fallen, and `TailIs` what the backward loop finds.

For `CurlUtil`, for every set of bodies and number of cookies, from
`CurlUtilAssumption` (bodies are bytes):

| Theorem | Property |
|---|---|
| `CurlWritesWithinBlock` | `WithinBlock` |
| `CurlReturnsBody` | `ResponseIsBody` |
| `CurlReleasesHandle` | `HandleReleased` |

`CurlInv` says what each step of `CurlSend` relies on: the block holds the part of
the body that was received, with room for the zero (`BlockHoldsBody`); a transfer
that says `CURLE_OK` has received all of it (`OkMeansComplete`); what is returned
was copied from the block (`ReturnsBlock`); what is used is owned, at every place
where a step may fail (`OwnsWhatItUses`). The block is read as a C string:
`CStringIsPrefix` and `PrefixGrows` are about its first zero.

For `HexUtil`, for every set of texts, blocks, sizes and lengths and every largest
`int`, from `HexUtilAssumption`:

| Theorem | Property |
|---|---|
| `HexWritesWithin` | `WritesWithin` |
| `HexConvertsExactly` | `ConvertsExactly` |
| `HexLengthIsOfResult` | `LengthIsOfResult` |
| `HexReadsBack` | `ReadsBack` (no run): what one function wrote the other takes, and converts back |

`BytesSoFar` and `TextSoFar` are the invariants of the two loops: what was written
stands for what was read, pair by pair, and its length is that of what was read;
`HexCalls` says that a function runs only if its checks let it. `ValueOfDigit` and
`FormatByte` say that the code's arithmetic on characters is the inverse of the
place of a digit, `WrappedCounts` that the check of the size means what it says as
long as an `int` counts the digits. Of longer blocks (section 4) nothing is stated
but that a refused call leaves the caller's length alone.

For `DirectoryWalk`, for every tree of files, directories and links, every limit of
links and any number of changes, from `DirectoryWalkAssumption` (entries are in
directories, and the root is one):

| Theorem | Property |
|---|---|
| `WalkListsOnce` | `ListedOnce` |
| `WalkListsFiles` | `ListsFiles` (no run): only regular files are listed, each with a path that leads to it |
| `WalkListsExactly` | `ListsExactly` (no run): in a tree that nobody changes, and whose directories all open, the list is that of the regular files |

`OnTheWay` says how the frames of the nested calls and `temp_path` extend each
other; `ListedWasSeen`, that a listed file was reached through entries that were
seen, so that none is reached twice; `NothingMissed`, that a file that must be
listed is, or some frame must still be given the entry that leads to it, or has
just been given it (`StillToCome`). A frame that returns has given all it must,
and what is no directory when it is asked about leads to no such file
(`DirectoryOnTheWay`). `RouteInv` adds that iterators give entries of their own
directories and that without changes all that is listed is there. `Paths` are
those of up to `MaxDepth` entries, for any `MaxDepth`.

For `EasyLog`, for every number of threads, calls, and seconds in a day, from
`EasyLogAssumption`:

| Theorem | Property |
|---|---|
| `SingletonIfMadeAlone` | `CollectedSingleton` and `LivesWhileUsed`, as they stand, if `StaticsLog = FALSE` and no two threads ever find no object at once (`[]MakesAlone`) |
| `SettledForGood` | `StaysSettled`, with no such condition |
| `StampIsOfItsThread` | `StampIsOwn` |
| `OneThreadIsUndisturbed` | with one thread and `StaticsLog = FALSE`, as in `main.cpp`: `CollectedSingleton`, `LivesWhileUsed`, and `StampIsOwn` without its exception |
| `FileIsJournal` | `Spec => JournalSpec`, the refinement |

The first names programs for which the comment in `Log.h` is right: its two
conditions are those that the two runs of section 4 break. `ObjectInv` says of such
programs: only `main()` and its threads run (`WhoRuns`); one thread makes the
object, and only while there is none (`OneMaker`); what was made is the object or
is about to be (`MadeForUse`); who is past `Inst()` uses it (`Used`).
`SettledForGood` needs no invariant but the types, because it is about what every
step keeps from any state in which the object is settled.
`StampInv` says that the one `struct tm` holds the time of the thread
that reads it unless another called `localtime()` since (`Formatting`). `FileInv`
says that the file holds whole records and each buffer the first pieces of one;
`OneMoreRecord`, that closing the file, the only step that changes it, adds one
entry to the journal.

So every invariant, every safety property of steps and every refinement that a
passing run checks is a theorem. Only model-checked are the liveness properties
(`TimedCallReturns`, `TimedReceiveReturns`, `WalkEnds`), which are out of the
prover's reach. The four runs that expect a violation show one behaviour each,
where there is nothing to prove.

## 6. Not modelled, and why

* `CurlUtil/libcurl`: declarations and macros of a third-party library, about 4,650
  of the 6,590 lines of implementation in the repository. There is no code of
  this project in them, and no behaviour of its own: what `CurlSend` relies on is
  in `CurlUtil`, marked external. The map covers most of the rest.
* The conversions of `utf-encode-convert.hpp` (lines 111-181, 289-305) pass their
  arguments on to Boost.Locale. `charset()` and the macros at the end of the file
  use names that the repository does not define. The temporary names are printed
  from the clock and a random number.
* `md5-test.cpp`: a sample caller; its one `add` and one `getHash` are behaviours of
  `Md5Stream`. Its fixed buffers show in any test.
* `git-alias-windows/profile`: configuration of a shell.
* TLS, Boost.Asio and the file system beyond what the code relies on; the
  arithmetic of MD5's compression function (fixed tables and rotations, no state
  besides the chaining words); the destructor of `Hash`, the byte swapping of
  big-endian machines and `uint32` of eight bytes; the wording of messages,
  display strings, `asio_message` (not in the repository).
* The preconditions that callers must keep, such as a `connect` before anything
  else in `ssl_tcp_client`, or threads that end before `main()` does in `EasyLog`:
  the models start no call that breaks them.
* Writes of several threads to `EasyLog.log` on Windows, where a record may be
  overwritten (section 2, EasyLog).

What a next step could add: the finer interleavings of the data race between
`abort()` and `check_deadline`, and a theorem about how late the actor can be
while other threads abort (`ActorNeverOversleeps` is about the owner alone).
