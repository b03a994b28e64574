# TLA+ models of the aesdchar driver and the aesdsocket server

This directory models the parts of the repository that carry its own logic: the
character driver `/dev/aesdchar` with its circular buffer
(`src/aesd-char-driver`), the socket server that uses it (`src/server`), the
scripts that load the one and start the other, and the two examples about
processes and threads (`src/examples`). It contains the models, their TLC
configurations and the TLAPS proofs.

    tlc -config MCAesdCharSafety.cfg MCAesdChar     # one run
    tlapm AesdCharProofs.tla                        # the proofs of the driver

`PROJECT.json` lists the runs, for each definition the lines it translates, for
each property a slip in the code that breaks it, the findings, the hazards the
properties are aimed at, and the theorems.

## 1. Inventory

| Component | State | Operations |
|---|---|---|
| Circular buffer, `aesd-circular-buffer.[ch]` | ten entries `{buffptr, size}`, `in_offs`, `out_offs`, `full` | `init`, `add_entry`, `find_entry_offset_for_fpos`, the `FOREACH` macro |
| Character driver, `main.c`, `aesdchar.h`, `aesd_ioctl.h` | one `aesd_dev`: the buffer, the command under construction `circle_buff_entry`, a mutex; per open file `f_pos` | `open`, `release`, `read`, `write`, `llseek`, `unlocked_ioctl` (`AESDCHAR_IOCSEEKTO`), module load and unload |
| Socket server, `aesdsocket.c`, `queue.h` | a singly linked list with one node per thread (`thread_complete`, id, socket); per thread the packet buffer and an open file; strtok's static pointer | accept loop with reaping, `thread_func` (receive, store or seek, answer), signal handler and `exit_safely`; without `USE_AESD_CHAR_DEVICE` an ordinary file, a mutex and the timestamp thread `timer_handler` |
| Start, stop and load scripts | what `file_path` names, the loaded module, the server that listens and those that start | start, stop, load, unload |
| `examples/threading`, `examples/systemcalls` | a mutex and per-thread data; child processes | a thread that waits, locks and reports; `system`, fork/exec/wait |
| `finder-app`, `student-test`, build and test scripts | none of their own | straight-line utilities |

How they interact:

- `aesd_write`, `aesd_read`, `aesd_ioctl` and `aesd_llseek` call the circular
  buffer with the device mutex held. The driver owns the memory the entries
  point to; `add_entry` returns the pointer it overwrites and `aesd_write`
  frees it.
- All processes share one command under construction. A write without a newline
  extends it, a write with one commits it, whoever wrote the earlier parts.
- Every server thread opens the device, writes one packet (or seeks), and reads
  the device from its file position to the end as the answer.
- The accept loop shares the list nodes with the threads: `thread_complete` is
  set by a thread and read by the main thread without a lock.
- `exit()` in any thread ends all of them; the device outlives the server.
- The server creates what is at `file_path` when nothing is there, and
  `exit_safely` removes it; the load scripts remove and make the device node at
  the same path, while the server may be running. The start script runs the
  server in the foreground and loads the module when the server has ended.
- A second server shares the port with a first one up to `listen`, and the path
  from its `creat` on.

What is hard in it, and what makes each part correct:

- *Circular buffer.* Equal offsets mean empty or full, and only the flag tells.
  It must hold the last ten entries in order through any number of wrap-arounds,
  and the search must agree with the entries laid end to end.
- *Driver.* File operations of several processes interleave wherever the kernel
  may sleep: at the mutex, in `kmalloc` and `krealloc`, in the copies from and to user
  space. Allocations fail and copies stop early in the middle of a command.
  Each block must have one owner, be freed once, and have been asked for with
  room for all that is copied to it; a reader must not lose the
  entry it copies from; writes must look indivisible; no early exit may keep the
  mutex.
- *Server.* Packets arrive in pieces; answers are read while other threads write
  and evict; threads complete while the main thread walks the list; a thread
  that fails takes down the others. A packet must be stored once, as one
  command, and answered with everything up to it; a node must outlive its
  thread; clients that are silent or do not read must not block the accept loop
  or each other; the answer of a client that reads must end. A zero in a packet
  cuts it, its newline included, and what is left stands in front of the next
  packet. `strtok`'s one static pointer serves all threads, and outlives the
  buffer it points into.
- *Life of the server.* Starts, stops, loads and unloads by several shells
  interleave with each other and with threads that open the path with `O_CREAT`.
  What a running server works on must stay what it is; a stop must end.
- *Threading.* Calls on the mutex and `pthread_create` fail; the structure must
  be freed once, and the section entered with the mutex only.
- *System calls.* Each of open, fork, dup2, execv and waitpid fails on its own
  path; an interrupted waitpid leaves a child behind that later calls meet, and
  that they must not wait for in the place of their own.

## 2. Modules

| Module | Role |
|---|---|
| `BoundedFifo` | abstract: a queue of the most recent `Capacity` items |
| `AesdCircularBuffer` | the buffer; `KeepsLatest` says it implements `BoundedFifo` |
| `AesdCircularBufferProofs` | its theorems |
| `CommandLog` | abstract: the device as its writers see it, each write one step |
| `AesdChar` | the driver; extends `AesdCircularBuffer`; `ImplementsLog` says it implements `CommandLog` |
| `AesdCharProofs` | its theorems on types, memory and the entry a read has found |
| `AesdCharLogProofs` | its theorems on bytes: leaks, newlines, the refinement, exact reads and seeks |
| `AesdSocket` | the server, on top of `CommandLog` |
| `AesdSocketProofs` | its theorems |
| `Lifecycle`, `LifecycleProofs` | both builds of the server, the timer thread, the scripts, and what lies behind `file_path`; its theorems |
| `Threading`, `ThreadingProofs` | `threading.c`, and its theorems |
| `SystemCalls`, `SystemCallsProofs` | the functions of `systemcalls.c`, and their theorems |
| `DataInduction` | lemmas the proofs share: induction over numbers and finite sets, sums, flattened sequences |
| `MCCircularBuffer`, `MCAesdChar`, `MCAesdSocket` | inputs for TLC, and the properties that need the bytes laid end to end |

The server is composed with `CommandLog` and not with `AesdChar`: the driver is
shown to implement the log, so the server's steps can treat a `write()` as one
step. A definition whose comment starts with "Slip" is a plausible mistake; no
specification uses it, and it shows that a property notices the mistake.

### Circular buffer

The variables are the members of the C structure. `SlotAt(i)` is the slot the
do-while loop of the search visits in iteration `i`, `CharOffs[i]` the running
sum `curr_char_offs` there, and `Count` the number of iterations.
`ForeachSize[n]` is the sum of the sizes over the raw array, as
`aesd_llseek` and `aesd_adjust_file_offset` form it. Both are functions on
`0..MaxOps`, the values of the loop counters in the code; so is `Offset` of
`CommandLog`, on the numbers of the commands.

### Driver

A file operation is a chain of actions with one boundary wherever the kernel may
sleep; `pc` runs `closed`, `idle`, `waiting` (at the mutex), `locked`, `copying`.

| Code | Actions |
|---|---|
| `aesd_open`, `aesd_release` | same names |
| `mutex_lock_interruptible` | same name, `LockInterrupted` (-ERESTARTSYS) |
| `aesd_write` | `WriteBegin`, `WriteNothing`, `WriteKmalloc[Fails]`, `WriteKrealloc[Fails]`, `WriteCopy` (copy, memchr, commit or keep, free, unlock) |
| `aesd_read` | `ReadBegin`, `ReadPastEnd`, `ReadFind`, `ReadCopy` |
| `aesd_ioctl` | `SeekBegin`, `IoctlRejected`, `aesd_adjust_file_offset` |
| `aesd_llseek` | `LseekBegin`, `aesd_llseek` (with `fixed_size_llseek` of the kernel) |
| module load and unload | `aesd_init_module`, `aesd_cleanup_module` |

Memory is explicit: `live` is the set of allocated blocks, `mem` their bytes,
`room` the size each was asked for at `kmalloc` or `krealloc`. The copies are not
held back by `room`: that they stay inside it is a property (`SizesExact`).
What the code does on its odd paths is in the model: `krealloc` overwrites the
only pointer before it is tested and the size stays, so the next write
reallocates NULL and starts with undefined bytes; a copy that moves nothing
leaves a block with size 0, over which the next write calls `kmalloc`;
`write_cmd = 10` passes both range checks and reads the word behind the array,
which is `circle_buff_entry.buffptr`.

### Server

`mpc` and `scan` are the main thread (accept, the list walk, `pthread_join`),
`cpc` each connection's thread. A client hands over its packet as a sequence of
segments, one per `recv()`. The code computes the size it passes to `realloc`
from the last segment alone; when the text does not fit in what the allocator
really gives (`Usable`), the model takes both outcomes for the bytes outside the
block, remembers the overrun, and from then on the process may abort. A segment
that fills `buff` has no zero behind it, so `strncat` may take one more byte
(`Stray`); likewise `strlen(send_buffer)`. `NUL` is the zero byte: `strncat`
stops at one, and what follows it in the segment is lost, a newline among it,
although that newline ends the receive loop. `strtok`'s static pointer is the
variable `saved`, shared by all threads, and `mixed` records that a thread has
been given a number of another client's text. The pointer stays where it is when
its buffer is freed, so a `strtok(NULL)` after that reads memory that may be
somebody else's: `SeekDangling` lets it find a token there or `SeekNoToken`
none, `dangled` records that it has been tried with success, and from then on
the process may abort too (strtok writes a zero behind a token).
`AcceptNoThread` is a `pthread_create` that fails, whose result the code
ignores. `Echo` is the return of `send()` and its `read()`; that `send()` may
wait for ever for a client that does not read is in the fairness, which gives it
to the clients in `Readers` only. A client that resets its connection makes
`recv` fail or `send` raise SIGPIPE; both end the process, and it may be
restarted next to the same device.

### Life of the server

`Lifecycle` leaves out what `AesdSocket` models inside a thread and keeps what
concerns the path: `open`, `write`, the file position, `close`, `remove`.
`build` is chosen in the initial state. Each shell has a program counter in its
script; one action is one command that changes something. A start script's
server goes through `Bind`, `Creat`, `TimerCreate` and `Listen`, each with its
failure (`StartFails`) and with what SIGTERM does to it there (`Terminated`).
What the code does, and the model with it:

- `-d` sets `daemon_mode`, `socket_connection_operations` tests `deamon_flag`: the
  server stays in the foreground and the start script is at its line 4 until the
  server ends. The first start on a fresh system therefore creates and uses an
  ordinary file `/dev/aesdchar`; the module is loaded when that server is stopped.
- With `SO_REUSEADDR` a port is taken only while somebody listens on it. A server
  started next to one that listens fails at `bind`, before its `creat`. One that has
  bound the port before the other listens goes on to `creat`, which truncates the
  file the other serves, packets included, and fails at its own `listen` only.
  The start script looks for a running server first, so this takes two scripts
  that start at once.
- `insmod` of a loaded module ends `aesdchar_load` before it makes the node;
  `modprobe`, used when no `aesdchar.ko` lies next to the script, does not.
  Either may fail for a reason of its own, and ends the script. `mknod` fails
  when a thread has re-created the path after the `rm`.
- On an ordinary file `O_APPEND` moves the position behind the packet, so an
  answer holds only what is appended after it; on the device the position stays
  at 0 and the answer holds everything.
- Without `USE_AESD_CHAR_DEVICE`, `exit_safely` joins the timer thread, which
  never ends. The thread that calls it first hangs, with the path removed and the
  other threads running; a second caller finds the join refused and ends the
  process. One SIGTERM does not stop that server, two do. A server that has its
  timer thread and does not listen yet hangs in the same way, and its timer thread
  goes on writing stamps to whatever file the path names by then.

`FileAssumption` says that `open` with `O_CREAT` always finds a file that no
thread has open; the model does not describe a file system that is full.

`served`, `touched`, `rival` and `overlap` are history variables of the properties;
`rival` says that some server had bound the port, and not yet called `creat`,
when the one that runs began to listen.

### Threading

`pc` is where each thread is, `owner` the mutex, `heap` the allocated
`thread_data` structures, named after their threads. `lockFailed` and `unlockFailed`
are history variables. After a failed call on the mutex the thread exits with
NULL, so its caller can neither free the structure nor read the flag, which
`threading.h:37-38` says it can. `DataFreedOnce` says that exactly these structures
are lost. Of the flag no property is stated: a structure that is returned has
it set by the same step, and one with the flag cleared is never returned.

### System calls

One process makes calls one after the other; `caller` is where it is (`idle`,
`opened`, `waiting`, `ended` by exit or abort), `kid` the state of each child
until it has been waited for. `fd` and `kidFd` follow the descriptor of the
output file through fork, dup2 and close. `abandoned`, a history variable, are
the children whose waitpid failed. `do_system` is one step: it returns true for
every status but -1, also for a command that failed, unlike its comment
(`systemcalls.c:9-12`) says, so no property is stated for it.

## 3. Runs

| Run | Question | Size |
|---|---|---|
| `circular_buffer` | Is the buffer, at its real capacity of 10, a queue of the last ten entries, and does the search agree with concatenation? | 11 k states |
| `driver` | Two processes that open, write, read and close; signals; load and unload. No leak, the reader's entry, refinement of the log, exact reads | 240 k |
| `driver_failures` | Two processes that write with failing allocations, short copies and bytes behind the newline: ownership, sizes, the newline rule | 200 k |
| `driver_seek` | Seeks from position 0 before the buffer wraps, also to the number one past the slots, lseek at any time | 27 k |
| `driver_liveness` | Does every call return? | 128 k |
| `server_packets` | Three clients with packets in pieces, one perhaps with a zero, resets and restarts: stored once, answered in full, sent as read | 546 k |
| `server_threads` | Everything a client can send, zeros, overruns, signals, threads that cannot be created, evictions: the list against the threads, seek numbers that are mixed up, answers without repetition | 1.2 M |
| `server_liveness` | Accepting with clients that are silent or do not read, answers that end, completed threads that are joined | 1 k |
| `lifecycle` | Two shells with all scripts, both builds, second servers: what is behind the path, kept packets, stale nodes, stops that end | 741 k |
| `threading` | Three threads with every call failing: mutex, memory, every thread exits | 1 k |
| `system_calls` | Commands with every call failing: which children are waited for and left behind, is the output file closed? | 7 k |

What the properties say is in the comments above them. The main results:

- `KeepsLatest`, `FindMatchesConcatenation`: the buffer
  is right, including positions at the boundary of two entries.
- `Ownership`, `SizesExact`, `CommandsTerminated`: no sequence of failed
  allocations and short copies leads to a double free, a use after free, a size
  that disagrees with its block, or a copy past the size the block was allocated
  with, and none leaves a newline in the command under construction. Memory can
  be lost on these paths (`NoLeak` is stated without failures).
- `ReaderEntryStable`, `ReadIsExact`: a read returns the bytes of the commands
  in a row from `f_pos` on, and the entry it found stays in place while the copy
  sleeps.
- `ImplementsLog`: concurrent writes are indivisible.
- `PacketStoredOnce`: a packet is stored once as one command, across restarts,
  until some client sends a zero. That packet loses its newline, and what is
  left of it becomes the beginning of the next one, whoever sends that: the
  property does not hold beyond. `AnswerCoversPacket`: its answer holds every
  command up to it; `SentWhileGrowing`: what is sent is what was read as long as
  commands do not get shorter (send_buffer is not cleared between chunks).
- `SeekFromStart`: for `write_cmd` 10, which both range checks let through, the
  word behind the array decides, and a seek that succeeds ends behind the stored
  bytes.
- `NodeOutlivesThread`: leaving the list walk after one removal keeps the list
  and the set of unjoined threads equal. `NextClientReaps`: the next client makes
  the main thread join a completed thread. Without a next client none is
  joined, so the last ones stay in the list.
- `MixUpStarvesOne`: when `strtok`'s shared position gives one thread the number
  of another's text, some thread still asks for a number and there is none for
  it. It ends the server, or reads on in a buffer that another thread has freed;
  then nothing is said any more, and the mix-up may go unnoticed.
- `AnswerNeverRepeats`: eviction under a running answer makes it skip bytes (also
  of commands that are still stored, and of the client's own packet), but no
  byte is read twice. (What is sent may hold the tail of an earlier chunk again,
  see `SentWhileGrowing`.)
- `PathStays`: from its start until a stop or a load or unload script, a server
  and all its threads work on one and the same file or device, which is what
  `AesdSocket` takes for granted. `FileKeepsPackets`: no packet in that file is
  lost or doubled by the timer thread, other threads or second servers, but for the
  `creat` of one that had bound the port before the first listened (`rival`).
- `AnswerHoldsPacket`, `NoStaleNode`: the driver does not go while a thread has
  the device open, and leaves no node behind unless an unload meets a load half
  way.
- `StopCompletes`: stopping the server with the device ends
  it and lets the start script go on. In the other build it does not.
- `HolderOwnsMutex`, `DataFreedOnce`: see Threading above.
- `ChildrenAccounted`, `FileClosed`: `do_exec` and `do_exec_redirect` wait for
  their own child and give back that one alone, whatever becomes of the children of
  interrupted calls, which are the only ones left behind; and no
  later command inherits the output file.

One run checks what a comment of the repository says and the code does not do,
with a counterexample: `seek_after_wrap`. `aesd_ioctl.h:27` calls `write_cmd`
"the zero referenced write command"; the code adds up array slots from slot 0 on
and compares the offset with the size of slot `write_cmd`, while positions count
from the oldest command. Once the buffer has wrapped and the sizes differ, these
are sizes of other commands: a seek may be refused, or end in another command
than the one it names. Where the sizes agree it is right, and a seek to command
0 that succeeds is right at every offset inside the oldest command. Likewise the
code adds a seek to `f_pos`, so that a second one on the same open file ends
behind the byte it names; the server seeks only on fresh files.

### Bounds

- *Capacity.* The buffer alone runs with 10 slots and sizes 1 and 2; the space
  is finite because offsets and sizes are, so any number of wrap-arounds is
  covered. In the driver 1 to 3 slots are enough to be empty, partly filled,
  full and wrapped; the theorems hold for every capacity.
- *Blocks.* `Buffptr` has one block more than the slots, for the command under
  construction. With failures a lost block leaves one fewer, and an allocation fails
  when there is none: with two slots and three blocks the device still
  fills and evicts, and after a loss it goes on with one entry and the command
  under construction. `driver_failures` has no reads, which change no block.
- *Processes.* Two in the driver: one in its operation, one disturbing it; the
  mutex admits no third. One suffices for the seeks, whose bodies run under the mutex.
- `MaxPending` stops writes without a newline, `MaxPos` seeks; both appear only
  in the guards of `WriteBegin` and `SeekBegin`.
- *Server.* Three connections: a node at the head, in the middle and at the end
  of the list, and a completed thread between running ones. `BufferSize` 5 and
  `AllocUnit` 8 or 4 keep the order of the real numbers (packets shorter and
  longer than the buffer, in blocks that hold them and in blocks that do not).
  In each of the two safety runs one packet has a zero.
  `Capacity` is 3 where stored packets are compared, so nothing is evicted, and
  1 where eviction under a running answer is the point.
- *Life of the server.* Two shells, so that each script meets each other one at
  every command; two connections, one leaving while the other opens the path;
  four ordinary files, one for each that can be open at once and one to be new;
  one time stamp per file (`MaxStamps`, only in the guard of `TimerOpen`).
- *Threading.* Three threads: one in the section, two waiting.
- *System calls.* Three process ids: the child waited for and two left behind.

Processes and blocks are interchangeable in the driver, so its safety runs use
symmetry; the liveness runs do not. The driver never stops and is checked for
deadlock. The server may stop (all clients served, or a signal), so deadlock is
not checked there; nor in the system calls and the threads, which come to an
end, nor in the life of the server, where a server with the timer thread may hang.

### Fairness

- Driver: weak fairness of a process that holds the mutex (its steps are never
  blocked), strong fairness of `mutex_lock_interruptible`: a kernel mutex hands
  itself over to a waiter that has been passed over. No process owes a call, a
  signal or an unload.
- Server: weak fairness of the main thread and of each thread's own steps (the
  scheduler runs runnable threads), strong fairness of `Accept(c)` (the backlog
  is a queue). Clients owe neither connecting nor sending nor closing. Those in
  `Readers` take what they are sent, so that `send()` to them returns; to any
  other it may block for ever. `server_liveness` has one of each, and its properties
  say that the second delays neither the accept loop nor the answer of the first.
- Life of the server: weak fairness of a pending signal, of the rest of
  `exit_safely` and of each script that has been begun, the start of its server
  included. Nobody owes a script, a packet or a time stamp.
- Threading: weak fairness of taking and of releasing the mutex, not of failing.
  The mutex need not be fair, since each thread takes it once.

## 4. Proofs

Every safety property of the passing runs is proved for every value of the constants
that meets the named assumptions of the modules: capacity at least 1, NULL not an
allocated address, writes and segments not empty and of bytes, counts and offsets
of the right kind. Hypotheses beyond these are in the statement of the theorem.

| Theorem | Property | Beyond the assumptions |
|---|---|---|
| `CBTypes`, `CBShape` | `CBTypeOK`, `RingShape` | |
| `CBRefinesFifo` | `KeepsLatest` | |
| `CBFindExact` | `FindMatchesConcatenation` | |
| `DriverTypeOK`, `DriverRingShape` | `CharTypeOK`, `RingShape` | |
| `DriverOwnership`, `DriverSizes` | `Ownership`, `SizesExact` | |
| `DriverReaderStable` | `ReaderEntryStable` | |
| `DriverNoLeak` | `NoLeak` | the property itself excludes failures |
| `DriverCommands` | `CommandsTerminated` | |
| `DriverImplementsLog` | `ImplementsLog` | `~AllocMayFail` |
| `DriverReadsExactly` | `ReadIsExact` | |
| `DriverLseekInside`, `DriverSeekFromStart` | `LseekInside`, `SeekFromStart` | |
| `SocketTypes`, `SocketNodes`, `SocketMixUp` | `SockTypeOK`, `NodeOutlivesThread`, `MixUpStarvesOne` | |
| `SocketSends` | `SentWhileGrowing` | `FewClients` |
| `SocketStores` | `PacketStoredOnce` | `FewClients`, `EachWhole`, `EachItsOwn` |
| `SocketAnswers` | `AnswerCoversPacket`, until a packet with a zero is sent | the same |
| `SocketNeverRepeats` | `AnswerNeverRepeats` | finitely many clients |
| `SocketNeverDoubles` | (no run) what is sent once is not stored twice | finitely many clients |
| `LifeTypes`, `LifePath`, `LifePackets`, `LifeAnswer`, `LifeNode` | `LifeTypeOK`, `PathStays`, `FileKeepsPackets`, `AnswerHoldsPacket`, `NoStaleNode` | |
| `ThreadTypes`, `ThreadMutex`, `ThreadData` | `ThreadTypeOK`, `HolderOwnsMutex`, `DataFreedOnce` | |
| `SysTypes`, `RedirectFileClosed`, `ExecAccounts` | `SysTypeOK`, `FileClosed`, `ChildrenAccounted` | |

`DriverMemory`, `SocketControl`, `SocketCounts`, `LifeInvariant` and
`ThreadInvariant` state the inductive invariants that several of these rest on.

The hypotheses. After a `krealloc` that failed the code has lost the bytes of
the command under construction, so the log is implemented without failing
allocations only. `FewClients`: no more clients than the device keeps commands,
the property speaks of what is not evicted. `EachWhole`: a packet is a sequence
of segments that leave a zero in `buff`, with its only newline at the end; it
may hold other zeros, which `PacketStoredOnce` excludes by itself. `EachItsOwn`:
packets of two clients that are not seek commands begin with different bytes, so
that a stored command can be told from another. Finitely many clients are needed
for "as often as all clients have sent it" to be a number. The instance of
`server_packets` meets them all, and TLC has confirmed that it does.

### Arguments

*Circular buffer.* `RingShape` is inductive together with the type: adding an entry
moves the occupied slots by one. For the refinement, `AddEntryIsPush` shows element
by element that `add_entry` appends, and drops the oldest when full. For the
search, the running sum at the n-th iteration is the number of bytes in the first
n entries (`FlattenValue`), so the first iteration whose sum exceeds the position
is at the entry the byte is in.

*Driver, control.* The invariant is

    DriverInv == DevTypeOK /\ RingShape /\ CallInv /\ Ownership /\ SizesAgree

and none of the parts is inductive alone. Committing a command keeps `RingShape`
only if the command is not empty, which follows from the newline found in its
block and from `SizesAgree`. On top of it `RoomInv` gives the other half of
`SizesExact`: while a copy from user space sleeps, the block was allocated with room
for its size and the whole of the copy, which is what the two arguments of
`kmalloc` and `krealloc` say. Ownership survives the `kfree` only because each
block has one owner and, by `RingShape`, the overwritten slot is the oldest entry
or empty. `CallInv` says who holds the mutex, that a file is open only while the
module is loaded, and that a writer that copies has a block. `FileInv` adds the
types of the file positions and `ReadInv`: the entry that a reader has found is
occupied and was found with a count above 0; it stays because the reader holds the
mutex while the copy sleeps.

*Driver, bytes.* `MemoryInv` adds to `DriverInv` where the blocks come from
(`HeapInv`) and where newlines are (`NewlineInv`). Neither holds in the form of
the property while a write is between its allocation and its copy: a block may
then be larger than what is in it, and after a failed `krealloc` the next one
returns undefined bytes, which may hold a newline; the copy that follows commits
it at once. The refinement maps each chain of actions of `aesd_write` to one
write of the log, at `WriteCopy`, since the mutex keeps all others from looking;
every other action is a stutter. `OpsInv` adds that a process outside its calls
has no request, so that a step that returns from a call is the body of that call
(`ReturnIsBody`). Then `CBFindExact`'s lemmas give the reads, `RingSumAll` (the
sum over the raw array is the sum over the stored entries, wherever the ring
starts) the lseek, and `UnwrappedRing` (before the wrap slot numbers are
positions) the seek.

*Server.* `ControlInv` is the list of nodes against the threads, and strtok's
pointer against the threads that wait for a number. A node leaves the list in
the join only, and only the thread the walk has stopped at, which has completed
and stays where it is. Once two texts are mixed up, some thread waits for its
number although strtok's pointer is not in front of it: there is none left, or
the one that is left belongs to another thread. Whoever takes a number then
leaves a thread that waits, and only a token found in freed memory ends the
chain. `StepKinds` divides the steps for all other proofs: those that leave the
data alone, those that end the process, and seven that touch data. Over it, one
invariant each: `DataInv` for the types, `RoomInv` (no more commands than
threads that have written) for everything about eviction, `SentInv` (the text in
`send_buffer` ends where a command ends and is no longer than that command),
`PacketInv` (a buffer holds the segments received so far; each command was
written by a thread of its own and begins with that thread's first byte; between
writes there is no command under construction; all of it until the first zero),
and `AnswersInv` (what a thread has read is the beginning of the device, up to
its file position).

*Server, with evictions.* `SocketSends`, `SocketStores` and `SocketAnswers` need
room for every packet; `SocketNeverRepeats` and `SocketNeverDoubles` need none,
and hold with overruns and for anything clients send. An eviction moves the
commands under a reader's file position, so what has been read is no longer a
part of the device, and no position says whose bytes they were. The invariant
counts instead. For each byte but `Stray`, which the code makes up, `CountInv`
says of every thread in its answer:

    read so far + unread behind its position + under construction
        <= what the clients whose threads are past their write() sent

A read moves bytes from the second summand to the first (`ReadTakes`). A write adds
its packet's bytes to the second or third and to the right side (`WriteAdds`), and the
eviction it makes only shrinks the second, because no command lies farther from
the start afterwards (`OffsetShifted`); the position stays, so an answer could repeat
bytes only if commands moved the other way. Before the write, what is in the
buffer and still to be received is no more than the packet (`FedInv`), whatever
`realloc` and `strncat` cut off. The right side is a sum over a set of clients that
only grows.

*Life of the server.* `RivalInv` says that no server is between `bind` and
`creat` while one listens, unless it was there when that one began. `LifeInv`
adds to the properties that a server that is down has no threads and nothing
open, that the build with an ordinary file never meets the module, that a shell
about to make the node has loaded the module unless an unload came in between,
and that the path is there while it is served. With it each command of each
script is a case.

*Threading.* `ReturnInv`: a thread that has exited has returned its structure,
or one of its calls on the mutex has failed, never both. *System calls.*
`ChildrenAccounted` is inductive with the types: fork names a child that is none
of those left behind, and waitpid takes that one away or leaves it to them.

*Induction over data.* `CharOffs`, `ForeachSize`, `Offset` and `FlattenSeq` are
recursive functions. `DataInduction` derives from `WFMin` an induction rule that
takes a set in the place of the predicate (`UpToInduction`, `SetInduction`), and
from it that a function given by recursion exists and satisfies its equation
(`RecursionExists`, `SumExists`), which is what a proof about a recursive
definition has to know first. Sums over sets (`SumFunction`) take the elements
in an order of their own choice; `SubsetInduction` does the same for finite
sets, and `SumFunctionFacts`, `SumFunctionGrows` and `SumFunctionAgrees` say
that the order does not matter.

### Only model-checked

- Liveness: `CallReturns`, `AcceptNotBlocked`, `AnswerEnds`, `NextClientReaps`,
  `EveryThreadExits`, `StopCompletes`. The prover reaches neither
  fairness nor `ENABLED`.
- `AnswerCoversPacket` after a packet with a zero: the run has one and finds the
  property to hold, the theorem stops there.
- `SeekCountsFromOldest` does not hold (section 3).

## 5. Not modelled

- One `struct file` used by several threads at once (a race on `f_pos`): the
  server opens the device once per thread.
- The driver's null checks that the kernel never triggers, registration details
  (major number, `cdev_add` only as a load that fails), debug output.
- `daemonize`, which is never called, and `daemon`, since `-d` sets another flag
  than the one that is tested.
- The mutex of the build without `USE_AESD_CHAR_DEVICE` as a variable: it is held
  for one `write()` with `O_APPEND`, which is one step anyway.
- SIGINT next to SIGTERM, and `chgrp` and `chmod` of the node.
- What `syslog()` in the signal handler does when it interrupts a thread inside
  `syslog()`: it may wait for ever for a lock of its own thread.
  `StopCompletes` assumes that it does not.
- Logging, and `data_count`, which all threads write without a lock and nobody
  reads.
- The text of seek commands: two numbers, none behind the colon, or no comma.
- After a heap overrun, or after `strtok` has written its zero into memory that
  was freed, damage to the memory of other threads is represented by
  the abort only; the packet property is stated for processes without either.
- Failures of `malloc` and `accept`: they end the process as a failing
  `recv` does.
- In `AesdSocket`, what a failing `krealloc` in the driver does to the command
  under construction (a `write()` that fails leaves it alone there); `AesdChar`
  has it.
- In `Lifecycle`, evictions from the device.
- The finder and writer utilities, straight-line programs without state of their
  own, the image build, the emulator scripts and the test drivers.

## 6. Plan

Done: the buffer, the driver, the server on the log, both builds under their
scripts, the two examples; the proofs of section 4. What a reader of this code might
take up from here: a lower bound next to `AnswerNeverRepeats` (how much an
answer can lose to evictions), and several threads on one open file.
