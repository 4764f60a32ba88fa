# Feilong in TLA+

Feilong (the z/VM SDK) is a server that lets clients manage virtual machines
of a z/VM host: their disks, networks, images and FCP volumes. Under it lies
zthin, a C library and its command `smcli`, which talk to the systems
management API of z/VM (SMAPI). This directory
holds TLA+ models of the parts of it whose correctness depends on the order in
which threads, requests and failures happen, the TLC configurations that check
them on small instances, and TLAPS proofs for instances of every size.

The models are written from the code; `PROJECT.json` maps every definition to
its lines. Modules in one sentence each:

| module | models |
|---|---|
| `NamedLock` | what `utils.synchronized` promises: one lock per name |
| `Synchronized` | the pool of short-lived lock objects behind it |
| `SynchronizedProofs` | proofs that `Synchronized` implements `NamedLock` |
| `FcpOwnership` | what the FCP table promises: each device in one hand |
| `FcpTable` | the statements of `FCPDbOperator` on the `fcp` table, as operators |
| `FcpVolume` | connector, attach, detach, rollback, guest deletion, restart |
| `FcpVolumeProofs` | proofs of the inductive invariant of `FcpVolume` |
| `FcpOrderlyProofs` | proofs for orderly clients: owners, counts, refinement of `FcpOwnership`; devices online in guests and dedicated in z/VM |
| `SdkServer` | listener, request queue, worker threads, replies |
| `SdkServerProofs` | proofs that a request is in one hand at a time and none is lost |
| `VmapiLayouts` | the requests of the 195 `vmapi*.c` functions, as tables |
| `SmapiRequest` | how such a function sizes, fills and sends its request |
| `SmcliCommands` | the options and exits of 181 commands of `smcli`, as tables |
| `Smcli` | `main`, options, the call, retries, header and exit status |
| `SmcliProofs` | proofs about `Smcli` for any command lines and answers |
| `ParserRows`, `VmapiTables` | the 196 parser tables of the vmapi headers, and the rows they are made of |
| `TableParser` | the two passes of `smapiTableParser.c` over an answer |
| `SmapiConversation` | sockets, retries and recovery in `getAndParseSmapiBuffer` |
| `ConversationProofs` | proofs about `SmapiConversation` |
| `GetAndParse` | the two composed: a call from its request to its result |
| `ParserProofs` | proofs that the second pass keeps to what the scan allocated, and of the types of `GetAndParse` |
| `CacheFiles` | the cache files that processes of `smcli` share |
| `CacheFilesProofs` | proofs that readers of the cache see whole answers, and where a tail may follow |
| `MC*` | small instances and symmetry for TLC |

## 1. The system

### Components

**Named locks** (`zvmsdk/utils.py`, `synchronized`). State: a dictionary of
lock objects and one of user counts, both under `meta_lock`. A call registers,
looks its lock up *outside* `meta_lock`, acquires it, runs, releases it and
unregisters; the last user drops the object. Hard: the lookup and the acquire
are not atomic with the bookkeeping. Correct if functions with one lock name
never overlap, no lock object is lost or leaked, and waiters get in.

**FCP volumes** (`zvmsdk/volumeop.py`, `FCPVolumeManager`, `FCPManager`). State:
the `fcp` table (assigner, connections, reserved, template), the templates, and
outside the SDK the dedication of devices in z/VM and the devices online in the
guest. Operations: `get_volume_connector` (reserve or release devices),
`attach`, `detach`, each a sequence of database transactions, requests to z/VM
and scripts in the guest, with a rollback for every phase. They run under
`volumeAttachOrDetach-<userid>`; transactions under `_DBLOCK_FCP`, which
`get_volume_connector` keeps while it queries z/VM. Hard: two requests share
devices of one machine; any step fails, perhaps after it had its effect;
`guest_delete` takes no volume lock; the server can stop between any two steps;
clients repeat requests. Correct if `connections` counts volumes, a device
serves one machine at a time, it is dedicated while volumes need it, and no
rollback disturbs another volume.

**FCP templates and synchronisation** (`database.py`, `volumeop.py`): tables
`template`, `template_sp_mapping`, `template_fcp_mapping`; create, edit, delete,
and `sync_fcp_table_with_zvm`, which inserts, updates and deletes `fcp` rows
after what z/VM reports. Hard: edits move devices between paths while they are
in use; WWPNs must not change under a host mapping.

**SDK server** (`zvmsdk/sdkserver.py`). State: the listening socket, a bounded
queue of connections, worker threads. The main thread accepts, puts and starts
a worker unless `threading.active_count()` is over the limit; workers serve one
request per connection and end when the queue is empty. Hard: workers that end
while the main thread decides; results built in shared dictionaries; early
returns; clients that send nothing; sockets that several variables refer to.
Correct if no request is lost, served twice, left alone or answered with somebody
else's results.

**Guests, images, networks, host** (`api.py`, `vmops.py`, `smtclient.py`,
`imageops.py`, `networkops.py`, `hostops.py`, `dist.py`): sequences of z/VM
requests with rows in the `guests`, `image` and `switch` tables. Hard: clean-up
after a failure half way (create, deploy, capture, live migration).

**Monitor** (`monitor.py`): a cache of metering data with one expiration per
type, shared by the inspection calls.

**REST service and clients** (`sdkwsgi`, `zvmconnector`): stateless translation
to socket calls, apart from the expiry of tokens.

**SMT layer** (`smtLayer`): builds command lines of `smcli` and reads their
output; with `--addRCheader` its first line is the result.

**smcli** (`zthin/src/smcli*.c`). `main` asks for the level of SMAPI, refuses
names that are newer, and calls one of about 190 functions, each with a getopt
loop, a test for missing options, one call of the library, and a report. Hard:
the functions are written by hand and differ in details; a header must be
printed at every exit; asynchronous operations are asked for again and again.

**Vmapi library** (`vmapi*.c`). A function sums up the size of its request,
allocates it, puts the parameters into it and passes it on. Hard: the sum and
the puts are two lists kept by hand, lists have lengths of their own, and
`strlen` is called on whatever the command left in its variables.

**Conversation with SMAPI** (`getAndParseSmapiBuffer`, `smSocket.c`). A
connection per request; three loops of retries, for the whole request, for the
send and for the recovery of an answer by the id of its request. Hard: which
failure may be answered by sending the request again; what is closed and freed
on each of twenty returns; connections that are lost within a field.

**Table parser** (`smapiTableParser.c`, tables in `vmapi*.h`). Walks through
the answer with the table of the request, twice: to add up what is needed, and
to fill what was allocated. Hard: both walks, and the table, must agree about
every terminator, empty buffer and nested list.

**Caches of zthin**: `users.list` and `<userid>.direct` with the directory,
read and written under `fcntl` locks that are not waited for; the file with the
level of SMAPI, without a lock. Hard: other processes act between any two steps,
die, and meet full file systems.

**IUCV** (`zthin/src/IUCV`): a daemon in the guest that runs commands received
over IUCV.

### Interaction

A client connects to the SDK server; a worker thread calls one function of
`SDKAPI`; volume functions enter `FCPVolumeManager` under the named lock of the
virtual machine, execute transactions under `_DBLOCK_FCP`, call z/VM through
`smtclient` and `smtLayer`, and run scripts in the guest over IUCV. So
`SdkServer` provides the threads that are the `Session`s of `FcpVolume` and the
`Thread`s of `Synchronized`; `FcpVolume` uses one `NamedLock` per machine, which
is why its `vm_lock` is a single variable per machine; and `FcpOwnership` is the
view of the table that the storage provider relies on. A request to z/VM in
`FcpVolume` is one process of `smcli` (`Smcli`), whose call of the library fills
a request (`SmapiRequest`, which `Smcli` extends) and then runs `GetAndParse`,
with the outcomes that `CameBack` of `Smcli` allows; `CacheFiles` is what several
such processes have in common.

## 2. The models and the code

### Synchronized

One action per step of `_wrapper`: `Register` and `Unregister` are the two
`with meta_lock` blocks, `LookUp` the read of `lock_pool` between them,
`Acquire`, `Release` those of the lock. Lock objects are model values; one that
neither the pool nor a local variable refers to may come back as a new object
(`Unreferenced`), as memory does. Nested calls under the same name (the locks
are reentrant) are left out: no decorated function of the SDK calls another.

### FcpTable and FcpVolume

A row is a record of the four columns that the requests change. `FcpTable` has
the statements as functions from tables to tables. An action of `FcpVolume` is
one transaction, one request to z/VM or one script; the local variables of a
request are in `ses[s]`, with `pc` for the phase:

    get_volume_connector   query -> allocate | release
    _do_attach             reserve -> increase -> dedicate* -> add_disks
      its rollback         rb_added -> rb_conns -> rb_undedicate* ->
                           rb_decrease* -> rb_usage -> rb_unreserve
    _do_detach             decrease -> exist -> remove_disks -> undedicate*
      its rollback         rb_dedicate* -> rb_removed -> rb_increase*

A failure is an action of its own (`FailDedicate`, `FailAddDisks`, ...) that may
leave the effect behind and goes to the phase where the code's rollback starts,
or on, with `do_rollback=False`. Three functions of the rollback of attach start by
reading the connections of the devices, one transaction for each: `RbRead` is
one of them, and the action of the phase follows when all are read. With
`"rollback database error"` in `Env` the transactions of a rollback fail: one that
counts is skipped (`RbDecrease`, `RbIncrease`), and one outside
`ignore_errors` ends the rollback where it is (`RbAborts`). `Transaction` waits while another thread holds
the database across its query of z/VM. `Env` selects what clients and the
outside world may do besides (see `EnvKinds`), so that each run can say under
which conduct a property holds.

What is abstracted:
- The choice of devices by channel capacity: `get_fcp_devices` allows every
  choice of free devices on distinct paths, and also none.
- The columns that z/VM fills in. The state of a device is only used in the
  transaction that has just queried it, so it is the set `free` of that request.
  The set of devices and the templates are fixed.
- The request to dedicate a device acts on the directory entry and on the
  running machine; it is one effect here. A device that a guest loses is
  offline in it.
- `volume_refresh_bootmap`, which dedicates the devices of a root volume before
  `attach` is called, is part of `CallAttach`.
- A guest that is down gets its scripts in its reader and runs them when it
  starts: the request goes on as if they had run (`SkipScript`).
- A volume is what its client knows about it: the machine and the devices it was
  attached with. Requests for one volume do not overlap: clients serialise them.
- WWPNs, LUNs, multipath names and logging.

### SdkServer

`Accept`, `Put` and `StartWorker` are the loop of `run`; `Get`, `Empty`, `Exit`,
`Serve` and `Send` that of `worker_loop` and `serve_API`. A worker that has seen
`Queue.Empty` is at `exit` and still counted, as `active_count` does. A request
is one of five kinds, by the way it takes through `serve_API`; until the client
has sent it (`Request`) the connection is `"silent"`, and a worker that serves it
waits in `recv`, which has no timeout. Sending the results may fail, and the code
only logs that: the connection is then `"unsent"` instead of `"answered"`. `internal`
is the dictionary of internal errors that the threads share. `serve_API` closes
the socket after it has tried to send; a connection on which it returned early is
closed when nothing refers to it any more (`LetGo`), which is when CPython closes a
socket. Three things refer to connections: the queue, the variable of a worker
until it takes the next connection or ends, and the variable of `run`
until the next is accepted, so that a malformed request of the last client stays
open, without an answer, until another client comes. Clients connect, send, wait
and give up at any time.

### VmapiLayouts, SmapiRequest, SmcliCommands, Smcli

The two tables are data. A layout says what its function sums up (`sized`) and
what it puts (`fields`), in the order of the code; a string is its length, with
NULL as a value of its own. `SmapiRequest` interprets a layout: `Enter` (early
returns, `strlen` of NULL), `Allocate`, one `Put` per field, `Send`. A command
says which options it takes, what an option that is not given leaves in its
variable, whether the test for missing options asks for it, how many `-k` there
may be, how the result is reported, and at which exits it prints no header.
`Smcli` interprets a command: level, dispatch, options, missing options, the
call, the loop of `queryAsyncOperation` and of `imageActivate`, the report.
`main` ends with the help, status 0, if it is asked for in `argV[1]` or if there is
no name (`MainHelp`). It holds `argV[1]` against the level before `--addRCheader` is
taken out of the arguments, so that a keyword in the first place (`first`) hides the
name from the refusal. Five commands call `getSmapiLevel` again, and that has
three ways to fail (`LevelUnknownAgain`): on the clock or the file of the level it
prints text and no header, refused by SMAPI it prints the header 8, and when the
request could not be made the header 25. `Image_CPU_Define_DM` prints a header of
its own after each, three print none, and `Virtual_Network_Vswitch_Query_Extended`
does not look at the result and goes on (`LevelIgnored`).
`CallLibrary` is a program that calls a function of the library without `smcli`.
Every command and function is an initial state, with the option sets, string
lengths, numbers of entries, levels and answers that its code tells apart.

`CommandsAssumption` and `MarksAssumption` collect what the properties of `Smcli`
need of the entries of the two tables one by one, such as that the limit of the
switch is not above the length of the array; TLC evaluates them. `LinesAssumption`
is about who calls: no `-k` where the command takes none, and no NULL from another
program.

### VmapiTables, TableParser, SmapiConversation, GetAndParse

A table is a sequence of rows, as in the header. The last column, an offset or
a size of a C structure, becomes the name of the structure. An answer is a
function from offsets to the numbers and texts that SMAPI put there; the frames
of the nested calls of `handleArrays` and `handleCountedArrays` are in `frames`.
One action is one row at one place. `MCGetAndParse` generates, from each table,
answers with no, one and several elements, empty and longest strings, refusals
with and without error buffer, and three kinds of unusual ones: a structure with
a field that the table does not have, an empty structure, a string too long.

`SmapiConversation` has one action per outcome of a call of `smSocket.c`, a
field crossing the connection in `Parts` parts. SMAPI is external: it takes
requests, runs them whether or not somebody still waits, breaks and closes
connections, and answers `Response_Recovery`. It is assumed to answer 4/4 (send
again) only for a request that it has not run, and then to drop it.
`GetAndParse` starts the parser when the answer is complete and returns its
result. Waiting times and traces are left out. That `smcli` asks SMAPI for
its level first is a conversation of its own.

Three assumptions state what the parser relies on without a test.
`TablesAssumption` is about the tables in the headers (the rows of an array follow
on it, an array has a row for its structure, a character buffer one for its count);
TLC evaluates it for the 196 tables. `AnswersAssumption` is about SMAPI: lengths
and numbers are not negative, and an error buffer with a length has room for it.
`SampleAssumption`: the answers of an instance are such ones.

### CacheFiles

A file is an inode with blocks; a name refers to an inode or to none, so that a
file can be removed or replaced while others have it open. `fopen` with `"w"`
empties the inode at once. A block is a record of the directory, which `fflush`
writes. The answers to successive versions of the directory differ in their `Length`,
and nothing truncates a file once its lock is had: what is written replaces
the blocks at its place and leaves those behind it (`Written`). Locks are asked for with `F_SETLK` and end when the process closes the
file. `suspect` remembers, for the property only, which inodes were emptied
under somebody's lock or left half written, and `shared` which were emptied
while another process had opened them to write. The level file is written when it is
closed. A process may die between any two steps; what stdio had buffered is
lost. Allocation failures and what the records say are left out.

## 3. What is checked

Passing runs. Every property has a mutant in `PROJECT.json` (operators marked
*Mutant* next to the definition they replace) that it catches.

| run | instance | shows |
|---|---|---|
| `locks` | 3 threads, 2 names, 4 lock objects | mutual exclusion, exact counts, refinement of `NamedLock`, and that somebody gets in |
| `two_vms` | 2 machines with a session each, 2 devices on 2 paths, 2 volumes | counts and assigners are right, no rollback pulls another volume's device, refinement of `FcpOwnership`; with database errors, root volumes, deletion and re-creation of guests |
| `one_vm` | 2 sessions for 1 machine, 2 devices, 2 volumes | the same where requests share devices and connectors are used again; every request ends |
| `crash` | as `two_vms`, with restarts and failing rollbacks | a device reserved for one machine is never dedicated to another |
| `anything` | 2 machines, 1 device, 1 volume, all of `Env`, rollbacks whose transactions fail included | the inductive invariant, and that requests end once the others pause |
| `server_safety` | 3 connections, limit 2, 1 slot, all kinds of requests | no request in two hands or lost, limits, sending of results attempted for every well-formed call, own results |
| `server_busy` | 3 connections, limit 2, 2 slots, clients that may stay silent | every connection whose client has sent something or quit is served and closed while the main thread keeps accepting |
| `commands` | 181 commands, 195 functions, each with its inputs | requests fit and fill their buffers, lists are as announced, entries have places, no `strlen` of NULL, one header that tells the exit status, listed names are served, commands end |
| `conversation` | 1 call, 3 rounds and recoveries, fields in 2 parts; answers for 196 tables | a request is run once, fields are read in step, requests and sockets are given back, both passes agree, well-formed answers are understood, calls return |
| `cache` | 2 processes, answers of 2 and of 1 records, 1 death | what is read from the cache is one whole answer, or begins with one where two writers had the file open; calls end, an empty level file is replaced |

Runs that end in a violation, each of something a comment or a doc says:

| run | what happens |
|---|---|
| `stolen_device` | two attaches with one connector, one rolls back, another machine gets the device, the other attach reserves it again over the other's head |
| `torn_cache` | a process reads the directory cache under its read lock, another opens the file with `"w"` and empties it before it asks for the lock; the reader returns the first records as the whole |

### Exceptions, and what the models show besides

The properties of the C part name their exceptions as sets of functions or as
conditions. Each was met in the code, and the property fails without it.

Requests (`SmapiRequest`, `Smcli`):
- `ShortMarks`: the `targetStart` array of twelve functions is shorter than the
  number of entries that their commands accept (`vmapiSystemDiskQuery.c:36` has
  2 places for a target and up to 4 entries).
- `OverfilledArrays`: four commands accept one `-k` more than `entryArray` has
  places (`smcliSystem.c:392`, `entryCount < maxEntryCount +1`).
- `PutsWithoutEntries`: `smMetadataSet` puts the length of a first entry even
  when there is none. `SumsPasswordTwice`: four functions sum up the password
  twice (`smImage_MDISK_Link_Query`, `smSystem_Disk_IO_Query` and the two
  utilization queries), and
  `SumsTooMuch`: `smXCAT_Commands_IUO` four bytes too many, so that bytes that
  were never set are sent. `Task_Cancel` moves its cursor past the end after the
  last put.
- `LeftNull`: `Virtual_Network_Adapter_Disconnect_DM` does not ask for all its
  options and ends in `strlen(NULL)`.
- `NoHeaderAtSomeExit`, `TwoHeaders`, `HeaderTooEarly`: commands that print no
  header, two, or one before they know their exit status. The refusals of `main`
  itself have none. To the first belong `Image_Definition_Query_DM`,
  `System_Disk_Query` and `System_WWPN_Query`, which say only in text that the
  level of SMAPI is unknown (`smcliSystem.c:374`) after a `getSmapiLevel` that has
  printed only text as well, for instance because another process has just emptied the
  file of the level; to the second `Image_CPU_Define_DM`, which adds a header to that of
  `getSmapiLevel`, and `Virtual_Network_Vswitch_Query_Extended`, which goes on after it.
- `ListedTooEarly`: the help lists `Image_Disk_Query` at every level, and `main`
  refuses it below 611.
- `OperationDone` (smcli.c:76): `queryAsyncOperation` tests for 0/0 inside `if (rc ||
  returnCode || reasonCode)`, where it cannot hold; 0/0 is printed and asked for
  again, for ever. The comment at smcli.c:44 says "just return Done and 0 rc".
- The tests for missing options ask for fewer options than the help calls
  required in more than twenty commands, among them `Image_Disk_Create_DM`
  (`smcliImage.c:2322`); the values they leave are sent as empty.

Answers (`TableParser`):
- `OneByteShort`: in `Image_SCSI_Characteristics_Query_DM` an empty character
  buffer in the base structure takes a byte off the sum that was never added.
- `EmptyBufferFails`: an empty character buffer in a structure leaves the second
  pass on the row of its count, which it has no case for.
- `TableIncomplete`: the table of `Response_Recovery` has the rows of a
  structure without the rows of the array pointer and its count before them.
- An answer with a field that the table does not have is not understood:
  `handleArrays` takes the rest of the structure for used and does not move the
  cursor over it, although the comment at `smapiTableParser.c:578` expects such
  answers from a newer SMAPI.
- An empty structure is skipped without being counted (lines 524, 905); the walk
  then reads behind the list.

Conversation (`SmapiConversation`):
- The retry of a send (`smapiTableParser.c:1542`) and of a recovery use the
  descriptor that the failed call has closed and so cannot succeed.
- A request whose id was lost is sent again and may run twice: `RunOnce` counts
  those.
- A send that fails with its retries used up gets the general code of a write;
  because of the first item only a limit of 0 lets it come to that.
- When the connection for a recovery cannot be made, the request is not freed
  (line 1598); the socket is left open when the answer is too short, does not fit
  into memory, or `Response_Recovery` refuses.
- `ClosedWithinField`: smSocketRead receives nothing for ever when SMAPI closes the
  connection within a field.

Caches (`CacheFiles`): a file left half written by a death or a failed write
that cannot be removed is taken for the whole until it is too old; "Continue
processing even if cache file was removed" returns EOF; a cache file that cannot
be opened for writing makes the call fail although SMAPI has answered; nobody
invalidates the cache when the directory changes. Two processes may both have emptied
`users.list` or a directory file before either asks for the lock
(`vmapiImageNameQueryDm.c:225`, `vmapiImageQueryDm.c:253`); they then write one after
the other from the start, and where the second answer is shorter the tail of the
first stays behind it and is read as part of it. `CachedIsWhole` promises one whole
answer for files that were not opened so (`shared`), and for these that they begin
with one.

The Python part, which the models show without a run of their own:
- A detach for a guest that was deleted takes a connection off a device that
  another guest has by now (`volumeop.py:2413`). `ConnectionsCountVolumes` is
  checked for clients that do not do that.
- The rollback of a first attach reads the connections before it decreases them
  and leaves the devices online in the guest (`volumeop.py:2098`).
- A request that is put into the queue of the server while the last workers are
  ending waits for the next client (`sdkserver.py:259`); `ServedWhileBusy` is about
  queues to which connections keep coming. That can repeat until the queue is
  full; then the main thread waits in `put` for a worker that only it could start.
- Two calls that raise at once share the dictionary of the internal error
  (`sdkserver.py:73`): one client may get the text of the other.
- A repeated detach (`"detach twice"`) takes nothing off devices at 0 connections,
  because `decrease_fcp_connections` goes on at 0, but when it fails later
  `_rollback_decreased_connections` adds one to each: a connection without a
  volume. The run `anything` has such clients.
- `serve_API` builds errors for malformed requests and unknown functions and
  returns before it sends them (`sdkserver.py:136`, `sdkserver.py:150`), and the socket
  stays open as long as `run` refers to it. An error while results are sent is only
  logged (`sdkserver.py:189`). So not every call is answered: `OnePlace` promises
  that sending is attempted for each well-formed one.
- `recv` has no timeout (`sdkserver.py:120`): a client that connects and sends nothing
  holds its worker, and `max_worker_count` such clients hold up the server until they
  quit. `ServedWhileBusy` is about the connections whose clients have sent
  something or quit, as long as the main thread keeps accepting, which it does
  not if all workers are held and the queue is full.
- A transaction of a rollback may fail and is skipped. In the rollback of an attach the
  connections then stay too high. In that of a detach (`volumeop.py:2231`) they stay too
  low: the device can be released, and given to another machine, under a volume that
  is still attached. The runs about owners and counts therefore leave
  `"rollback database error"` out; `anything` has it.

### Bounds, and why they are enough

`MaxConnections` bounds attaches to a device to 2: the code tells apart 0, 1 and
more. Two devices on two paths let a loop fail between its rounds; two volumes
let one request disturb the other. `min_fcp_paths_count` is 1, so connectors
with one and with both paths occur. Two machines are what it takes for a device
to change hands; `stolen_device` has a third session. `anything` has a single
device and volume, because all of `Env` together is large; the invariant it
checks is proved for every size. In `server_safety` there is one more thread than the
limit, which only a wrong count uses, and one slot, so that the main thread
waits; connections are opened again after they are closed. `server_busy` has one kind
of request besides the silent client and the one that quits, which is an early
return, because its two temporal conditions cost more; with three connections two may be
silent and hold both workers. In `commands` the inputs are finite by the code: an option is
given or not, a string is NULL, empty or not, a list has no entry, one, the most
and one more. In `conversation` three rounds (the code has 8) let a loop go
round, be left and be used up; two parts let a connection be lost before, within
and behind a field. In `cache` two records let a file be half written, two
versions, the second with one record less, let answers be mixed and a shorter one
be written over a longer, and three inodes let each process have a
removed file open while there is a new one. Symmetry is used in
safety runs only, for volumes, for the two machines with their sessions, and for
connections and workers.

### Fairness

`Synchronized`: threads keep running, so each step of a registered thread is
weakly fair; an `RLock` promises no order, so only *somebody* is promised to get
in. `FcpVolume`: a thread in a request goes on (`WF` on `Proceed`, which is `Step` without the errors that end a rollback), since requests
to z/VM and scripts have time limits; clients need not ask. The lock of the
database promises no order either: with two machines a request can wait as long
as others query z/VM, hence `RequestsEndAlone`. With one machine the named lock
lets one request run at a time, and `RequestsEnd` holds. `SdkServer`: the main
thread and the workers run, and API functions return; clients are not fair: they need
neither send anything nor quit, and a worker whose client is silent has no step to
take.
The server runs switch the deadlock check off because the clients may be done
(or the main thread hangs in `put`, see above). `Smcli`: the one process runs.
`GetAndParse`: only the calling thread is fair, since every send and receive has
a timeout; nothing is assumed of SMAPI or the connection. `CacheFiles`: a process
that runs goes on, as it waits for nothing; for `LevelHeals` besides that time
passes, that commands are called again and again, and that SMAPI and the file
system do not fail each time (`SF`, because they fail in between). These runs
switch the deadlock check off because a process, a call or a command ends.

## 4. What is proved

All for arbitrary constants, under the named assumptions in the modules.

`SynchronizedProofs`:
- `IInvariant`: `IInv` is inductive. It adds to the properties that the count of
  a name is the number of threads registered for it, and that a thread past the
  lookup has the object that is in the pool. Exclusion alone is not inductive:
  two threads that have looked up different objects could both enter.
- `Exclusion` and `Bookkeeping` follow from it.
- `Refinement`: with the owner of the lock object in the pool as
  `holder`, every step is a step or a
  stutter of `NamedLock`. Finiteness of the set of threads is used for the
  counts only.

`FcpVolumeProofs`:
- `InvariantHolds`: `IInv`, that is types, consistent rows, locks that match the
  requests, and `KnowsTemplate`. The last is needed because a reservation
  writes the template of the request into the row: a request in the phase
  `reserve` must have one, so its client's connector must. The proof splits the
  invariant into data (`DataOK`, one lemma per statement of the table and per
  kind of z/VM request) and control (`MovesTo`, one lemma per way to move), and
  shows both for each action.
- `RowsStayConsistent` and `LocksAreGivenBack` follow: whatever fails, whatever
  is deleted and however often the server stops, a row in use names its machine,
  and no way out of a request leaves a lock behind.

`FcpOrderlyProofs`, for any devices, machines, volumes, sessions and templates. The
hypothesis `Orderly` says which clients: one thread per virtual machine, a
connector is used once, a volume is detached once and while its guest is there, a
guest is not deleted under a request, `do_rollback=False` does not
meet failing transactions, and the transactions of a rollback do not fail. Everything
else of `EnvKinds` may happen, crashes and rollbacks that fail in z/VM or in the guest
included. No part can be dropped: with two
threads for a machine `stolen_device` violates `AssignerHasVolumes`, with
rollbacks that fail in the database TLC finds `ConnectionsCountVolumes` and
`DedicatedToAssigner` violated, and without any other part each of these
properties, with two machines, one device and two volumes.
- `OrderlyInvariant`: `OInv`. None of the properties is inductive alone, and they
  need one another. `WorkOK` and `Apart`: which volume a request works on, and that no
  other does. `OwnersOK`: the devices in a connector, in a request and of an
  attached volume are reserved for their machine. `CountOK`: the connections of
  a device are its `Users`, the volumes whose request has counted them (which phase that
  is differs between attach, detach and their rollbacks) or that
  are attached; after a crash they are at least as many. `ReadOK`: what a request read in one
  transaction and uses in a later one is still true. Unreserving a device
  keeps `OwnersOK` only because `CountOK` says that nothing uses it, and the counts stay
  exact only because `OwnersOK` keeps the requests of others away from the row.
- The proof describes a step of a request once (`Respects`: what may happen to the
  table, to z/VM and to the volume, and how the count shifts), shows that such a step keeps
  `OInv`, and then that each phase is one; connectors (`Connects`) and calls
  (`Begins`) likewise.
- `ReadOK` covers the connections that a rollback reads one device after the other: what
  it has read so far still holds when it acts on the last.
- `ReservationsLast`, `DedicationsAgree`, `AssignersAgree` follow, and
  `ConnectionsAreExact` if the server does not stop.
- `OwnershipRefined`: with the assigner of a reserved row as `owner` and its
  connections as `uses`, every step is a step of `FcpOwnership` or a stutter.

Further in `FcpOrderlyProofs`, about z/VM and the guests:
- `OthersStayOnline` (`NeverPullsOthers`), an action property, from `OInv`: a device
  goes offline only when its connections are 0, or 1 in a rollback that
  still counts its own, so that by `CountOK` no other volume uses it.
- `TidyInvariant` and `ConnectedIsDedicated` (`DedicatedWhenConnected`), under `Tidy`
  in addition: requests are rolled back, rollbacks succeed, the server does not stop.
  Without any one of these a device can stay connected and not dedicated (TLC
  finds each case on the same instance). `TInv`
  adds the exceptions while a request runs: `Awaits` (it is about to dedicate the device, or
  to take its only connection back), `Has` (it has all of its devices in the
  guest), and `GuestsOK`, since dedicating again in the rollback of a detach
  needs the guest to be there.

`SdkServerProofs`:
- `ServerInvariant`: `IInv` = `TypeOK`, `HandsOK` and `OnePlace`. `OnePlace` is
  not inductive alone: it needs what each thread has in hand where. The variable of
  `run` refers to an open connection or to none, and never to one that still waits to be
  accepted; a worker that serves has a connection; what a worker still has when
  `serve_API` has returned early, and lets go when it comes back, was a malformed
  request; and what it sends for a call are the call's own results. A silent
  client is in the hand of its worker for as long as it likes.
- `Limits` (`TypeOK`, with the bounds on queue and workers) and `OneHand`
  (`OnePlace`) follow. They do not say that a client gets results: sending may fail.

`ConversationProofs`:
- `ConversationInvariant`: `IInv`, of the types and six parts. `RoundOK` ties the
  step of the call to the counters and to what SMAPI has seen of the request of
  this round. `HoldsOK` says what the call holds at each step. `MissedOK`: of the
  rounds that are over, all but `lost` were dropped by SMAPI and did not
  run. `OrderOK`: the parts on the stream follow one another in the order of the
  protocol, and the first of them is the one that is read next. `CodesOK`
  and `AskedOK`: what the codes of a recovery promise, and how far SMAPI
  is while the connection is up.
- `RequestRunOnce` (`RunOnce`): a recovery never has a request run again, and a
  retry does only if an id was lost. `RunOnce` alone is not inductive: the
  retry after a recovery is harmless because the code that leads to it says
  that SMAPI dropped the request (`CodesOK`).
- `FieldsKeepStep` (`FieldsInStep`): the part that comes next is the part that is
  read next. This needs the order of the whole stream, not only its head.
- `NothingIsLeft` (`NothingLeft`), with the exceptions that the property names.
- `ConversationTypes`.

`ParserProofs`, for any answers that keep `AnswersAssumption`, of any length and depth:
- `ParserInvariant`: `ParserInv` = `Walked`, `IdleOK`, `ScanOK` and `PopulateOK`.
  `Walked` says where the frames are: the base structure between arrays, and each
  inner frame within the rows of the array its caller has come to. The other parts
  are about the two passes together. The scan is written as a path of places (cursor,
  frames, what it has added up), each next behind the one before (`Scans`),
  with its state as the last place (`ScanOK`). After the
  scan the path stays, and the second pass is at one of its places (`PopulateOK`);
  a step of it goes to the next place, so it carves and stores what was counted
  from there on. Comparing the sums alone is not inductive: it does not
  say that both passes read the same bytes as the same rows.
- Two things of the code make the invariant less simple than that. In a structure the
  second pass does not skip the row of the count of an empty character buffer, so it can be a row
  behind the scan (`Agrees`); it then gets no further than to the end of the structure.
  And the scan takes off a byte for an empty buffer of the base structure
  that it has not added: `owed` remembers it, and `OwedOK` says that this
  does harm only in the tables `OneByteShort`.
- `ParserTypes` (`TypeOK` of `GetAndParse`, with `ConversationTypes`) and
  `StorageIsEnough` (`StorageHolds`) follow.

`SmcliProofs`, for any command lines, options, numbers of `-k`, levels, answers and retries:
- `SmcliInvariant`: `SmcliInv` = `LineOK`, `OptionsOK`, `HeadersOK` and
  `NoNullString`. The properties look at the exit or at the call; the invariant
  carries there what was tested when the options were read: that nothing required is
  missing (`AllThere`) and no limit of `-k` passed, also when the command calls
  again or asks for the state of an operation (`TheCall`). `HeadersOK` says that
  nothing is printed before the command leaves (`EarlyHeaders`), but for the headers of `-k` in
  `Process_ABEND_Dump`, those of queries answered 0/0, and that of a query of the level
  whose failure is ignored, which is why the property has to except these.
- `HeadersTell` (`HeaderTellsExit`), `NoStringIsNull` (`NoNullString`) and
  `EntriesFit` (`EntriesHavePlaces`) follow with `CommandsAssumption`,
  `MarksAssumption` and `LinesAssumption`. `HelpIsServed` (`ListedIsServed`) compares the names of
  `displayHelpInfo` with those of `main` in the proof and takes no assumption on them.

`CacheFilesProofs`:
- `CacheInvariant`: `IInv` = `TypeOK`, `ControlOK`, `LocksOK` and `FilesOK`.
  `ControlOK` ties the step of a process to its descriptor, its lock and its
  data, `LocksOK` says that a writer is alone. `FilesOK`, for the files that are
  not suspect: without a writer a file is empty or begins with a whole answer
  (`UnwrittenOK`); with one it begins with what that writer has written so far
  (`WriterOK`); a reader has read what the file begins with. For a file that is
  not `shared` there is no more in it than that, which needs `AloneOK`: a process that has
  emptied such a file and waits for its lock finds it empty, and nobody else has it
  open to write. This holds for answers of any lengths.
  That a process always finds a new inode needs more inodes than processes, as
  `CacheAssumption` says.
- `CacheTypes`, and `WholeAnswers` (`CachedIsWhole`).

Only model-checked:
- liveness, all of it: the prover does not handle fairness and `ENABLED`;
- the properties of `FcpVolume` for clients that are not `Orderly`, as far as the runs
  check them there: two threads for one machine, stale connectors, repeated detaches;
- `AnswerUnderstood` of `TableParser`: it says that an answer built from a table
  is parsed without an error, and what the building computes is an induction over
  the rows of that table;
- `StoresInBuffer`, `RequestFilled` and `ListAsAnnounced` of `SmapiRequest`: they
  compare sums over the fields of each of the 195 layouts, which is induction over data.

## 5. Not modelled

- Twelve commands of `smcli`: `imageCreateDM`, `imageReplaceDM`,
  `profileCreateDM`, `profileReplaceDM`, `prototypeCreateDM`,
  `prototypeReplaceDM` and `vmrmConfigurationUpdate` read records from a file or
  from standard input; `metadataSet` splits its values; `imagePerformanceQuery`,
  `systemImagePerformanceQuery`, `queryAllDM` and `systemRDRFileManage` parse free
  text or make as many calls as an answer has records. `eventSubscribe` and
  `eventUnsubscribe` hold a connection open and do not end. Their vmapi functions
  are in `VmapiLayouts`.
- `handleNullTerminatedArrays` and lengths as text in the parser: no table uses
  them. `System_SCSI_Disk_Query` has a second list of strings that the first one
  never leaves anything for.
- The back end that would keep the directory cache current: its start is
  commented out (`smSocket.c:114`). Memory groups: one list, freed as a whole.
- FCP templates and `sync_fcp_table_with_zvm` (the devices and templates of
  `FcpVolume` are fixed), the choice of devices by capacity (`FcpTable` allows
  every choice), the metering cache, and the life cycle of guests, images and
  networks, which are sequences of requests with rows that no modelled part reads.
- Text of configuration files and command lines (`dist`, `smtLayer`,
  `configdrive`), copies of disk tracks (`ckdencode`, `ckddecode`), the one-time
  upgrade of old databases, schemas of the REST service, the IUCV channel: input and
  output, or no state between calls.

What is worth proving next: the properties of `FcpVolume` with two threads per
virtual machine, where the lock of the machine has to take the place of the
hypothesis.
