# A verification of snmpy

snmpy is an AgentX subagent in Python: it runs plugins that collect values and
tables from a machine, and serves them over SNMP through net-snmp. This
directory holds TLA+ models of its core, their model checking with TLC, and
proofs checked by TLAPS. Paths below are relative to `src/`.

## The system

| part | state it keeps | operations | hard because |
|---|---|---|---|
| agent core, `lib/snmpy/server.py` | `done`, `lock`, the plugins, one update thread each | register plugins, event loop, update and commit | one lock between the loop and all the threads; a signal or a hung command at any time |
| SNMP objects, `lib/snmpy/agentx.py` | net-snmp tables, ctypes buffers, the dictionary of registered names | `Table.clear`, `append`, `set_value`, `check_and_process` | a table is replaced row by row, a value by buffer and size |
| plugin base, `lib/snmpy/module/__init__.py` | `rows`, `ModuleItem.value`, the save file | wrapper of `update` (clear, update, dump), `load` | stops in the middle of a dump, data saved under another configuration |
| `lib/snmpy/module/log_processor.py` | an open file and its read pointer | poll, notice a rotation, read lines | another program writes and rotates the file between any two steps |
| processes, `lib/snmpy/__init__.py`, `httpd.py` | a main and an http process, the http port | fork, prctl, bind, exit, `log_fatal` | agents that overlap, are killed, or fork while a thread logs |
| configuration and MIB, script `snmpy`, `mibgen.py` | indices, names, OIDs | read plugin files, create the MIB, register | files come in any order, names are put together from parts |
| http server, `lib/snmpy/httpd.py` | the connection it handles, a pending alarm | accept, set the alarm, route, answer, cancel the alarm | one connection at a time, and an exception that the alarm raises anywhere |
| collectors, `module/process_info.py`, `filesystem_space.py`, `raid_info.py`, `disk_utilization.py`, `exec_table.py`, `file_table.py`, `exec_value.py`, with `parser.py` | `rows` or the items' values | `update`: list, look, parse, append | what they look at changes meanwhile; a failure leaves half of an update behind |
| `module/file_value.py` | size, offset, digest | `lstat`, open, hash in blocks | the file grows, shrinks or is replaced between them |
| types, `lib/snmpy/agentx.py` | a C integer, or two | `set_value` | widths, signs, two halves that are stored one after the other |

The main thread makes the plugins (each loads what it retained; a log_processor
starts its tail thread), creates the MIB text, forks the http process, registers
the objects and starts an update thread per plugin, then loops over `select`,
`snmp_read` and `snmp_store_if_needed`. An update thread commits what was
retained, then updates, dumps and commits once per period. Tables are committed
under `SnmpyAgent.lock`, which the loop holds around `snmp_read`; values are
committed without it. The http process only serves the MIB text; its port keeps
a second agent out, and its death ends the agent.

An update thread runs `update` under a wrapper that clears the rows before it and
dumps after it; only what an update that returned has made is dumped and
committed. The hard cases are all between steps: of the threads, of an agent and
the programs whose files it reads, of one run of the agent and the next.

## The modules

**TableService** is what managers are promised: collections, publications as a
whole, and answers that are the whole of what is published.

**SnmpyAgent** is the agent core. `main` and `fetch[p]` are program counters of
the main thread and of the update threads; every lock operation, every row
cleared, appended or read and every half of `set_value` is a step of its own.
`table[t]` is the net-snmp table as a function of the row index, `index[t]` the
`Table.index` that `append` numbers by, `wire[v][i]` the buffer of a value and
the size its watcher has. `got` is what `snmp_read` has gathered so far.
`latest` and `answer` are history, for the refinement. It implements
TableService with `served` mapped to the new rows from the moment a replacement
begins: nobody can ask before it ends.

**Retention** is the life of a save file over several runs: open (which
truncates), write, commit, exit at any point, a new configuration, load,
registration and the first commit. Data are an integer, a string, a string over
1024 bytes, one that was cut to that length, or None; what a row of another length
does to `Table.append` is modelled by the index arithmetic of that function. A value
plugin may be a log_processor (`tailed`), whose tail thread sets an item at any time
from the constructor on (TailSets). So the loops over the items, of the registration,
of the list that `dump` makes and of `commit_data`, are taken item by item, `pos`
being where they are. Where a value goes through the constructor of OctetString, as
in a table's row, a long string is cut (`Clipped`); where it goes through `set_value`,
as all items do, it is refused.

**LogProcessor** is the tail thread beside a writer and a rotation. A file is a
sequence of half lines, so that a poll may find a line begun. `fstat` and
`os.stat` are separate steps, and so is each line that is taken from `text` and
handed to `parse_value`, which may raise (RejectLine), and the seek back over
what is left. `Policies` are the ways in which a log may be
rotated, each a set of renaming, removing and truncating; `rotations` is the one
of this behaviour, and the stronger properties are about those without
truncation.

**Lifecycle** is one or more runs of the script, each a main and an http process.
The copy of a lock that another thread holds at the fork stays locked in the
child (Python 2.7 reinitialises no logging locks).

**Registry** goes from the plugin files to the registered objects. Names are
sequences of words. The MIB is a set of definitions, each of a name by the name of
its parent and a number, as in the text that `config_mib` writes; `Resolved` is what
net-snmp makes of it, and `Oids` the OIDs a registered name may lead to: more than one
where the MIB defines a name, or a parent's, twice.

**HttpServer** is what happens inside of the http process: clients that connect,
send or do not, take what they are sent or do not, and leave; and the server's
steps from accept to the end of `process_request`, with an alarm that may raise
its exception between any two of them. A path that `urlparse` refuses leaves
`route_request` before its `try`.

**Updates** is the update thread around `update()`: cleared rows, an update that
returns or raises, a commit. Five modules extend it with the bodies of
`update()`, and **Collection** is a plugin of any of them:

* **ProcessInfo**: processes are listed, then looked at one by one, while they
  start and end.
* **FilesystemSpace**: the lines of `mountinfo`, then `statvfs` of each path, while
  filesystems are mounted, over one another too, and unmounted. `shown` is
  history: what could be seen at which path during the update.
* **ParsedTables**: tables made of a text (`raid_info`, `disk_utilization`, and
  `exec_table` and `file_table` with `parse_table`). A text is a sequence of parts
  that fit or do not; a part that does not raises with the rows before it, and
  perhaps a row begun, in `rows`.
* **ItemValues**: `exec_value` with `parse_value`, `commit_data` of items and the
  two stores of a Counter64, which a manager may read between.
* **FileHash**: `file_value` with `use_hash`: `lstat`, `open`, and a read per block,
  beside programs that append to, truncate and replace the file.

**AsnTypes** has the widths: `Half` stands for 2^32, so that two halves and a sign
bit are the same for TLC's small numbers and for the real ones, and the proofs
are for any even `Half`.

`MC*` modules give constants values that a configuration file cannot write.
`*_proofs` modules hold the proofs.

A definition whose comment begins with "Mutant:" is the code with a plausible
bug. No specification uses it: PROJECT.json lists, for every property, the one
that must violate it when it takes the place of the real definition.

### What the models assume

* One query is outstanding at a time and is answered within one `snmp_read`. A
  manager that walks a table with several GETNEXT requests may see rows of two
  collections; the code promises nothing else.
* `got` may grow only while the loop holds the lock. The values, which are
  served without it, are out of the query path of SnmpyAgent: what a manager may
  see of them is `wire`. ItemsInOrder confines a size that does not fit its
  buffer to the item that is being set; it is a real window of the code, and
  a single assignment to a ctypes buffer counts as one step.
* Signals go to the main thread. One that arrives between the last bytecode and
  `select` waits for the next wake-up, which the AgentX ping alarm brings
  (`SelectTimeout`).
* In SnmpyAgent what was retained is well formed, except that values may be
  ones that their type refuses; the rest is Retention's.
* A cut pickle raises EOFError. Power loss and a missing fsync are not modelled:
  a dump that was written is on disk.
* The read-ahead of a Python file object is not modelled in LogProcessor. An
  inode bears the log's name once.
* Nobody sends the http process a SIGINT while it handles a request (its end, of
  whatever cause, is an action of Lifecycle). Where the code has closed the
  standard error, `handle_error` of the library ends the process or not: both are
  taken.
* `os.listdir` of `/proc` and a read of `mountinfo` are snapshots. The fields of a
  line, the numbers of devices, regular expressions and `cdef` functions are not
  modelled: what they make of a text is chosen.
* In ItemValues, what a command prints are numbers from 0 to below 2^64 that only
  grow. A value that falls would be read as a fall, or between two halves as
  anything.
* In Collection a commit of a table is one step and the dump is left out: the
  steps of the one are SnmpyAgent's, those of the other Retention's.
* A configured parser lacks its type or its path or has a type that is unknown,
  and not several of these at once.
* `lstat` of a symbolic link gives the size of the link, which would limit the hash
  of the file it leads to: FileHash has no links.
* In Registry, names are in lower case and plugin files do not set `name` or
  `snmpy_index` themselves.

## The runs

| run | properties | bounds |
|---|---|---|
| Tables | CursorValid, Published, ServiceSpec | two tables, one retained; collections of no row and of two |
| Values | TypeOK, ItemsInOrder | a plugin of two items, a log processor of one that a tail thread writes to; a good value and a refused one |
| Live | RequestAnswered, CommitFinishes, StopsWhenTold | one table, collected for ever |
| Retain | Durable, OnlyBadDataIsFatal, RestoredAsSaved | one table and one value plugin, a log_processor or not; two schemas, two collections each and three in all, any number of runs |
| Follow | TypeOK, OnceInOrder, OnlyWhole, AllHandled, CatchesUp, FollowsRotation, FollowsTruncation | three files, four lines; a log that is renamed or removed, and one that is truncated |
| Processes | PortKeepsApart, TiedEnds, Ends | three runs, one of them with a tail thread |
| Configure | TypeOK, OutcomeByFiles, OwnObjects, OwnOids | any subset of twelve files, in any order |
| Serve | TypeOK, AlarmHitsItsOwn, OwnAnswer, Answered | two clients, each with any of five requests or none |
| Collect | TypeOK, ProcessesComplete, OneRowPerDevice, FiguresOfOwnPath, SpaceComplete, NoPartialRow, WholeText, NeverBelow, ServedAsHeld, SpanIsHashed, AppendsDoNotMatter | below |

Two rows are the smallest table that can be half replaced, half read or cleared
by half; two tables are enough for one thread to hold the lock while another and
the loop wait. Two collections let a second dump overwrite a first; the number of
runs of the agent is not bounded. Of the two schemas one lacks the first item or
column of the other, so that a new configuration finds an item that is gone or new, a
row that is too long or too short, and a first column of another type. Three files allow two rotations between two
looks of the tail thread. Three runs are a survivor, its competitor and a process
left behind by a third. The twelve plugin files have one pair, at least, for each
way in which two can clash. Two clients are one that is served and one that
waits: the server has no state that a third would meet (about 120 thousand states).

Collect has four processes, one of which may not be looked into; four mounts of
a root and two devices on two paths, which is enough for a device mounted twice,
a path mounted over, and one between them that is excluded or fails; texts of
three parts of up to two members; two items, one of them a Counter64, with halves
of 0 to 3 and numbers up to 9, so that both the low half and the sign overflow;
two files of four units and blocks of two, with spans that begin and end within
a block and between blocks. About two million states.

The types of Retention and of Lifecycle are part of what is proved, and no property of
their runs.

Deadlock is checked but in Lifecycle, Registry and HttpServer: every run of the
agent may have ended, or be settled, and all the clients may have been served.

### Where the code and its words differ

Three more runs are expected to find a violation of something a changelog or a
README says. PROJECT.json quotes the words.

* CutFile: a stop in the middle of a dump leaves a file that no later start gets past.
* Renamed: a poll while the log has no file ends the agent.
* SideBySide: an http process forked while a thread logs never binds the port, and
  its agent runs beside another one. PortKeepsApart is what holds: only agents
  whose http process got to the port are kept apart.

### What else is worth knowing

What the code does, and the models show on the way to other properties:

* A main process that dies between the fork and its child's `prctl` leaves the http
  process behind, which keeps the port until it is killed. TiedEnds begins at the
  `prctl`.
* A refused value keeps the items after it from being committed (RejectItem),
  although changelog:6 has "Continue updating item beyond first failure".
* A retained string over 1024 bytes is refused by the next start; so is one that a
  tail thread sets between the load of its plugin and the commit at start, which is
  outside of any `try`; and retained rows that do not fit the new columns end the
  agent. OnlyBadDataIsFatal names them among the few things that can. In a row of a
  table such a string is cut instead, and is not served as it was saved.
* What the tail thread of a log_processor sets after `dump` has read the item and
  before it is committed is served and in no file: if the process ends, the next run
  serves an older value. Durable says what holds: what had been served when the last
  dump was written is not lost. Of every other plugin, all that is served is on disk.
* A log line whose match is no number raises in the tail thread, and `work_func`
  ends the whole agent (RejectLine): nothing there catches what `parse_value`
  raises.
* An item and the column of another plugin may get one symbolic name (`Names`
  leaves the columns of a table out, as `register_table` does), and so may an item
  and a plugin: `io` of a plugin `disk` and the subtree of a plugin `disk_io`. A plugin
  file `0023_info.yml` defines `snmpyInfo`, the parent of the agent's own objects, a
  second time: whichever of the two net-snmp takes, either the plugin's items are not
  in its subtree or the agent's version is, although README.md:142 gives every
  plugin the subtree of its number. OwnOids says what holds: while no name is defined
  twice, every object is in the subtree of its plugin.
* Two plugins whose names differ in their underscores only, `raid1` and `raid_1`, get
  one name as well; as sequences of words they differ, and the model does not show it.
* A plugin called `snmpy_info` is registered, but `create_mib` leaves it out of the
  MIB: OwnOids says nothing of its objects.
* A request for a path that `urlparse` refuses, as `//[`, gets no answer at all: the
  exception is outside of the `try` of `route_request`, `process_request` logs it, and
  the connection is dropped. Answered says that the server goes on.
* Before its retained rows are committed, a table answers as empty. Published begins
  at that commit.
* A truncated log that has grown past the read pointer before the next poll is not
  noticed, and what was written up to the pointer is lost. So are lines written to
  a renamed file after its last poll.
* When the command of `raid_info` ends with an error, its table is empty rather
  than the last one; and a volume that lacks an attribute, as a container does,
  makes the whole update fail.
* A parser of an unknown type makes a table of one default row.
* The row of a path that is mounted over, or unmounted since the list was made, has
  the figures of the filesystem that the path leads to by then. FiguresOfOwnPath
  says what does hold: never those of the mount before.
* An item that was parsed before its update failed keeps its value, and is served
  with it after the next update that succeeds.
* An Integer32 is negative from 2^31, the size of a large file for one.
* An alarm that goes off in the `except` or the `finally` of `process_request` is
  caught by no one in `httpd.py`, and may end the http process and with it the
  agent. AlarmHitsItsOwn says that none is ever pending between two requests.

## Fairness

SnmpyAgent: the steps of the main thread and the prompt steps of update threads
are weakly fair, since the interpreter schedules every thread. A collection is
not: a command may hang. Taking the lock is strongly fair, for the loop and for
each commit: the others hold it for a bounded time and sleep for a period, or
wait in `select`, between two uses. The loop's test is strongly fair, since only
signals that arrive without end can disturb it.

LogProcessor: the tail thread runs, a renamed file is made again, a line begun is
ended. The rotations are as many as there are inodes: a log rotated again between
any two looks would never be followed. Lifecycle: processes that can go on do;
nobody has to start, stop or kill one. HttpServer: the server runs and a pending
alarm goes off in the end; clients need not do anything, which is the point of
Answered.

Collection has no liveness: a command or a file system may hang for ever.

## The proofs

`SnmpyAgent_proofs` proves, for any sets of plugins, rows and values:

* `Invariant`: the inductive invariant IInv. CursorValid and Published are not
  inductive. IInv adds who may hold the lock and where (a table's thread exactly
  from clear to append, the main thread in `read` and `store`), how far a
  replacement has come (the rows at 1 to `pos` are the first `pos` of `rows`,
  `index` equals `pos`, nothing else is there), that a table thread before its
  commit still has in `rows` what `latest` says, and that what has been gathered
  is the part of the table up to the last row read.
* `TypeCorrect`, `CursorIsValid`, `LatestIsPublished`: TypeOK, CursorValid and
  Published follow.
* `Implements`: every step of SnmpyAgent is a step of TableService or leaves its
  variables alone. CollectRows is Collect, BeginReplace is Publish, and the end
  of a read of a table is Answer: there, all rows have been read, so that what
  was gathered is the whole table, which nobody is replacing.
* `ItemsAreInOrder`: ItemsInOrder. ItemInv adds that a thread which is not
  committing is at its first item, and that in the middle of `set_value` the buffer
  has the new value already, which the item of a plugin without tail thread keeps
  until its size is stored.

The lemmas go variable group by variable group (threads, tables, values,
queries), each by cases over the actions that touch the group.

`Retention_proofs` proves Durable, OnlyBadDataIsFatal and the action property
RestoredAsSaved, for any plugins, schemas and number of collections and runs, with
any of the value plugins a log_processor. Durable is not inductive: what must be in
the file went through memory, the list that `dump` makes and the commit, item by
item. PluginInv adds that:

* StampsInv: nothing in memory, served, on disk or due is newer than the last
  collection.
* LoadedInv: until the commit at start, rows are those of the file, and an item is that
  of the file or one a tail thread has found since, whose string is too long only if
  `tooLong` says so.
* ItemsInv: the items only get newer, so that memory is as new as what is served and,
  unless a dump was lost, as what is due; from its registration on an item has its type.
* DumpInv: the list that `dump` makes is of the present schema and, item by item, as new
  as what is served and what is due; without a tail thread it is what is in memory.
* FileInv: outside of a dump, and unless one was lost, the file is as new as what is due;
  between dump and commit, without a tail thread, it is what is in memory; and what an
  unchanged configuration finds on disk fits it.

`Registry_proofs` proves TypeOK, OutcomeByFiles, OwnObjects and OwnOids for
any set of plugin files. While the objects are made, what is registered is the
agent's own names and those of the plugins that are done, each under its index and
no two alike (DataInv); a refusal needs a clash, and an agent that is up has done
all its files. OidsAreOwn says of the definitions by parent names what the numbers
alone do not show. If no name is defined twice, a name that is placed at one level is
placed at no other and by one definition, so that it has one OID (level by level, from
the root); the first number on the way from the root to an object of a plugin is the
plugin's index; and two names with one OID would have one parent and one number there,
which no two definitions of a plugin have.

`HttpServer_proofs` proves TypeOK (`TypeCorrect`), AlarmHitsItsOwn and OwnAnswer
for any clients. InPlace adds which client is served at each place, and that the
status at hand is right for its request.

`Lifecycle_proofs` proves the types, that only an agent with a log_processor may have
an http process that is blocked in a lock (OnlyTailsBlock: only its threads hold the
log handler's lock when the process is forked), and from it that without such agents
PortKeepsApart is OnlyOneRuns, which SideBySide violates with one (OneWithoutTails). That
PortKeepsApart holds is model-checked.

`Collection_proofs` proves what the bodies of `update()` promise, each with an
invariant that concerns its own variables, so that the other bodies are stutters:

* `CountersNeverFall`, `ValuesAreServed`: NeverBelow and ServedAsHeld, for any even
  width. In the middle of a store the C data have the high half of the new value
  and the low half of the last, and the new value is no smaller; the arithmetic of
  `Split` and `Join` is a lemma.
* `ProcessesListed`: ProcessesComplete. Whoever lasts is still to be looked at,
  unreadable, or in the rows, and nobody is in both.
* `NoPartialRowServed`: NoPartialRow. The rows are whole where they may be
  committed, whatever they are after an exception.
* `TextsWhole`: WholeText. In the loop the rows are those of the parts before `at`,
  put together, and those parts fitted; when the loop ends that is the whole text.
* `DevicesAreListedOnce`, `FiguresAreOfThePath`, `NoDiskIsMissing`: OneRowPerDevice,
  FiguresOfOwnPath and SpaceComplete. The devices of the lines so far are seen or
  excluded, each row's device has been seen, its figures were shown at its path,
  and a disk that was seen has its row unless something hid it.

WholeText is stated with `FlattenSeq`, a recursive function over the parts. `Joined`
says of a function that it satisfies that recursion up to `n`. There is one for
every `n`: otherwise there is a least `n` without one, and the function for `n - 1`
with one value more is one for `n`. That a set of naturals has a least element
(LeastOfSome, from `WFMin` and the well-foundedness of `<` in the library) is a
first-order fact, and stands in for the induction rule, which takes an operator
and is out of the provers' reach. LastOfSome follows from it, and says what `Max`
picks in `OnTop`.

`FileHash_proofs` proves SpanIsHashed and AppendsDoNotMatter. As long as nothing
but appends happened, the offset is where the span begins plus what has been fed,
and what has been fed is that span; a block that is read next prolongs it, and an
append changes no span that is there. Its `TypeCorrect` is the TypeOK of Collection,
with the types that Collection_proofs shows of the other bodies. FileBounds is
what makes it inductive: no file is longer than what was written, and in the loop
less was hashed than was asked for, so that a block cannot overshoot the count,
whatever was truncated meanwhile.

`LogProcessor_proofs` proves TypeOK, OnceInOrder, OnlyWhole and AllHandled, for any
number of files and lines and any ways of rotating. LogInv has them and:

* WriterInv, ContentInv: lines are written to the file that bears the name, or to
  the last one that did; the two units of a line are next to each other; lines
  rise along each file, and those of the named file are above all of the files
  before it; only the last line begun may lack its end.
* OrderInv: what is handled is below what was read and is not handled yet, and
  both rise.
* TailInv: what is handled is below everything beyond `Done`, the place up to which
  the open file has been handled; what was read is still there, or below all that
  is there after a truncation; if the file shrank under the read pointer, or has
  lost the name, all that was handled is below what is going to be read from the
  start of a file. A reopen therefore repeats nothing.
* WholeInv, where nothing truncates: `text` is exactly the part of the file from
  `Done` on, so that the line that HandleLine takes has its start before it, but
  for the first, when the file was opened in the middle of it.

The proofs rest on the named assumptions of the modules only: for instance that
plugin kinds are disjoint, that special values are not ordinary ones, that `Half`
is even, that a block is not empty and that `sys.maxsize` exceeds any file.

Model-checked only: the liveness properties (RequestAnswered, CommitFinishes,
StopsWhenTold, CatchesUp, FollowsRotation, FollowsTruncation, PortKeepsApart,
TiedEnds, Ends, Answered); in Live, which has no value plugin, CommitFinishes is about tables only.
Fairness and ENABLED are out of the prover's reach.

## Not modelled

* What the pages of the http server say, the layout of the MIB text, the types of
  the columns, the syntax of options and of YAML.
* `use_stat` and `use_text` of `file_value`: one call each, whose result is the
  item.
* Logging setup: it maps a URL to a handler of the logging library.
* Daemonizing and the init script. `background` forks twice, writes the pid and
  closes descriptors 0 to 2; what comes of a pid file that a second agent has
  emptied, or that names one that has ended, is up to start-stop-daemon, and what
  takes the closed descriptors' numbers depends on the order in which libraries
  open theirs. Both are listed as hazards that no property covers.
* A command that never ends. Nothing in the code bounds it; the liveness
  properties are stated so that they hold in spite of it.
* The ctypes declarations and the build scripts have no behaviour to model.

## What is next

A composition of Lifecycle and Retention: two agents that overlap write the same
save files, until the one that finds the port taken ends.
