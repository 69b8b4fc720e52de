# A verification of LiteAlignData in TLA+

LiteAlignData generates test data. A template in XML describes interfaces, their
tables and the functions that fill the columns; the program writes the tables'
files, or serves them as a stream to clients that say `get`. This directory
holds TLA+ modules translated from its C++ source, TLC configurations that check
them on small instances, and proofs that TLAPS checks for every instance.

Paths below are those of the repository; `src/src/` in `PROJECT.json` is its `src/`.

## 1. The system

| Component | State it keeps | Operations | Modelled in |
|---|---|---|---|
| Dispatcher (`stream/Server.cpp`, `ThreadManager.cc`) | listeners, managers by service, `m_server_quit` | accept a client, choose a worker, hand the socket over, `Start`, `Stop` | `StreamServer` |
| Worker thread (`stream/WorkThread.cc`) | `m_fd_list`, the pipe, `m_acceptor_list`, `m_is_stop`, its event base | read a token, attach a socket, disconnect, leave its loop, be deleted | `StreamServer` |
| Connection (`stream/Acceptor.cc`) | descriptor, two bufferevents | read a request and answer it, handle end and error | `StreamServer` |
| Template parser (`sub/parser/XmlParser.cc`) | the tree of objects, the maps of functions and files, the list of interfaces | `Initialize`: three walks over the tree, the load of the dimension files; `ProduceData` | `TemplateParser` |
| Objects of the template (`struct/`) | attributes, parameters, rows and buffers of tables | `Initialize`, `processItem`, `processOjbect`, `createData` | `TemplateParser`, `RowProduction` |
| Row functions (`fun/FunctionObject.cc`) | percentages, the total and what is left of it | `process`, `Calculate` of a number of rows | `TemplateParser` |
| Dimension files (`sub/parser/XmlParser.cc`) | the columns asked for, the rows loaded | `addDimensionInfo`, `LoadDimensionFile` | `DimensionFiles` |
| Layout of a row (`parse_node`, `com/Comm.cc`) | offsets, the stack of open structures | lay out the elements of a table | `RecordLayout` |
| Format Example (`file/Example`) | the seed in memory | read a seed of text, write lines and header | `RecordText` |
| Interface and tables (`struct/AlignDataObject.cc`, `TableObject.cc`) | `m_status`, `m_createdTableNum`, `m_curFilledCount`, `m_bfullTable`, the dependencies | `StartProduceData`, `notifyAlldepenedTable`, make a file or a reply | `TableProduction` |
| Rows (`TableObject.cc`, `ColumnObject.cc`) | the row in the buffer, the values of subcolumns | `ProducedRowData`, `createData`, `MergeFunc` | `RowProduction` |
| Column functions (`fun/BaseFuncClass.cc`) | counters, pools, windows of each column | `process`, `Calculate` | `UniqueRandomFunc`, `AcculateFunc`, `RandomFunc` |
| Shuffle (`sub/shuffle/Shuffle.cc`) | the array of the lines' numbers | shuffle a file | `ShuffleFileLines` |
| Format Ctrldata, configuration, log, `main`, tools | see section 6 | | not modelled |
| Client (`tools/Client`) | one socket | connect, send, read | the environment of `StreamServer` |

How they meet. `main` parses the options and either produces files once
(`CXmlParser::ProduceData` with no bufferevent, one thread for each interface) or
starts a `CServer` and sleeps. In the stream mode one dispatcher thread accepts
the clients of all services; each service has a `CThreadManager` with its own
`CWorkThread`s. The two share the worker's list of descriptors, under a mutex, and
its pipe. A worker runs an event loop; its callbacks build the `CAcceptor` of a
client, read its requests, and produce the answer to a `get` inside the callback,
by a new parser and one thread for each interface.

A parser walks its template three times: to initialise the elements, to lay them
out and read the seeds, and to process them, which counts the rows of the tables
and has the functions read their parameters. Then it loads the dimension files the
functions asked for. The second walk initialises the tables once more, so that
each parameter of a column reaches its function twice. The production of an
interface copies the seeds to the tables' buffers and makes the tables in rounds,
each after those it depends on; a table makes its rows one by one, and a row by a
walk over its columns, whose functions calculate. The tables of an interface
share nothing with those of another.

What is hard about it, and what makes each part correct:

- *Stream server.* Two threads that share lists without agreeing on locks, a
  blocking pipe between them, clients that come, send, leave and reset at any
  moment, callbacks on memory already freed, and a `Stop` that ends everything in
  an order. Correct means: an accepted socket has one owner and is not
  forgotten; every client is served and answered while the service runs;
  `Stop` does not hand sockets to threads that are ending, and ends.
- *Template parser.* Walks that rely on what earlier ones left, with early returns
  whose results nobody looks at, repeated for each request by a server. Correct
  means: what is asked for is there; the rows that a function divides are those it
  was given; a seed fills the buffer of its table and no more; a walk that is made
  twice does nothing twice, or others know that it does.
- *Layout and text.* Offsets that are computed by one walk, a seed that is read by a
  pointer and written by offsets. Correct means: no two columns share memory, and
  what is read comes out.
- *Table production.* A recursion over any graph of dependencies, entered from a
  loop, in rounds, with three notions of progress (status, rows, files) that must
  agree. Correct means: a table is made once in a round, after the tables it reads
  and from their rows of this round; the production ends with the files asked for.
- *Rows and column functions.* Rows filled in place; counters that live across
  rows, batches and files, with percentages in integer and unsigned arithmetic.
  Correct means: merged fields are those of this row, unique numbers are unique,
  shares are those asked for, values stay in their range, and what is drawn from
  a file is the field that was named.
- *Shuffle.* Exchanges in place, with any random numbers: the output has each line
  once.

`PROJECT.json` lists the hazards with their lines and the properties that stand
against each.

## 2. The modules

| Module | What it is |
|---|---|
| `StreamServer` | the dispatcher, the workers, their clients and `Stop`; properties |
| `ConnLifecycle` | abstract: the life of a connection |
| `StreamServerProofs` | theorems about `StreamServer` |
| `TemplateParser` | the walks over a template, twice over, and the copy of the seeds; properties |
| `TemplateParserProofs` | theorems about `TemplateParser` |
| `RecordLayout` | the walk that lays the records out; properties |
| `RecordLayoutProofs` | theorems about `RecordLayout` and `RecordText` |
| `RecordText` | extends `RecordLayout`: reading a seed and writing lines; properties |
| `TableProduction` | the rounds of an interface; properties |
| `LockStep` | abstract: the n-th file of a table comes after the n-th files of those it reads |
| `TableProductionProofs` | theorems about `TableProduction` |
| `RowProduction` | the rows of a table, and `MergeFunc`; properties |
| `RowAndLineProofs` | theorems about `RowProduction` and `ShuffleFileLines` |
| `DimensionFiles` | the columns asked of dimension files, and the rows loaded |
| `RandomFunc` | extends `DimensionFiles`: the column function; properties |
| `RandomFuncProofs` | theorems about `RandomFunc` |
| `UniqueRandomFunc`, `UniqueParameters` | the column function and its properties; the columns that parameters make |
| `UniqueRandomFuncProofs` | theorems about `UniqueRandomFunc` |
| `AcculateFunc`, `AcculateParameters` | the column function and its properties; the columns that parameters make |
| `AcculateFuncProofs` | theorems about `AcculateFunc` |
| `ShuffleFileLines` | the shuffle of a file; the property that is proved of it |

`MCStreamServer`, `MCTemplateParser`, `MCRecordText`, `MCTableProduction`,
`MCRowProduction`, `MCRandomFunc`, `MCUniqueRandomFunc` and `MCAcculateFunc` are the
instances for TLC.

Modules meet where the code does. `TemplateParser` ends where the threads of the
interfaces begin: `TableProduction` has their rounds for every graph a template can
leave, one of its steps makes the rows that `RowProduction` has, and one of
those calls the functions, each of which has a module. `StreamServer` has all of it
as the one step that answers a `get`, which is all its callbacks see.

A definition whose comment begins with "Fault:" is the code with a plausible bug.
It stands before the definition it would replace and is used by no other; each
property has one that violates it, so that a property that passes is known to
depend on the code.

### 2.1 StreamServer

Actions and code: `AcceptConn` is `SConnListenerCb` up to the first `Size()` of
`CreateConnection`; `ScanCompare` and `ScanAssign` are the two reads of
`Size()` in its loop, each a step because `Size()` takes no lock; `AddSocket` and
`Notify` are the two halves of the hand-over. `ReadToken` and `Attach` are
`Activated`, before and under the mutex. `ReadCB`, `FinishProduce`, `ReadEnd`,
`WriteToGone` are the callbacks of `CAcceptor`; `Disconnection` is an operator the
last two use, since it runs in the callback. `ReadCB` reads a part of a stream of bytes:
`bufferevent_read` takes 1024 of them at most, and no more than have arrived. So one
read is some number of whole requests and, if it ends inside the next one, a part of
that, which is counted in `cuts`; what is left of it (`"rest"`) is read later as if it
were a request, and gets a reply of its own. A production ends with a reply
(`FinishProduce`), without one (`ProduceNothing`: no file, a template that is refused or
has no interface), with the whole process (`ProduceDies`: the functions and tables of the
other modules show how), or never (`ProduceHangs`: `TableProduction` shows when). `WorkerExit` is the end of `Run`.
`Stop`, `JoinDispatch`, `StopWorker` and `DeleteWorker` are `CServer::Stop` with
`ExitSafety` and the destructor of a worker. `Connect`, `Send`, `Leave` and `Flush`
are the clients and the kernel.

Undefined behaviour is a choice. An event that fires on a deleted acceptor
(`LateEvent`), the incremented iterator that was erased and the event deleted
after its base (`DeleteWorker`) may or may not set `crashed`; a write to a socket
that was reset may raise SIGPIPE, which the program does not ignore.

What is abstracted: a request is `get` with the NUL that the client of this repository
sends behind it, a bare `get`, or something else; which of them a read that has several,
or a part of one, is taken for is `ReadAs`. A reply is a number counted; a token is nine bytes that are written and read whole; a descriptor is
the connection it belongs to, so that the reuse of a descriptor's number is not
in the model. `CServer::Init` is the initial state.

Properties (`StreamSafety.cfg`, `StreamLive.cfg`): `TokenPerPendingFd` and
`OnePlace` say that no accepted socket is stranded or owned twice;
`NoHandoffToStoppedWorker` that `Stop` keeps its order; `NoUnaskedReply` that
replies never outnumber requests and the reads that ended inside one, for which the code
does reply twice; `KnownDeaths` that a running service dies of a production that dies or
of a client that leaves while a reply waits, and of nothing else; `EveryClientServed`,
`RequestAnswered` and `StopEnds` that everyone gets on. A production that never ends
excuses them only for those it holds up (`HeldUp`): the clients of its worker, and those of
all services once the pipe of that worker is full and blocks the dispatcher. A client whose
request ended in silence (`silent`) or whose acceptor was not made (`lost`) is not answered. `LifecycleRefined` says
that the server implements `ConnLifecycle` under the mapping `PhaseOf`, which reads
the phase of a connection from all the lists it could be in.

Fairness. Both loops run `event_base_loop` without blocking, again and again, and
one pass calls back every active event; the only waits are the mutex, the full
pipe, the joins of `Stop` and a production. So each action of the dispatcher, of a worker
and of `Stop` once begun is weakly fair: a production ends in one of its four ways, of
which one is not to end. Not fair: clients, the call of `Stop`,
`WriteToGone` and `LateEvent`, which nothing relies on.

Bounds. Three clients, one service and two workers in the safety run: enough for
a queue of pending sockets behind a full pipe (`PipeCap = 1`), for two workers to
choose between and for one client that leaves while two others wait. The first client
has two requests, so that one read can take both, and one read that ends inside a request
(`MaxCuts`). Four clients and two services of one worker each in the liveness run: one
client that the worker is busy with, one whose token fills the pipe, one for whom the
dispatcher is blocked, and one of the other service, who has to wait for all of this; the
first three are of one service (`Target`). Two managers are the least for `Stop` to walk.
Everything that can fail fails in both runs, and `Stop` comes at any time in the second.
Reads cut in two are left to the safety run. Neither run uses symmetry: the clients differ.

### 2.2 TemplateParser

A template is the sequence of its elements in the order of the text, with their
parents and the attributes that the code looks at. `Initialize` takes one element
of the first walk (`travelXmlElement` and the `Initialize` of its class, with what
each class refuses), `LayTable` a table of the second (`parse_node`, with the seed
and the parameters that are given again), `ProcessFunction`, `ProcessOther`,
`ProcessSubColumn` and `ProcessTable` one of the third. `LoadFiles` and `Release` end
`CXmlParser::Initialize`. `CopySeed` is one `memcpy` of `fillAlltheTableData`. A template
that was parsed, or refused, is parsed again by `Start`, as a server does for each
request: what outlives a parser is the XML library, which it may have left
started, and the feed that a directory of seeds is put together in.

`ReadyWhenAsked`: tables ask for rows only functions that were processed, which
depends on two walks and on where in the text the function stands. `RowsOfTotal`: what
a function of a total gave, and what it has left, are the total, through
shares in doubles, a subtraction that may wrap, and the rest over the files.
`SeedIsCopied`: buffers hold the lines of the seed in turn, also for fewer rows than
lines and for seeds that grow with each parse. Behind the lines that were read the
memory of a seed is somebody else's, and a copy that reaches there is undefined.
`TemplatesAssumption` says what the text of a template cannot leave open: lines are
counted, only the name of a function leaves a number of rows to one, and what `strtoull`
and `atol` make of a text is a number, for percentages as many as it has parts.
`ParametersTwice` is what the functions have to live with: each parameter gives itself to
its function as it is read, and again with the table around the column when that is laid
out, but not outside a table. `LibraryHeldByRefused`: a parser leaves the library
started exactly if it refused its template. `UnknownFunctionRefused` is what the
log says and the code does not do.

Bounds: a `uint32_t` has 16 values, percentages are out of ten, fourteen bytes can be
mapped, a member without a value holds 0 or 3. Up to three tables, which is the
least with one between the first and the last that a total is divided among; two
requests, the least in which one finds what another left. One directory of seeds;
tables name a function of the base class or `RedefineRow`.

### 2.3 RecordLayout and RecordText

`RecordLayout` is `parse_node` as a walk with an explicit list of open elements, of
which the nested ones are the stack of `Comm.cc`. There is one offset for all
open structures and one for all unions, as in the code, and a stack that ignores what
does not fit. `RecordText` adds the format Example: when the walk leaves a table its
seed is read, field by field, at a pointer that runs on by the widths of the
columns (`EntryColumn`); lines are written from the offsets (`WriteColumn`), behind a
header of names (`WriteHeader`). A flag chooses the member of a union. The memory of a seed is
`Allocated`: the product of two `uint32_t` (`Example.cc:187`), which is cut to 32 bits
(`Narrow`). A text takes as many words as it has (`TextWords`), whatever its place: a
longer one is written over what is behind it (`Example.cc:98`), of which the fields that
are read later are written again. It comes out `Mangled`, for the writer copies 256
characters of it and no NUL. Behind the end of the memory anything may be destroyed, and the
process may die of it at once or later (`DiesOfOverrun`).

`LenIsSize`: the length of each element is the recursive one, although there is one
stack for structures and unions. `Disjoint`: columns share no memory and end
within the row, in every body without unions, whatever is passed over where the
stack is full. With unions they may: the offset goes on behind a union from
where the last union began. `StaysInSeed`: what was written (`reach`) is within the allocated
memory, or behind it by no more than the longest text was too long (`excess`). It asks
that the size is a number of 32 bits; a seed of 4 GiB or more does leave its memory, and the
run has such seeds and such texts. `RoundTrip`: pointer and offsets agree, and a text that is too
long spoils no other field while the memory holds what was written.
`HeaderFits`: as many values as names, whichever members the flags choose.

Bounds: memory is counted in words (a text has three, a number one). Every tree of
up to four elements in the body, and of five of the kinds that nest, with a
stack of three: the least that is full in a body that has something behind it. Two
lines of seed, so that a line begins where another ended; forty words
(`MaxWords`), more than any of the rows needs. Texts of one word and of four, one more than
their place; a size is cut at twenty words, which the longest rows pass with two lines.

### 2.4 TableProduction

The thread's place is `pc`; the recursion of `notifyAlldepenedTable` is the variable
`stack`, with the iterator of each call. `CheckFull`, `WalkTable` and `EndRound` are
the loop of `StartProduceData`; `Blocked`, `AlreadyDone`, `Produce`, `Fail`, `Notify`
are what a call of `notifyAlldepenedTable` does. `FinishToCreateTableNum` counts one
file, or two when streaming, as `SendTableData` and `streamTableData` both call it.
A template is a graph of dependencies, the number of files of each table, its
`tableid` and the mode: all the parser can leave behind, including cycles and
dependencies between tables of different numbers of files, which
`CParameterObject` refuses and `CTableObject::processOjbect` accepts.

Properties (`TableRounds.cfg`): `RowsFit`, `ReadsThisRound` and `InLockStep` (the
implementation of `LockStep`) say that the order of names, the recursion and the
reset at the end of a round produce each table once and after what it reads;
`StackBounded` that the recursion is bounded, cycles included; `ProductionEnds` and
`EveryFileMade`, for templates that can be produced, that the loop ends with the
right number of files. `Producible` names what such a template needs: without
it the loop goes on for ever, and the code does not check it. `FullMeansAllFiles`
(`TableStream.cfg`) is what the log says of a full table.

Fairness: one thread runs without waiting; some step of it is always taken.

Bounds: all graphs over three tables (64), one to three files each, files and
stream, and a few odd templates: a self-dependency, no files, a shared `tableid`, a
dependency named by two columns. Three tables are the least with a table that is
reached from two others and from the walk; three files make the rounds of
unequal tables drift apart.

### 2.5 RowProduction

The calls of `ProducedRowData` are the list `open`; `Descend` calls it for the next
child, and `CalculateNumber`, `CalculateMerge`, `CreateNothing` and `CreateRow` are
`createData` of a column with a function, one that merges, an element that makes
nothing, and the table. What a function other than `MergeFunc` calculates is any number,
or a failure that leaves the row half made. A number is the set of the places of its
ones: all that `MergeFunc` and `setNumber` do to one is to shift it, to cut it and to take
the or of several, and sets say so without arithmetic on powers of two.

`TemplateAssumption` says what a template is: the table comes first, an element behind its
parent, columns in the head or the body, and the body is one and comes last, as in the
templates of `seedfile/`. The structures between a body and its columns make nothing and
are left out. The head and the body of a table both count their offsets from 0:
`parse_node` sets `m_offset` to 0 for a body (`XmlParser.cc:1476`) and after a table
(`XmlParser.cc:1500`), so that a head behind a body would begin where that ends.

`FieldsOfRow`: in a row that was made, the bits of a merged column are the values its
subcolumns have in this row, through two levels of merging and whatever the rows
before left in them, if they have room. `SeedKept`: a word that is not the seed's is that of
a column that writes, in a row that was made or is being made (`Made`), so that rows to come
and columns without a function keep the seed, also behind a failure; `Percentage`
attributes are the only way to undefined behaviour.

Bounds: words of four bits and halves of two, so that TLC tries all the values;
two rows, the least in which one could see what another left; bit lengths up to
beyond the word.

### 2.6 RandomFunc and DimensionFiles

`ProcessParameter` reads one parameter, `EndParameters` fills and shuffles the array of
picks, `AddDependencies` is `CParameterObject::processOjbect` of the columns, `LoadFiles`
makes a row of each read of `fgets` and splits it into fields, with the two ways to split
the code has, and each kind of column has its `...Calculate`. A line longer than the buffer
of 1024 characters is several reads, each of them a row, in which the fields of the
others are missing. A line with a quote is split by `parseCsvString` into a vector that is
destroyed before the fields are converted (`XmlParser.cc:729`): what a field of it reads
as is the field, or whatever its memory holds by then (`Freed`). A value is the place it was read from, so
that a property can tell which field a column got.

`DrawsTheColumn`: a column that draws from a file holds a field of the column that its
parameter names, whatever others asked of the same file and in which order, if every line
fits the buffer and has the field (`Complete`). That goes for quoted lines too, such as those of
`seedfile/Example/matches_table.csv`, as far as the code allows: of those it is the
right field or its freed memory, never another.
`ShareOfFiles`: in every round of picks that follow one another each file has its
percentage, whatever the shuffle made of the array, as long as `fileIdx`, a byte, numbers
them all: past that files share a number, as a template of the run has it. `EvenInWindow`: the rows of a
window are drawn in turn. It leaves out windows that end with their file, which the
code takes for windows of all the rows, and those behind a file without lines:
`fillDimensionInfo` returns at the first such file (`BaseFuncClass.cc:603`), so that the
windows of the files that follow are never set. The proof found the second; a template
of the run has it since. `SoundColumnsSucceed`: rows fail only for what
`Sound` names, a reason in the template or in its files: a line without the field, and a
line that is cut, whose second row ends the program when it is drawn (`BaseFuncClass.cc:917`). `HundredAccepted` (`RandomHundred.cfg`) is what
the error text says of percentages. `TemplatesAssumption` says what the kinds of texts
stand for: digits are numbers, and a file has reads of fields.

Bounds: percentages out of four, which is the length of the array, bytes and
unsigned numbers of eight values; files of up to three lines of three fields, whole, quoted,
with fields missing, and cut in a field, behind one and between quotes; two
files of rows, up to three columns that ask for the same file, and one column with more
files than a byte can number. Two files are the least
to share between; three lines have windows that begin, end and wrap around.

### 2.7 UniqueRandomFunc

The rows of three files of one table. Each row is one call of `Calculate`; the
random numbers are choices. `TakeUniq`, `TakeDup` and `TakeNothing` are the
outcomes of a draw, after the pools have been filled if a batch begins; `Skip` is
a row that the percentage leaves out; `Die` is the division by a batch without rows,
or the attempt to fill pools with billions of numbers. `UniqueParameters` has `process`,
which accepts such columns.

`UniqueInFile`: at 100 percent in batch numbers do not repeat in a file, although
the pool may still hold numbers of the file before, which come round again. The
reason is the order: numbers are pushed and popped at the same end, so that
leftovers are never reached. `ShareInBatch`: in whole batches the share of
different numbers is exactly `percentInBatch`, whichever pools the draws came
from. `InRange`: no row gets the 0 of the error branch, if the batch is divided
evenly; with an odd rest it does. `PoolsBounded`: between files the pools hold at most
what each file left of a batch, and nothing if batches are whole; in the midst of a
file a batch more.

Bounds: batches of 1, 2, 4 and 5 rows, files of 3, 4 and 5 rows (a part of a
batch, a batch, more than one), shares of 50, 75 and 100 percent, and ranges wider
and narrower than a file; the default of a batch is scaled to four rows
(`MaxRowsInBatch`) and a `uint32_t` to 16 values (`Narrow`).

### 2.8 AcculateFunc

The rows of three files of one table, one call of `Calculate` for each. `Draw` is a row
within the percentage and `Skip` one that is not; `FileAcculate` is the column whose
`SourceType` counts through the lines of a dimension file. Its first line is what the
parameters leave in `m_init`: an `Init` or a prefix read behind the `SourceType` moves it, one
read before does not. `Die` is a line without the field, whose type is then asked for by a null
pointer (`BaseFuncClass.cc:1774`); `Misfit` a field of another type (1778), and `NoLines`
a file without lines (1753), or none, each of which returns false to a caller that does not
look. The last is also the row of a column that has no such type and whose `m_type`, which no
constructor sets, happens to say that it has (the kind "none"). `last`, `rowIdx` and `unit` are
`m_lastnumber`, `m_rowIdx` and `duplicatedUnit`; they outlive a file. The jump of a
batch is taken modulo `Modulus`, the width of the integers, as the code's unsigned
subtraction is. The columns come from `AcculateParameters`, which is `process`: what
it refuses, the widths that numbers are cut to, prefixes and times.

`InRange`: without jumps a number never leaves its bounds. `CountsOn`: the n-th row
with a number, counted over all files, has the number that a closed formula
(`Nth`) gives for the range, step and unit; files' ends and left-out rows do not
disturb it. The lines of a file are counted from the one that `m_init` says, or from the
first if the file has no such line. `SameEveryFile`: a column that starts again repeats its first file. It
needs the last number of a file to have had all its rows, since `duplicatedUnit` is
not reset. `ShareInBatch`: in whole batches the share of different numbers is
`percentInBatch` and the batches have none in common; `PlainBatches` names what
that needs, a part that is a whole number of rows, one row for each number, and a
range that does not end in the file.

Bounds: integers of 6 bits (`Modulus` 64), 32-bit ones of 5 (`Narrow`), percentages in
a whole byte; a table that begins at the time 5, in seconds of 3 units; three files of
six rows (four where rows are left out, since every choice of rows is tried), ranges
whose end the count passes several times or never, units of none, two and three
rows, batches of two to four rows with each quarter as share; files of none to twelve
lines, begun at their first line, another, and one they have not, with lines without the field. The parameters are a
few hundred columns, not all.

### 2.9 ShuffleFileLines

`ListLine` and `EndList` list the lines until the zero behind the file, which may be
missing when the file fills its last page; `PutLine` exchanges and copies one. The
arrays have `Room` for so many lines, beyond which the program writes past them. An empty
file, which cannot be mapped, is one behind which there is no zero.

`IsShuffle`: an output that comes to its end has each line of the file once, whatever the
random numbers were: the exchange is left out when the number is the place's own, and the
last place has no other.

There is no configuration: `ShuffleCorrect` is proved for every number of lines.

## 3. The runs

| Run | Module, configuration | Result |
|---|---|---|
| `stream_safety` | `MCStreamServer`, `StreamSafety.cfg` | passes; 553,821 states |
| `stream_live` | `MCStreamServer`, `StreamLive.cfg` | passes; 109,308 states |
| `template` | `MCTemplateParser`, `Template.cfg` | passes; 302,420 states |
| `template_function` | `MCTemplateParser`, `TemplateFunction.cfg` | finds a function that is not defined and not refused |
| `record_text` | `MCRecordText`, `RecordText.cfg` | passes; 243,388 states |
| `table_rounds` | `MCTableProduction`, `TableRounds.cfg` | passes; 79,239 states |
| `table_stream` | `MCTableProduction`, `TableStream.cfg` | finds a table that is full after half its replies |
| `rows` | `MCRowProduction`, `Rows.cfg` | passes; 193,547 states |
| `random` | `MCRandomFunc`, `Random.cfg` | passes; 63,603 states |
| `random_hundred` | `MCRandomFunc`, `RandomHundred.cfg` | finds percentages of 100 that are not accepted |
| `unique_numbers` | `MCUniqueRandomFunc`, `UniqueNumbers.cfg` | passes; 364,212 states |
| `acculate_counts` | `MCAcculateFunc`, `Acculate.cfg` | passes; 41,353 states |

The three runs that find a violation each check what a line of the program's own log
says against what the code does; `PROJECT.json` quotes them under `findings`.

Deadlock is not checked: the server rests when its clients do, and a parsing, a
production and a column end.

## 4. The proofs

`tlapm` on the eight modules `...Proofs.tla` checks them. Each theorem is for every value of the
constants, from the assumptions that the modules name.

### 4.1 Stream server

For any finite set of connections and any services, workers, backlog and pipe, from
`ConstantsAssumption` (every service has a worker; nothing says that two services share
none) and `ConnsFinite`, which makes `Size()` a number.

`HandoffInv` is inductive: the types; what the dispatcher's
locals hold at each place (`HandOK`); how far `Stop` has got (`StopOK`); that a
connection not yet opened or already lost is nowhere (`NowhereOK`); and the two
properties `TokenPerPendingFd` and `OnePlace`. None of the last two is inductive
alone: that a token finds its descriptor needs the dispatcher to be between
`AddSocket` and `Notify` for at most one worker, and that a socket is in one place
needs every step that adds it to know it is nowhere else. `NoHandoffToStoppedWorker`
follows from `StopOK` and `HandOK`. The proof of a step has one lemma for each group of
actions and each conjunct they touch.

`KeepsLifecycle` is the refinement of `ConnLifecycle`: `PhaseOf` reads a connection's phase
from the backlogs, the dispatcher's locals and the workers' lists, and under `HandoffInv`
each step changes the phases as one move of a connection's life does, or not at all. It is a proof of safety: `ConnLifecycle`
states no fairness.

`RepliesWereAsked` counts what a client got, what is on its way, what was read and not
answered and the one reply under way (`Owed`), against the requests it sent and the reads
that ended inside one. That there is one under way at most needs `ServingOK`: the acceptor
a worker produces for stays its own until it is done, since the callbacks that would
delete it run on the same thread; so it is while a production hangs, and when one
dies. `DeathHasCause` (`KnownDeaths`) rests on `StaleOK`: a deleted acceptor with an event still
armed is that of a client that left with a reply in the buffer, and what was closed stays
closed. The other cause, a production that dies, is a step of the model and is named as such:
the theorem says that there is no third.

### 4.2 Table production

For any set of tables and any template. `RoundInv` ties the status of a table to its
buffer (`NotReady` is empty, `Done` is full) and to the status of the tables it
reads. It is inductive with the types; `RowsFit` and `ReadsThisRound` follow from it
without further steps.

`CallsNestBounded`: each open call is of a table that depends on the one before, and all but
the innermost have made their file (`WellStacked`); tables that are `Done` depend on each
other without a cycle (`Acyclic`), as one becomes `Done` after those it reads. So no
table is open twice, and the stack is no deeper than the tables are many.

`RoundsInLockStep` is the refinement of `LockStep`. Its core is that a round reaches every
table whose dependencies are `Done`: by its name in the walk, or by a call that is still
to notify it (`Reaching`). Then after n rounds a table has n files, unless it has all
its files or reads from one that has fewer (`InRound`).

`AllFilesMade`: a flag of `m_bfullTable` stands for a table that has made its files, and
no table of a producible template makes more than its number takes (`CountOK`).

### 4.3 AcculateFunc

For any set of columns, any number of files and any `Modulus`, from
`ColumnsAssumption`. The types are inductive once it is added that only a column of
the kind "number" counts its numbers (`TypeInv`): the other kinds leave `m_rowIdx`
as it was, and would otherwise find it above the row. `InRange` is inductive with
the types: a number without a jump is the clamped one, whatever the sum that was
left for it wrapped to.

`CountGoesOn` follows from `CountInv`: when `drawn` rows have a number, so many numbers had all
their rows and `unit - 1` rows the next, which is the n-th of the closed formula. For the lines of a
file it holds from any first line, in or past the file, and with lines that end the program:
no row comes behind one.
`FilesRepeat` says of each row of a file that its number follows from its place and the
number before it alone (`Follow`), through jumps and the wrapping of integers; two files
that start alike are then equal, by the least row in which they would differ.
`BatchesShare` gives the closed formula of a batch with a part that repeats (`Share`), and
shows that it takes each value in one batch only.

### 4.4 UniqueRandomFunc

For any set of columns and any number of files, from `ColumnsAssumption`. `InRange` is
not inductive: the 0 of the error branch comes when all pools are empty. `Stocked` says
why they are not: inside a batch they hold at least one number for each row of the batch
that is to come. A batch puts in `UniqRows + 2 * DupRows` numbers, which is `rowsInBatch`
just when the rest comes out even (`EvenShare`), and every row takes one, from
whichever pool. What earlier files left only adds to that, so that the beginning of a
file in the middle of a batch does no harm.

`PoolsHoldNoMore` is the same count from above (`HeldOK`). `NumbersUnique` is about
the order of the pool (`Dealt`): the numbers of the batch that are not yet on a row are
on top of it, in their order, and those on rows are the ones taken before; what an
earlier file left lies below and is never reached. `SharesKept` gives a batch a place for
each of its rows, one for a number of `uniqPool` and two for one of the `dupPool`s
(`ShareOK`): a ghost function from rows to places is one to one, and the pools hold
the places that are left, from whichever of them the rows drew. At the end of a batch every
place is taken, so that each number is on one row or on two.

### 4.5 TemplateParser

For any templates that satisfy `TemplatesAssumption`, any number of requests, any memory and
any width of the numbers. `LibraryHeld`: the library is started once for each parser that
refused, and once for the one at work (`LibraryOK`). `FunctionsReady` needs to say where in
the text things stand (`ReadyOK`): the first walk accepts an element only when the function
it names was defined before it (`Named`), and the third has read every function that
stands before the element it is at.

`SeedCopied` is a count that goes on by chunks. The rows copied so far hold the lines of
the seed in turn, and their number is a multiple of the seed's lines unless the buffer is
full (`UnderWay`): only then does the next chunk, which begins with the first line, go on
where the last ended. A buffer without rows that wraps to `Word - 2` of them, and chunks cut
to the buffer, are in the same invariant.

`ParametersGivenTwice`: in the first walk a function has those of its parameters that stand
before the element the walk is at; in the second it has them a first time until the walk is
past the table around it, and twice from then on (`GivenAt`, `StepParameters`).

`RowsDivided`: as long as tables are processed, of each function that was read as one of a
total the rows its tables got and those it has left are the total, it has counted
as many calls as tables asked, and when these are as many as a table has files, and no
percentage is left for the last, nothing is left (`Balanced`). This needs that a table is
processed once, behind the function it names (`ReadyOK`), that reading the parameters leaves
the total and the rest equal in any order of the parameters (`TotalRead`), and that a call
takes from the rest what it gives, and all of it with the last file (`OfferDivides`). The sum
over the tables and the reading of the parameters are folds, defined by recursion:
`SumsAre` and `ReadsAre` show that each is the value of a function over the subsets that have been
taken in, by the least size at which it would not be; that the order of the sum is indifferent
is part of it.

### 4.6 RandomFunc

For any templates that satisfy `TemplatesAssumption`, from `RandomAssumption`. `IInv`
(`TypeCorrect`) says what the parameters leave behind and the rows keep: a
dimension column that a function asked for is mapped to a place of its file's list
where a column with its index is (`InfoOK`, `Asked`), whatever is asked for later; the rows
loaded are those of the file (`LoadedOK`); the row that comes next in a window is one of the
file's (`AheadOK`). `ColumnDrawn` then needs that the position in the list gives the
field with the index of the column (`FieldIs`), which is about how lines are split: by
`strtok`, which passes over empty fields (`PlainTokenIs`), and by `parseCsvString`, which ends
at a quoted one (`QuotedTokenIs`).

`SoundSucceed` takes every way a row can fail: each contradicts one of the reasons of
`Sound`, when the ranges that were cut to the file's lines, the index of another table's last
row and the next row of a window are what `IInv` says.

`WindowsEven`: of the rows of a window that was set the first t were drawn once more than
the others, and the next is the one behind them (`Turn`). That a step keeps this is
arithmetic modulo the number of lines: from the end of the window to its begin, and
from the end of the file to its first row, which are told apart because the window does
not end at the file's end. Windows are set with the first row of a column, when nothing was
picked (`FirstOK`).

`FilesShare`: the totals of `Total` are those of a function of the numbers (`TotalIs` shows
that the recursive function is one) and do not wrap when they come to 100 (`TotalsRise`), so
that the places of the files part the array (`FilledIs`: each file has as many places as its
percentage). An exchange of the shuffle keeps how many there are of each (`ShuffledParts`),
hence the array of a column that was accepted has each file as often as its percentage
(`Parted`). The picks go round that array (`PlaceIs`), so that the latest `Hundred` picks are
each place once, whichever place they began with (`LatestOK`), and so were those of
every round before (`SharesAppended`). The column that `HundredAccepted` is about has no
part in it, for it is refused.

### 4.7 RecordLayout and RecordText

For any well-formed templates, lengths and depth of the stack, from
`LayoutAssumption`. `Disjoint` is not inductive: it speaks of columns that were
visited, and the next one is put at `offset`, which the end of a structure sets back
to an offset that all structures share. `IInv` adds the shape of the list of open
elements (each behind the one before it, and all visited since below it), that
elements ahead have no offset, that the columns of an open body end at or
before `offset` (`Packed`), and that `offset` is not past the common offset plus the
total of the innermost open structure (`Room`): the end of a structure, computed from
those two, then never goes back behind a column. `TextImplementsLayout` shows that
the steps of `RecordText` leave the layout to those of `RecordLayout`, so that
`Disjoint` and `LenIsSize` hold in the whole (`TextDisjoint`, `TextLengths`).

`LengthsAreSizes`: `Totals` says that the total of an open structure or union is the sum
or the largest of the sizes of its children that were left (`Summed`), and that what was
left has its size (`Measured`). Both hold only while no nested element is passed over,
which is what `FitsStack` says: the stack then has the nested elements that are open
(`StackHasRoom`). An element that is left is counted at the top of the stack, and
that is its parent (`TopIsParent`): between an element and an open one above it there
is none but the elements that are open too. That `Size` is what its recursion says is
an induction over the elements below (`SizeIs`).

The text, from `TextAssumption` as well. `Walk` is what every proof about it rests on: `IInv`,
that an element that was left has its offset (`Laid`), the types (`TextTypes`: the calls
to come are elements of the body) and how far each phase has got (`Stages`: a seed is
read once, by the step that leaves the table, and its lines are counted).

- `SeedHoldsLines` (`StaysInSeed`), for every body without unions and flags that fits the
  stack. The calls to come are in the order of the body and cover all of it
  from the first of them on (`Ordered`), so that the columns not read yet are those
  at or behind the first call (`ComingBehind`). `Pointer` then says that `data` is
  not behind the place of any of them: a column that is read moves it by no more
  than its length, and those behind it begin after its end, by `Disjoint`. What was
  written is behind `data` by no more than the longest text was too long (`Reached`), and
  the size of the memory is the product of lines and row size because that is not cut (`NotCut`).
- `SeedComesOut` (`RoundTrip`), for every body of numbers and texts whose row is as long as
  its columns. There the pointer is exactly at the place of the column that is read
  (`AtPlace`): what was read and what is to come make up the line (`OnTime`), the
  columns to come share no memory and have no more than the rest of the row
  (`SumFits`), and `Pointer` has the other direction. So the words of the lines
  read hold their fields (`SeedHeld`; a field is written forwards from the pointer, so that
  neither a later line nor a long text reaches one that was read, `CellIs`), the
  lines written hold those (`RowsHeld`), and at the end they are all of the
  lines, with a value for every column in the order of the columns (`AllHeld`). A column
  is the i-th of its row by its rank among the columns (`Ranks`, `RankTaken`).
- `LinesFitHeader` (`HeaderFits`), for every body of numbers, texts, structures and unions of
  columns without flags, wherever flags choose the members: the values of the line and
  the names of the calls to come (`Owed`) are together the names of the header
  (`Balanced`). A structure has the names of its children, which it calls
  (`OwedBelow`); a union has those of its first member and calls one, each of which has
  one name (`OwedCalls`); a column has its own, which it writes, and those of what
  stands behind its flag (`OwedBehind`). `Owed` is a sum over a sequence, which
  `SumOfTwo` and `SumRenamed` split and renumber, and that `NameCount` is what its
  recursion says is an induction as for `Size` (`NamesIs`).

### 4.8 RowProduction

For any templates and widths of words, from `TemplateAssumption` and `RowAssumption`.

`RowsKeepSeed` (`SeedKept`): `IInv` adds the types and that the calls of `ProducedRowData`
begin with the table, which no other call is for (`Calls`). A row is then counted
exactly when the list of calls becomes empty, and a column that writes has its address
in the row being made (`AddressInTable`), never in another.

`RowsHoldFields` (`FieldsOfRow`): `MInv` follows one column that merges through the walk of
its row. Its call is to come (`Pending`), goes on (`InStack`), or has returned, and
then its word is merged from what its subcolumns have (`MergedIn`), to the end of the row
and until the next begins. A subcolumn changes what it has only while the call of its
column goes on (`ParentGoesOn`), for each call is for the child that the one before it
has come to (`Chain`); another column of the body has another address (`OtherAddress`); a
column of the head may have the same one, but it is made before the body is begun
(`HeadIsAhead`). That the merged word holds each field is `FieldIs`: the sum of the bits
of the subcolumns never decreases (`BitsAre`, `BitsGrow`), so that the places of two
subcolumns do not meet, and, as it is no more than the bits of a word, the byte `leftbit`
holds it.

### 4.9 ShuffleFileLines

`ShuffleCorrect` (`IsShuffle`), for any numbers of lines and room, from `Sizes`. The inductive invariant
says that the array holds each number once (`Injective`, `Complete`) and that its first
places are what was written (`Kept`); an exchange keeps all three, whichever place the
random number says, the same one among them.

### 4.10 Only model-checked

`EveryClientServed`, `RequestAnswered`, `StopEnds` and `ProductionEnds`: liveness under
fairness; the prover has no `ENABLED`. Every invariant and every action property that
a run checks, and both refinements, are proved.

## 5. What could come next

What is left to prove is liveness, which waits for a prover with `ENABLED`. What is left to
model is in the next section; of it, the pace of `SendTableData` and the failing start of a
server are the program's own, and the rest belongs to libraries or keeps no state.

## 6. Not modelled, and why

- *Format Ctrldata.* It reads and writes a seed as one block of memory and has no state of
  its own. One thing about it is worth knowing: a file gets the rows that were made
  (`Ctrldata.cc:273`), while a reply of the stream is sent from `Gethead()`, the memory of
  the seed, with as many rows as the seed has (`Ctrldata.cc:318`). The contents of
  replies are in no module.
- *The pace of `SendTableData`.* It goes by the clock; a reply is one step. The
  number of bytes it may send is unsigned and wraps when the clock steps back, so that
  the test for a number below zero never holds.
- *A server that fails to start.* `CServer::Init` returns false with the threads of
  the earlier managers running; the models begin with a server that started.
- *Products of 32 bits in the shares of a batch.* `rowsInBatch * percent` is a `uint32_t`
  (`BaseFuncClass.cc:1860`, and in `UniqueRandomFunc`), which wraps for batches of more than
  some 43 million rows: the models of the two functions do not cut it.
- *Allocations that fail.* `malloc` and `new` give what they are asked for.
- *Columns whose type has no store.* `setNumber` stores the integer types that `RowProduction`
  has; for the others it stores nothing.
- *Threads inside libraries.* The interfaces of one `get` write to one bufferevent, workers
  start and end the XML library, and the singletons of the log and of `Random` are
  made without a lock. What two threads do inside libevent, Xerces or
  an allocation is not this program's code; each production is one step of its
  worker in `StreamServer`.
- *Shuffle of more than 200G.* It writes the list of lines to a file, calls the command
  `shuf` and reads it back; the size is the output of another command.
- *`fileReaderFunc` and `fixFunc`.* The first logs and returns, the second is never created.
- *Program start, options, log, tables of names, conversions of addresses and times to
  wire types, the terminal of the client, the tool `DeEncode`.* Sequential, without state
  that lasts, or pure I/O. The conversions that cut numbers to their types
  (`autoValue::setNumber`) and the texts that refer to tables are in the modules that use
  them.
- *The tests and mocks of `testcase/`.* They were read for what they assert, and are
  no part of the system.
