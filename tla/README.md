# TLA+ models of fbkutils

fbkutils is a repository of tools around the performance of Facebook's hosts:

- **bsdacctd** (`bsdacctd/bsdacctd.c`), a daemon that turns the kernel's
  taskstats exit notifications into BSD process accounting records in a file;
- **netesto** (`netesto/`), network experiments on several hosts: a controller
  (`local/netesto.py`) runs scripts whose commands are sent to daemons
  (`remote/netesto.py -s`, the same program), which start shell scripts that
  run netperf and collect statistics; the results come back to the controller
  and are reduced to rows of a csv file, plots and pages;
- **benchpress** (`benchpress/`), a runner of test suites: hooks prepare the
  machine, the suite's binary is run, its output parsed and reported;
- ncrx and netconsd, of which only notes that they have moved are left.

This directory has TLA+ modules of the parts whose behaviour is hard to see in a
test, TLC configurations that check them on small instances, and TLAPS proofs of
some of their properties for all instances. `PROJECT.json` lists components,
runs, the lines each definition models, hazards and theorems. Source paths below
are relative to `src/`.

## Inventory

| Component | State | Operations | Hard because of | Correct when |
|---|---|---|---|---|
| bsdacctd daemon | the file (size, allocated blocks, punched ranges), `acctsz`, the last `fstat()` | start, receive, append, trim, abort | a consumer truncates the file at any moment; `st_blocks` counts blocks and `st_size` bytes; writes cut short; crashes | the records a consumer may still read are never punched, disk usage stays bounded, no space leaks |
| `encode_comp_t()` | fraction, exponent, remainder of a loop | shift, round, carry, pack | rounding at the edge of the field, carries, numbers beyond the format | decoding gives the nearest number of the format |
| netesto link | sockets on either side (`hostDict`, `readList`), buffers, `getDataHostDict`, directories | the remote commands, framing of messages, GET_DATA's file, closing | one single-threaded daemon, several controllers, either side dies at any time, errors that nobody looks at | replies belong to their command, nobody waits for nobody, results are not lost |
| netesto scripts | `forDict`, `forStack`, `forLoopList`, `forCount`, `forDefFlag`, the function being read, variables | one call of `processCmd()` per line, which calls itself for loops and functions | global variables serve the blocks being read and the loops being run, at any depth | the commands carried out are those the block structure says |
| experiments in time | counters of experiment and group, scripts and netperf processes on the hosts, their directories, rows | the functions of `inlib`, `doServer.sh`, `doClient.sh`, GET_DATA, PROCESS_EXP | nothing but WAITs and sleeps keeps controller and scripts in step | a row has the results of all flows, read after they ended |
| experiment rows (`processExp.py`, `processExp()`) | a value and a count per field, `rate`, `dur`, `maxDur` | one reduction per field and line | values that wait for their pair | a row is the reduction of the flows' results |
| `exp.py` | a table (fields, rows, row by number), selections | read, append, select, rows, cols, average, newcol, table, plot | two indexes by column and row that commands change apart; rows changed in place while they are compared | each operation is the function of the table its help text says, and rows keep their numbers |
| arithmetic in scripts and tables | a stack per parenthesis | one character at a time | precedence, parentheses at the end, division | the value of the expression |
| plots and pages | the lists of points, the ends of an axis | sum of the flows' rates, labels; PostScript and HTML | lists of different lengths walked at once; rounding at both ends | a point has its x and y from one row, a sum is the sum at every time, an axis has all its values |
| host scripts | files of an experiment | awk, bc, ss, ping, netstat | output of other programs | - |
| benchpress suite run | hooks, working directory, file system, the test process | before, run, parse, after, report | hooks fail, tests hang or leave children, hooks move the directory others work in, `parse()` is lazy | results are returned only of tests that earned them, with everything cleaned up |
| benchpress parsers | LTP: lines since the last marker | one line at a time | truncated output | cases are those in the output |
| benchpress configuration, command line | registries of classes | - | - | - |

How they interact: netesto's scripts (module `Script`) produce remote commands;
the link (`Netesto`) carries them; the daemon starts scripts that run on
(`Experiment`) after it has answered; GET_DATA brings what they left to the
controller, where PROCESS_EXP reduces it. bsdacctd and its consumers share a
file; benchpress and a test share a working directory and, through a signal,
the test's end.

## Modules

**`AcctFile`** is what the accounting file promises its consumers: records are
appended, the consumer truncates, and the writer may give up data, but never of
the last `Buf - (Blk - 1)` units. **`Bsdacctd`** is the daemon with the file as
the kernel keeps it, by blocks. Each system call that another process may come
between is an action: `Open`, `LoadFamily` and `Register` are the startup in
`main()`, `Recv` one `taskstats_recv()` with its error returns and attribute
lists, `Write`, `TrimCheck`, `Fstat` and `Punch` the body of the main loop and
`trim_acctfile()`; `BadWrite` and `Crash` end the daemon, `Truncate` is the
consumer. `synced`, `crashed` and `torn` are history variables of properties.
A record that is half written is followed by others after a restart, as in the
code, so offsets are in units of which a record has several.

**`CompT`** is `encode_comp_t()` as the loop it is, a turn per action, with the
widths of fraction and exponent as parameters, and the packing into the field.

**`NetestoConn`** has the connections: two ends and the parts (header, body,
piece of a file) in flight, which is the grain at which a reader can be left
waiting or find what it does not expect. **`NetestoDaemon`** is the daemon's
loop: accept, header, body, the command, the answer; GET_DATA's archive, pieces,
and `rm -fR`. **`NetestoController`** is `processCmd()`'s remote part: looking up
or opening the socket, `getDataHostDict`, sending, `rcvMsg()`, `readFile()`, and
what each does at an error. **`Netesto`** composes them and states what must hold
of the conversation. Part ids and `owed` are not in the program; properties use
them to say whose answer is whose and what was given up.

**`Script`** is `processCmd()` as a machine: `stack` is the Python stack (loops and
functions being run, with their positions), and the program's globals have their
names. Its own properties are of those globals: `TypeOK`, `OwnPosition`, `BlocksFixed`.
`Considered` excludes the scripts whose meaning is nowhere said: a function that runs
itself, directly or through others (`Level` orders the functions, each runs those of
lower levels only), a SOURCE of FOR blocks in the middle of a FOR block, blocks closed
in the wrong order; it is a condition on the lines of the library too. **`ScriptMeaning`**
is the reference: it parses the same lines to blocks and gives the commands they mean
by recursion, independent of the machine, and states the properties that compare them.

**`Experiment`** is the system in time. A function of `inlib` is a sequence of
commands (`MServerRR`, `MServerRR_1`), which the controller carries out one by
one; `doServer.sh` and `doClient.sh` are jobs with a phase and the ticks to the
next one (`doServer.sh` sleeps 3 s if it had to start netserver); netperf processes
are flows with the ticks they have left. `Tick` lets time pass when nothing is due. The
link always works here.

**`SuiteRun`** is `Suite.run()`. A hook's `before()` and `after()` are sequences of
operations (create, delete, cd, command, save and return to the working
directory), each of which may raise, as may `run_to_completion()` after the test, and
`parse()`; the finally clause, the timeout, the children that survive `kill()`, and
`parse()` as a list or a generator are as in the code. `turn` is the position in the loop over the hooks, which `after()` goes through in
reverse, `pc` the one in the hook's operations. Paths are sequences of names, relative to the working directory at the
time, as in the code.

Six modules are about what netesto and benchpress make of what they read. **`Cells`**
has the cells of the tables: a text that `float()` takes is a number and keeps how it
was written, because `10` and `10.0` are one number and two texts to the code.
**`Arithmetic`** is the two evaluators, `mathIntegerExpression0()` of SET_EXP and
`mathRowExpression0()` of NewCol, as the machines they are: `frames` are the
recursive calls, and the stack of the sum is in the frame. Its reference, `Meaning`,
is the value by the usual precedence. **`RowReduction`** is `processExp()` of
`netesto.py`, which joins the results of an experiment, and the loop of
`processExp.py` over their lines with one operation per field. **`Rates`** is
`processFile()` and `addGraphs()` of `plotNetperfRates.py`, which walks two lists of
points at once. **`Axis`** is `GetInc()` and `GetAxis()` of `psPlot.py`, **`LtpParser`**
the parser of LTP's output, the only one of benchpress with state. **`MCReaders`**
puts them under one run: an input grows by a token, and each reader's result for it
is compared with its reference.

**`ExpTable`** is the table that the help texts of `exp.py` describe: rows are a
function from numbers, a selection is a sequence of numbers, and every command is one
function of the table. **`Exp`** is the program: `Rows`, `fieldList` and the two
dictionaries `fieldDict` and `iterDict` with which commands find a cell, `ReadRowList`,
`SelectedRowList` and the selected columns, and an action per command with the
exceptions that end the session. **`ExpPlot`** has `doPlot()` and `doPlotSeries()`, which
take the selected rows apart to lists, and of `PlotData()` of `psPlot.py` what it draws of two lists. `ImplementsTable` is the refinement: `Tabled`
reads the rows through both dictionaries, as the code does. Where the code is known to
come apart from its help texts `doubt` becomes true in both, and nothing is promised
afterwards (see the assumptions). `cmd` names the last command in both, so that each step
of the program is held against the promise of its own command and no other: of `doTable`
that the page has the selected rows and columns, in order; of `doplot` that the table and
the selection stay as they are (what it draws is the matter of `PlotPairs`).

The proofs are in modules of their own, `BsdacctdProofs`, `CompTProofs`, `NetestoProofs`,
`SuiteRunProofs`, `ScriptProofs`, `ExperimentProofs`, `ExpProofs` and `AxisProofs`.

Each `MC...` module gives the constants values for TLC. Definitions called mutants in
the modules are plausible bugs of the definitions they precede; put in their place
they make the property they belong to fail.

## Runs

Passing runs:

| Run | Bounds | Shows |
|---|---|---|
| `bsdacctd` | record 2 units, block 2 records, buffer 2 blocks, file up to 5 buffers (`MaxSize`) | the invariants below under truncations, short writes and crashes anywhere; `ImplementsLog`: refinement of `AcctFile` |
| `netesto` | 2 controllers, one of them with `-n`, 2 commands each (`MaxCmds`) of DO_SERVER, GET_DATA, SET_QDISC, CLOSE and EXIT, a daemon, 2 connections (`Slots`), a file in 2 pieces, 2 parts in a connection (`Window`) | `IdleQuiet`, `AnswersOwn`, `NeverBothWait`, `Retained` with either side stopped and started anywhere |
| `netesto_answered` | 3 controllers: a listed one, a listed one with `-n` and one that is not listed, with GET_DATA, SET_SYSCTL (with and without a parameter) and EXIT, twice for the first and once for the others (`OthersOnce`); 2 connections, a file in 2 pieces and one part in a connection, so that the daemon blocks in `sendFile()` | `Answered`, under fairness |
| `compt` | 4-bit fraction, 2-bit exponents, every count up to 4500, above the largest number of the format | rounding, packing, leading digit |
| `script` | every script of up to 6 lines of 13 kinds, and of up to 8 lines of 7 kinds (`MaxLines`); a library with a function that has a block in it; 12 FORLOOPs (`ForloopMax`) | `Faithful`: at the prompt the machine has done what the reference says; `OwnPosition`, `BlocksFixed`; `Returns` under fairness |
| `experiment` | MServerRR twice, 2 servers, one of which is the client, 2 netperf processes per flow, transfers of 2 s, half-second ticks | rows are complete and read after the transfers, nothing works in a removed directory, ports differ |
| `exp` | sessions of up to 4 commands (`MaxCommands`) on 4 files of up to 3 rows: numbers written in two ways, missing values, other columns, numbers with points, a text with a parenthesis; 7 selections, 3 averages, 4 new columns, 7 plots: axes of numbers and of texts, with and without `Y1div` and `Y2div`, a second y2 field, series named and found, commands without x or y2 | `ImplementsTable`: refinement of `ExpTable`, pages included; `RowsFound`: the dictionaries lead to the rows; `PlotPairs` |
| `readers` | all inputs of up to 5 tokens (4 for rows): 8 tokens of integers, 9 of cells, 14 groups of lines, 3 flows with intervals of 3 kinds, 8 groups of LTP lines, values up to 1100 in quarters and hundredths | `IntegersAsMeant`, `CellsAsMeant`, `RowsAsMeant`, `SumsRates`, `ReportsEnded`, `AxisFits` |
| `suiterun` | 6 lists of up to 3 hooks in each other's directories, with every combination of return code check, timeout, `timeout_is_pass` and lazy parse | `ReturnsClean`, `ReturnsEarned`; `Ends` under fairness |

Why the bounds are enough: five buffers are more than two trims between
truncations; with two commands per controller every reply can be mistaken for
the next one's, and two connections, a window of two parts and two pieces make
the daemon block in the middle of a file while another controller wants it. A second
command of one controller meets what the first left in `hostDict` when the daemon was
stopped or told to exit in between; that the other two issue one each cuts off no
behaviour that fairness asks for, as nothing is fair about issuing commands. A
script of six lines has blocks in functions in blocks, and one of eight a loop that
runs a function with a loop in a loop; a second repetition is what counters that
are reset (groups) or remembered (`getDataHostDict`, netperf processes of the
experiment before) need. Four commands of `exp.py` change the table, narrow it,
change it again and show it; five tokens are an operator inside and one outside of
parentheses, two results and a mark between them, or two flows that overlap a third.

Runs that find the code to disagree with its documents (each is a finding in
`PROJECT.json`):

- `compt_stores`: a count that rounds to the fraction `1 << mantsize` overflows into
  the exponent: 8192 is stored as exponent 1, fraction 0, and reads as 0.
- `experiment_shortwait`: `MServerRR_1` fetches the clients' directories 10 s after
  the transfers, `doClient.sh` writes its results 12 s after them.
- `suiterun_details`: a `parse()` that is a generator reads the test's files after
  the working directory was changed back, and finds no details.

Smaller things seen on the way and described under hazards or in comments: the
tail bsdacctd keeps is up to a block less than the buffer its comment promises
(hence `Keep` in `TailIntact`), and its estimate may be below the usage after an
unaligned punch (hence the two buffers in `EstimateClose`); `DO_SERVER start=1` is
answered before netserver runs; a GET_DATA whose connection fails marks its host as
fetched all the same, and the next one for it is skipped; GET_DATA removes what was written after the
archive was made; hooks whose `before()` has run are not undone when a later
`before()` raises, and when an `after()` raises those of the hooks before it are not
called, so that the cd of a ShellHook is not reverted; the docstring of GenericSuite
promises PASSED, FAILED or TIMEOUT (`benchpress/benchpress/suites/generic.py:19`) where
its expression takes PASS or FAIL (`generic.py:27`); `exp.py`'s `[hasnot]^` drops the same
rows as `[has]^`; `*` in a NewCol is a NameError (`statck`); a text among the numbers that
a select sorts by is an exception (`Sortable`). Of plots, all in the
run `exp`: `doPlot()` divides the second axis by `Y1div` where a plot has a `Y2div`
(`netesto/local/exp/exp.py:1523`), which the help text describes as its own
(`exp.py:828`); the x of an axis of texts are collected before rows without a number
are taken out (`exp.py:1481`), so that points are drawn with the text of another row
(`Shifted`); and the escaped names of series that were found replace the values
themselves (`exp.py:1867-1873`), so that the series of a text with a parenthesis is
empty. `PlotPairs` leaves out these three and nothing else.

## Assumptions about the environment, and fairness

- `Netesto!FairSpec`: a controller that can read does (WF), a daemon in the middle
  of a command goes on (WF), and it comes to each socket that stays ready (SF): the
  loop is `for sock in readyRead`, which visits every socket that `select()`
  reported before it calls `select()` again, although each visit disables the
  others' actions for its time. Nothing is fair about stopping, starting and
  issuing commands. `Answered` is for controllers in clients.txt: the others, which
  take part in its run, are neither answered nor closed until another client connects.
- `Answered` has two exceptions, in which the daemon waits for one controller for ever
  and serves no other: a file that a controller with `-n` has asked for and does not
  read, once the connection is full (`LeftUnread`), and a SET_SYSCTL without a known
  parameter, which announces a body that it does not send (`HeaderOnly`). What it says
  is that a command ends unless and until the daemon is in one of the two; both are reached
  in its run, and without either exception it fails.
- The run `netesto` has `Bare = FALSE`, so no such SET_SYSCTL; both netesto runs have
  `Patient = TRUE`: scripts have written their results when GET_DATA archives them
  (which `RowComplete` and `NoOrphan` are about).
- `Experiment`: getStaticStats takes up to a second (`StatsMax`), reading the results
  up to half a second (`ProcessMax`), netperf ends up to 1.5 s late (`NetLag`), and
  netserver runs on the servers already (`Running`). `MServerRR` leaves 3 s between
  the end of the clients' sleep and the fetch, of which two getStaticStats and the
  reading must not use more than 2.5. Ticks are half seconds; events shorter than a
  tick are instantaneous or take one.
- `Script`: `WF(Execute)`, the interpreter runs; lines may stop coming.
- `SuiteRun`: `WF(Benchpress)`; a test may run and write for ever, so `Ends` is claimed
  only of suites with a timeout.
- Numbers of tables, rates and axes are exact fractions: what Python's floats round
  is left out, and so are the digits with which numbers are printed. The csv files of
  `Exp` have formats in their headers (`formatFlag`), without which an average is cut to
  a few digits. A file has different names in its header and rows of its length, a
  number occurs once in it, and the numbers' column is one of the first three, which
  `doAverage()` takes for names (`ResultsFile` in `ExpAssumption`): so `processExp.py`
  writes them.
- `ExpTable` stops promising after: files with other columns than the table (`Mixed`);
  a select with `[hasnot]^`, which the code treats as `[has]^` (`Inverted`);
  `select=all` or `rows=all` when an average took rows away that were read (`Lost`); a
  new column when rows were appended (`Added`); an average of a list that names a row
  twice (`Listed`), or by a column whose values are written in two ways (`Alike`).
  `NewCol` promises the value of expressions without `*` and `&` that do not end with a
  parenthesis (`Supported`), as does `CellsAsMeant`.
- `IntegersAsMeant` leaves out quotients after a minus sign, which Python 2 rounds the
  other way than the quotient without it; `RowsAsMeant` is for files of which each rate
  follows its dur, whose only value with a suffix is the first of its field, and whose
  lists have no value at the end of an earlier one (`Good`); `SumsRates` for flows each of
  which overlaps with those before it (`Overlapping`); `AxisFits` for axes that are not
  drawn with logarithms (`Linear`).
- `CompT`, `Exp`, `Experiment`, `MCReaders`, `Script` and `SuiteRun` stop at their end or bound, so their
  configurations turn the deadlock check off; the others check it.

## Proofs

`BsdacctdProofs` proves for all lengths of records, blocks and buffer with
`BsdacctdAssumption` (blocks are whole records and buffers whole blocks, as in the
code's constants): `TypeCorrect`, `TailNeverPunched`, `LatePunchHarmless` and
`Refinement`. The inductive invariant is `IInv`: types, `TailIntact`, `BlocksInFile`
(no block is allocated beyond the end of the file) and `StatInv` (between `fstat()`
and `fallocate()`: the daemon saw at least two buffers of blocks, less than a block
more than the size it saw, and the file has still that size or was truncated).
`BlocksInFile` is what bounds `st_blocks` by `st_size` (`UsageBound`), which with
`StatInv` puts the end of the hole at least `Keep` before the end of the file
(`PunchStopsEarly`); `TailIntact` alone is not inductive as it says nothing of the
hole about to be made. The proof of the step (`StepInv`) has a case per action, of
which most change nothing in the file (`QuietSteps`). `LatePunchHarmless` and
`Refinement` follow from the same invariant.

Its second part proves what trimming does to the file, from `TInv`. It adds to `IInv`
and to `OnePiece`, `NoLeak` and `WholeRecords` three conjuncts. `Pending`: the `st_blocks`
of a punch that is pending are still those of the file unless it was truncated. `Estimated`
and `Counted` are about `acctsz`, and are stated with `Extent(n)`, the distance from the
first allocated block's start to the end of the file: a record adds as much to it as to
`acctsz`, while the usage itself grows by whole blocks when `acctsz` cannot see it, so that
`EstimateClose` and `DiskBound`, which are of the usage, are not inductive. `Counted`
bounds the extent by two buffers and a block as long as no restart has made `acctsz` start
anew. `LeavesOnePiece`, `LeaksNoBlock`, `KeepsWholeRecords`, `EstimateStaysClose`,
`DiskUsageBounded` and the action property `EveryTrimFrees` follow.

`CompTProofs` proves `EncodesNearest` for all widths and inputs: the invariant adds
that the value is the input cut to its unit and the remembered bit is the leading
digit of what was cut (`CutDigit`, `RoundUp` are the arithmetic). `KeepsLeadingDigit`
is from the same with `LeadingDigit` of every turn, and `PacksFieldsApart` is about `Pack` and
its reader: whenever the fraction is below `1 << mantsize` and the exponent fits, both
are found again. The run `compt_stores` shows that the first does not always hold.
`DecodesRounded` needs that the unit of the loop is `Power[exp]`, the power that the reader
multiplies with (`UnitIsPower`).

Where a function is recursive or a fold over a list, the proofs show by induction that
there is a function with its equations, and so that the one chosen has them (`PowerDef`,
`IteratesTurns`). Induction is from the well-foundedness of `<`: a set of numbers that is
not empty has a least element (`LeastNumber`), so that a set with 0 and each number's
successor has them all (`EveryNumber`).

`NetestoProofs` proves `LinkTypes`, `QuietBetweenCommands`, `AnswersAreOwn` and `OneCanGoOn`
for any controllers, hosts, commands, window and file, with `~Bare` as a hypothesis. The
invariant `IInv` is `Typed` (types, bounds of windows), `Links` (`hostDict` and the
connections point at each other, who waits has a socket, a daemon serves a connection of
its own) and `Talks`: on each connection there is one conversation, in a state that the
controller's and the daemon's program counters both allow (`Requests`, `Replies`, `Answers`).
There is at most a request or what is left of it, or its answer, and while a file is sent
the pieces in flight with those still to be sent are as many as the controller has still
to read, or fewer if the daemon is gone (`AddsUp`). Each of the four theorems needs all of
it: that a reply is of one's own command depends on nothing being left of the one before.
With `Bare` it is false: the daemon waits for a body that is never sent.
`ResultsRetained` adds `Kept` to it, with `Patient` as another hypothesis:
the daemon removes the directory before its controller has read the archive, and from then
until it has, the results exist only as pieces on that connection (`OnWire`), and `Talks`
has to say that they are all still there.

`SuiteRunProofs` proves `ResultsEarned` for any suites and hooks: by `Decided`, `run()` decides
to return only when the test has ended in a way that earns it, and no end or timeout that
comes later changes what was decided on, through the finally clause in between.
`ReturnsLeaveNothing` proves `ReturnsClean` for any suites, hooks and directories, with
`OutApart` as a hypothesis: the name of the file that the test writes is in no path of a
hook and of no directory there is. Without it a killed test's children could write a
hook's file again when it has been deleted. The invariant `CInv` says that there is a
trail `w` of working directories, `w[k]` the one that hook k's `before()` was called in
(`Trail`). Going forward (`Begun`) each hook so far keeps its directory or has saved it
(`Left`), and each path created is a hook's option below `w[k]` (`Made`); going back
(`Undone`) each `after()` is called in `w[k + 1]` and ends in `w[k]`, so that a FileHook
deletes under the directory it created under, and what is left is of hooks whose turn has
not come. This is where the reverse order is needed. The trail is not in the program; TLC
evaluated `CInv` in the states of the run `suiterun`, with trails of the directories there.

`ScriptProofs` proves `GlobalsAgree`, `PositionsOwn` and `BlocksStay` for any lines, library,
variables and functions. They say that sharing `forDict`, `forStack` and `forCount` between
loops that are run and blocks that are read does no harm, and the reason is an order: each
block has an owner, the function it was read in; a stored FORLOOP names a later block of
its owner, a stored RUN a function of a lower level. So the loops in progress increase in
the order `Inner` and none occurs twice (`ActDistinct`), which `OwnPosition` needs; and
blocks being read are not in `forLoopList`, which `BlocksFixed` needs. `IInv` says that
such owners exist; it has the dictionaries' lines (`Dicts`), the functions' (`Bodies`), the
calls in progress (`Frames`: a function is of a lower level than the owners of all loops it
is called in), and that blocks are read only when nothing but files is being called
(`Blocks`). The owners are not in the program; TLC evaluated `IInv` in all states of
the run `script`. The proof fails without the order of functions: a function that runs itself
in a loop runs that loop's dictionary twice.

`ExperimentProofs` proves the four properties of experiments for `MServerRR` with any
servers, clients, requests, flows and repetitions. The hypothesis is `Timely`: it is given
servers that run netserver and at most 32 processes per flow, and what statistics,
reading, netperf's end and the start of the clients may take is less than the WAITs and
the sleeps of the scripts leave (TLC evaluates it for both experiment runs). The lines of the function are
`DoServers`, `DoClients`, WAIT and so on one after the other, and `ToGet` and `ToStats`
count, from a line and what is left to wait, the ticks until the controller asks for the
directories and for the last statistics. The invariant `InTime` is `CtlOK` (which
experiment and group it is at each line) and `ScriptsOK`: each script of a host is
so far on its way that it ends before it is asked for, each transfer ends before the
statistics that come after it, and no two processes of an experiment have one group and
instance. `StatisticsAfterTransfers` and `PortsNeverShared` follow from it. `DataOK` adds
where the results are: those of each group are still being made, on a host that was not
asked yet, or fetched (`Accounted`), all of them complete and of this experiment
(`HaveResults`), and `getDataHostDict` names the hosts whose lines have been done (`Asked`).
`RowsComplete` and `NoScriptOrphaned` are two of its conjuncts; neither is inductive without
`InTime`, as a directory may be removed only when no script is at work in it. For
`MServerRR_1`, which does not leave that time, see the run `experiment_shortwait`.

`ExpProofs` proves `IndexesLeadBack` for any files with `ExpAssumption` and any commands. The
invariant is `Consistent`, as long as nothing is doubted: the columns and `fieldDict` are inverse to each
other (`FieldsOK`), the rows are as wide as there are columns and `iterDict` is inverse to
their numbers (`RowsOK`), and selected numbers are in it. Most of the proof is about
the loops, which are folds (`Step`): `doAverage()` changes rows in place while it collects
references to them, and the invariant of its loop (`Averaging`) is that the rows collected
are different rows of the table and that a row has kept its length and its number
whatever was added to it. For this the numbers' column has to be one of the first three.
`appendCsvFile()` gives numbers above all there are (`NumbersBeyond`), `doNewCol1()` reaches
all rows because those of the table are among those read (`~Added`), and `InOrder` is a sorted
sequence of the numbers chosen, which exists for any fractions (`OrderExists`). TLC
evaluated `IInv` in the states of the run `exp`.

`PointsFromRows` proves `PlotPairs` for any files, commands and plots: the points of each
series and field are exactly those of the selected rows that are to be in it. It is needed
in every state, those of a session that has come to be doubted too, so it
does not rest on `Consistent` but on `Lists`: the lists of numbers read and selected are
lists of rows whatever an average left of them (`AverageLists`). `doPlot()` takes the rows
with an x and with numbers, or nothing, to be drawn (`UsableRows`; the filters keep exactly
these rows, in their order, `ThoseRows`), makes a list of each column, and draws two lists
entry by entry. Lists made of the same rows are in step (`BarsOfRows`, `PointsOfRows`), so
that the points are those of the rows; an axis of texts has the list made before, which is
the same if no row was taken out (`ListsOfRows`). The rows of a series are those with its
value (`RowsInSeries`), the values found are all different and all there are
(`DistinctValues`), so each row is in a series unless its text was escaped.

`AxisProofs` proves in `ValuesOnAxis` what `AxisFits` says for all values that the powers
of ten in `Tens` are enough for: not negative, the largest at most 999999, and 0 or above
1/10000. A value is known by any fraction that it equals (`Is`), which `Ratio` keeps as
`Gcd` ends and is a common divisor (from the same induction as above). The scaled values lie
between the integers they are cut to (`CutIs`); after the division by `f` at most 101
units are left between the ends (`UnitIs`; the hundred-and-first is the one that is added
when the largest value is itself a label and the smallest is none); and `Reach` is the
arithmetic of the distances 1, 2, 5 and 10: eleven of them from the start of the axis
lead at least a unit beyond the end, or to it if it is the unit that was added.

Only checked by TLC:

- everything with fairness (`Answered`, `Returns`, `Ends`), which is out of the prover's reach;
- `Faithful`, whose reference is a RECURSIVE operator over the blocks of a script, of which
  the prover takes none;
- the properties of the run `readers` other than `AxisFits`: they compare folds over lists
  with references that select and sort with operators the prover knows no definition of
  (`SelectSeq`, `SetToSortSeq`), or, of expressions, with the value of a parse tree, which
  needs an induction over it;
- `ImplementsTable`, whose abstract side selects with `SelectSeq` and whose averages
  compare reduced fractions with sums in another order.

## Not modelled

- bsdacctd: the bytes of netlink messages and the fields copied unchanged.
- netesto link: partial sends, DO_TCPDUMP, SET_NETEM and SET_MODULE_PARAMS (of the
  shape of SET_QDISC), the effects of settings on hosts, replies with value 0.
- scripts: comments, continued lines, ranges, ECHO, DESC and others that touch none of
  the state above.
- experiments: DO_TCPDUMP, preServer and preClient, what statistics contain; the other
  functions of the `inlib` files, which have the shape of `MServerRR`.
- variables: `varNameDict` and the substitution of variables and arguments, which are
  operations on strings; the counter file (see the plan).
- rows: `--desc`, `--other`, the digits of numbers; `all.exp.out` is counted again as a
  file when an experiment is processed twice.
- `exp.py`: the web mode with its forms and sort, macros, `doNewCol()`, `source`, saved
  settings; titles, units, percentages and ratios of plots; colours and page layout.
- plots: logarithmic and uniform axes, everything drawn; the scale of transaction rates
  in `plotNetperfRates.py`; `plotMonitor.py`, which draws one list of samples as bars and
  keeps nothing between them.
- benchpress: the parsers of generic, packetdrill and xfstests, which match an expression
  per line or list.
- benchpress: CpuLimit, what tee_output writes, absolute paths;
  configuration and command line, which keep no state.
- pages, host scripts: layout, or output of programs that are not here.

## Plan

Done so far, in this order: bsdacctd, comp_t, the netesto link, scripts, experiments,
suite runs with their runs; the proofs of bsdacctd and comp_t; expressions, rows,
tables and plots, the LTP parser; the proofs of trimming, the link, suite runs,
scripts, experiments, the table's indexes, plots and axes. What is left:

1. *Counter*: the counter file shared by two controllers, `nextCounter()` and DO_SERVER's
   `exp=COUNTER`, with the directories of the hosts that two experiments of one number
   would share.
2. *Composition*: an abstract specification of an experiment as the user sees it (started,
   measured, collected, in the table), which `Experiment` with `RowReduction` implements.
3. *benchpress*: CpuLimit, which changes the arguments of the suite for good.
4. *Proofs*: `Tabled` of `Exp` command by command, for the commands that do not average.
