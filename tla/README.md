# FlowBrake in TLA+

FlowBrake limits, delays, drops and blocks the network traffic of Windows processes. This
directory holds TLA+ models of its core, the TLC configurations that check them, and proofs
that TLAPS checks. Paths below are relative to the repository; line numbers are those of the
commit the models were written from.

## The system

| part | source | state | operations |
|---|---|---|---|
| delay queue | `crates/flowbrake-windows/src/delay_queue.rs` | heap of entries (packet, deadline, sequence), per-flow state (count, tail, in flight), per-process and total usage | `enqueue`, `pop_due`, `finish`, `release_matching`, `default` |
| packet engine | `crates/flowbrake-windows/src/engine.rs` | rules, counters, error, `aborted`, `send_gate`, queue + `draining` + `recv_done`, `stopping`, socket filter | `start`, `stop`, `apply`, `snapshot_and_reset`; the receive and the send thread |
| driver binding | `windivert.rs` | the handle | receive, send, shut down receiving, close |
| rules, rates, fields | `crates/flowbrake-core/src/lib.rs` | rule records, token buckets, rolling average | token bucket, adaptive rate, parsing and formatting of limits and losses |
| port table | `ip_helper.rs` | port to process maps, cache of misses | refresh, lookup |
| parser | `packet.rs` | none | headers to protocol, ports, payload |
| TCP disconnect | `tcp.rs`, `ip_helper.rs` | none | list and close connections |
| UI state | `crates/flowbrake-ui/src/main.rs` | rows, rules by process, rules by name, selection, settings | tick, edits, start and stop, adaptive feedback |
| settings file | `crates/flowbrake-ui/src/settings.rs` | the file | load, save |
| process list, icons, elevation, search, window, translations | the other files | none to speak of | operating system calls and layout |

How they interact. The UI thread alone owns the `NetworkEngine`: it starts and stops it,
sends it rule changes and takes a snapshot on every tick. `start` opens the driver, installs
the connection filter and spawns a receive and a send thread. The receive thread captures a
packet, finds its process in the port table, applies Block, loss and speed limits, and either
queues the packet or sends it at once. The send thread pops what is due and sends it. The
three threads share the rules (read-write locks), the counters and flags (atomics), the queue
(a mutex with a condition variable) and the send gate (a mutex taken before the queue's). The
gate is held while a packet is checked and sent, while one is admitted to the queue, and
while rules change. The connection filter has a mutex of its own.

What is hard: a rule that changes between any two steps of a packet; packets of one flow
that leave by different threads; deadlines rebuilt while a packet is in flight; a send that
fails or panics with the gate held; threads that must notice a failure of the other while
blocked in the driver or asleep on the condition variable; a restart on top of what a
failed run left behind; a filter that outlives its engine; a copy of the port table that is
old when a packet is looked up in it; four copies of each rule and a file; bytes in three
orders. `PROJECT.json` lists these
hazards at their lines with the properties that would catch each.

What makes each part correct:

* delay queue: flows stay in order, delays do not add up, counts and quotas are exact;
* engine: Block is final, flows stay in order end to end, every packet is accounted for,
  failures are reported, stops end, no packet or filter is left behind;
* rates: what passes never exceeds the rate plus the burst, a limit never starves a process;
* port table: a packet is attributed to a process that had its port a moment ago, and after a
  change of rules to the one that has it;
* parser: the ports and the payload of every packet are found, and nothing in others;
* TCP list: what is shown is what the system says, what is closed is what was shown;
* UI state: the rules the user sees are those the engine enforces, and those that are saved;
* settings: what is saved is what is loaded.

## The modules

| module | models |
|---|---|
| `DelayLine` | what a delay queue promises: one line per flow, nothing leaves before it is due |
| `DelayQueue` | `delay_queue.rs`, one action per method |
| `DelayQueue_proof` | its invariants and the refinement of `DelayLine`, proved |
| `Engine` | `engine.rs`: both threads and the UI thread's calls, with the driver handle of `windivert.rs`; instantiates `DelayQueue` for its queue |
| `Engine_proof` | that Block is final, that the engine uses its queue as the queue's specification allows, what stops, failures and restarts leave behind and report, and the connection filter, proved |
| `EnginePackets_proof` | that flows stay in order from capture to sending, that every packet is accounted for once and finished once after it was popped, and the engine's types, proved |
| `Rates` | pure operators: the token bucket, the rolling average, `compute_adaptive_rate` |
| `TokenBucket` | one speed limit under changing rates, `consume_existing_bucket` |
| `TokenBucket_proof` | that a limit lets through what it says, no more and no less, proved |
| `Adaptive` | the bucket, the UI's tick and the adaptive feedback as a loop |
| `Adaptive_proof` | that no rate leaves the range of its limit, proved |
| `IpPacket` | `packet.rs`: from the bytes of a packet to its ports and payload |
| `PortTable` | `ip_helper.rs` and its use in `recv_loop`: the copy of the port table against sockets and rules that change; looks packets up by what `IpPacket` finds |
| `Wire` | what comes from outside: packets put together from their headers, tables of connections as Windows writes them, and that `IpPacket` and `TcpTable` read them as what they are |
| `PortTable_proof` | that attribution is fresh and rules reach it, that every packet is read as what it was made of, and that the TCP list of any IPv4 connections is right and closes the right ones, proved |
| `TcpTable` | the list of TCP connections and disconnecting: `tcp.rs`, the rest of `ip_helper.rs`, `encode_id` and `decode_id` |
| `Settings` | `settings.rs`: the rules as lines of the file |
| `Fields` | the texts of limits and losses in `lib.rs`, both ways |
| `RuleStore` | `main.rs` and the saving in `settings.rs`, callback by callback and step by step: the rules by process, by name, in the rows, in the engine and, by `Settings`, in the file; edits read their fields by `Fields` |
| `RuleStore_proof` | that a running engine enforces the rules of the UI, that they are restored and that a field left as it is shown changes no rule, proved |
| `Sums` | laws of sums over finite sets, proved, for the proofs that count bytes and packets |
| `MCDelayQueue`, `MCEngine`, `MCTokenBucket`, `MCAdaptive`, `MCPortTable`, `MCRuleStore` | small instances for TLC |

### DelayQueue

`heap`, `flows`, `pids`, `usage` and `next_sequence` are the fields of the struct. `in_hand`
holds the entries popped and not yet finished, which in the code are a local variable of the
sender. A `HashMap` is a function with a finite domain, `entry().or_default()` is `FlowOf`
and `UsageOf`, `saturating_sub` is `Room`. `Instant` is a discrete clock, `None` the value
-1, below every instant. `release_matching` is a loop over the entries in sequence order with
a running maximum per flow; the model states its result in closed form (`Rebuilt`,
`RebuiltTail`). `due` and `since` in an entry are history, read by properties only.

### Engine

Each thread has a place in `pc`; a step is what it does between two points at which another
thread can see or change what it uses.

* receive thread: `Receive` / `ReceiveError`, `RecvCheck` (aborted, global Block, parser),
  `RecvFilter` (process Block, loss, speed limits), `RecvAdmit` (takes the gate, reads
  aborted again), `RecvQueue` (queues, or hands on to `SendCheck`), `RecvEnd` (`recv_done`);
* send thread: `SendWake`, `SendTurn` (pop, end or wait, under the lock), `SendCheck`,
  `SendIo`, `SendFinish`, and `SendDiscard` after a panic;
* `fail`, in either thread or within `stop`: `Mark`, `Close`, `Unblock`, `Flush`;
* UI thread: `UpdateRule`, `SetGlobalRule`, `ClearRules` (the part of `apply` under the
  gate), `ApplyRunning`, `ApplySync`; `Start` and `Stop` share `RequestStop`, `Drain`,
  `ShutdownRecv`, `Stopped`, and `Start` goes on with `Open`, `SpawnRecv`; `Snapshot`, `Tell`.

The lock of the queue is the variable `lock` only where it spans steps (from `finish` to the
next pop or wait); every other section under it is one step. Waiting for a mutex is a guard.
Condition-variable notifications are exactly those of the code: `GotoNotifying` wakes the
send thread if it sleeps, and a spurious wake-up is one of the faults.

Abstractions: one direction of traffic (the two differ only in which counters and rule
fields are used); the port table answers a packet's process or none; a speed limit may drop
any packet with a payload, a loss is none, some or all; `fail`'s first three stores are one
step, and so are the two counters of `record_drop`, the reads of `is_running`, and the
lock-by-lock updates of several processes in one `apply`, of which no thread sees a half
because they are behind the gate or, in the receive thread's first checks, only decide a drop
that either value justifies. A snapshot's counters are not modelled as torn. Byte counters
and `ipv6_enabled` are left out.

The driver is external, its handle `io` is that of `windivert.rs`: closed, open, or shut down
for receiving. `ValidHandle` is the check of `is_valid` at the head of every call;
`ShutHandle` is `shutdown_recv`, which fails on a handle that is gone; `RecvPacket` and
`RecvEnds` say when a receive returns a packet or an error, so what was captured before the
shutdown may still be received after it; `SendAnswer` is what `send_result` tells apart: sent,
failed, or fatal, which a handle that is gone always is. A send may also panic.

### TokenBucket and Adaptive

`Rates` has the operations of `TokenBucket`, `RollingAverage` and `compute_adaptive_rate` as
operators on integers; the unit is an instance's choice, and where the code has `f64` a
division rounds down. `max_tokens` is always twice the rate, so it is not kept.

`TokenBucket` is one bucket: `Packet` is `consume_bucket` with the refill, the change of rate
and the charge that belong to it, `SetLimit` what the UI does to the rule meanwhile. A bucket
outlives the rule that made it, as in the receive thread's maps. `since`, `peak` and `changed`
are history.

`Adaptive` closes the loop: `Traffic` is what a process sends in a second and what of it
passes, `Tick` is `tick` with the feedback, the other actions are the user's edits and the
process. The row of the table is a copy of the rule from which the next edit starts (`shown`
is the adjusted rate in it). A batch a second, between two ticks, stands for traffic: a
sender that offers far more than the limit, which the average sees without delay.

### IpPacket and PortTable

`IpPacket` reads sequences of bytes as the code does, checks in the code's order. The walk
over IPv6 extension headers is a function of the number of headers passed; there can be no
more of them than eight bytes each allow.

`PortTable` is the receive thread's side of attribution. `owners` is the system's table:
which processes have a socket at each protocol, port and family; `Change` opens and closes
sockets at any time. `table` is the map of `PortPidMap`; a reading (`ReadTable`) takes one of
the processes at each key, the code that of the last row, and when one of the two calls to
the system fails, as it does when the table grows in between, the map of that protocol and
family is empty. `StartRead` and `StartRevision` are the thread's first reading and the
revision it takes after it, with room for a change of rules between them, as in the code.

A packet goes through `Captured`, which loads the revision and decides whether the copy is
renewed (it is old: `age`, up to `Refresh`, in ticks; or the revision is not the one last
seen); `Reread`, which reads the tables; and `Stored`, which keeps the revision that was loaded
before the reading. Revisions are not counted: `revised` says that the revision has moved
since the thread's copy of it, `newer` that it has since it was loaded. A change of rules is
two steps as well, `Revise` (the revision moves, `engine.rs:526`, `:367`) and `SetRules` (the
rules change, `:529`, `:371`), with `change` between them; an "update" of a process holds the
lock of the rules meanwhile. `Lookup` is `pid_for` with its second look: a port that is missing is
read for once between two refreshes (`unresolved`), and only when some rule needs it. Parsing
reads nothing shared and is one step with the capture; a packet that the global rule blocks is,
for the table, one that cannot be parsed. The time that passes between a reading and the look
at the clock after it is not counted in the age. Fragments other than the first, whose bytes
the code takes for ports (`packet.rs:80`), are not among the packets.

`since`, `unread`, `reads`, `steady` and `due` are history: since when each process had the key
`Watched`, which tables could not be read, and which process has had the key for itself since
the revision moved last, now and when the packet in hand was captured.

One case is outside `CoveredAfterChange`, and its comment says so: the first table
is read before the first revision is (`engine.rs:659`, `:661`), so a revision that moves in
between is never seen as a change, and a port that passed to another process before it may be
looked up in the old table until the next refresh. `Fresh` covers that case: it starts
with the first packet and bounds how long any copy misleads.

### TcpTable

A table is a sequence of bytes: a count and rows. `Connections` reads it with the offsets of
`tcp_connection_row_layout`; the list is a set, since the window sorts it. `Encoded` and
`Decoded` are the text by which the window names a connection, `Closing` the row for
`SetTcpEntry`, `ClosedBy` the button of one connection and `ClosedFor` that of all connections
of a row's processes. An unknown state is kept as its low byte (`StateOf`), as in the code. The
window shows the first 200 connections of a row (`MAX_VISIBLE_CONNECTIONS`) and closes all of
them: the cut is not modelled, so `ListedFor` is the list and not what the window shows of it.
`SystemRow` is external: the layouts of Windows' `MIB_TCPROW_OWNER_PID` and
`MIB_TCP6ROW_OWNER_PID`.

### Wire

`Wire` says what the parser and the list should make of their input, for input of any parts.
`Packet` are the packets that can be: any number of words in an IPv4 header, any chain of
extension headers with any lengths that its 16 bits of payload length allow, a TCP header of
any size (also one whose own field says too little), UDP or another protocol, any ports,
payload and padding. `BytesOf` puts one together, `Told` and `TrueKey` say what should be
found. `TableOf` are the tables of any number of sockets, in a buffer that may be longer or
shorter than its rows; `Truth` is what the list should say of a socket and `Deleting` what
should close it. The sizes of headers and rows are written down from the protocols and the
system's structures (`HeaderSize`, `TransportSize`, `RowSize`), not taken from the code's
operators, so that a wrong offset in the code is a difference between the two. Bytes that no
reader may depend on are all `fill` (or `junk`), which may be any byte.

Neither parser nor list has a state of its own: `MCPortTable` checks them beside `PortTable`,
whose receive thread uses the parser, on the samples `MCPackets` and `MCTables`; the theorems
are about all of them.

### Settings and Fields

A name is a sequence in which each dot and equals sign stands alone, a line the text before
its last equals sign and a value: enough to tell how a line is split into key and value (at
its first equals sign) and a key into name and field (at its last dot). The file is a set of
lines; that the global rule is written first, and a later line of a field counts, is kept in
`later`. `RuleIn` is what `from_contents` makes of it.

`Fields` has the text of a limit as its value in thousandths, and the text of a loss as its
digits around the point. The code's floating point is left out: a limit is below 2^32 and is
multiplied by 8.192, which doubles represent to far more digits than rounding to an integer
looks at, and no rounding comes near a tie. Texts of delays are whole numbers and are not
modelled.

### RuleStore

`rules`, `name_rules`, `rows` and the engine's `rules` are the four places a rule is kept. A
map without an entry is `NoRule`, because no map ever holds a rule that says nothing
(`has_any_rule`). `rows` remembers the processes and rules of the last rebuild, from which
the rows follow: a group's rule is that of its first process that has one. An edit changes
one field of a row's rule, applies the whole rule to the row's processes (`Apply`) and
rebuilds the table; a limit typed in the sidebar is followed by a rebuild when the field is
left. The tick inherits templates and rebuilds the table only when the set of process ids is
another one. A rule has two of its fields, a limit and its box: enough to tell an edited
field from one that was not.

Everything runs on the UI thread, one callback at a time, so a callback that is not finished
keeps the others and the timer out. What it has left to do after its edit is `todo`: a
box, a limit in its row, a loss or a delay renders the table and saves then (`Saves`); a limit in
the sidebar saves first and renders when that is done (`SavesFirst`). An edit and the rebuild
that follows it at once are one step: nothing outside the callback reads what they change but
the engine, whose starts and failures commute with them, and nothing of it lasts over a crash.
The same holds of a save and the rendering behind it. Saving is two steps, as `fs::write` is:
`Empty` truncates the file, `Write` fills it. `Fail` is an error of the first or of the second,
which the code shows in the status line and leaves at that. Callbacks that save and change no rule
are `Persist`; when the window is closed, or Exit is chosen, the program ends after the save
(`Leave`), or it goes on (`Stay`). `Crash` falls between any two steps. A new program starts from the
file as it is then (`NewProgram`), while the processes live on. `kept` is history: what the
file should give back, which is the new state after a save, the old one until then, and nothing
after a save that failed halfway.

A field has the focus (`Focus`) and is left (`LeaveField`), by which it is submitted, whether
its text was changed or not; while it has it, `limit_editing` puts off the timer's refresh. The
limits that are typed are read, and those that are shown are written, by `Fields`, in either
unit. An engine is started or restarted (`Start`, with IPv6 switched, which is saved) with all
rules pushed, and may fail (`Stop`).

Left out are the engine's copy of the global rule, drafts in fields, the selection, the rows'
order and whether a group is expanded, and the settings that are no rules; the two seconds for
which the refresh waits after the last key (the timer may be late at any time); the adjusted rates
pushed by `adjust_pid` and `adjust_global`, which are in `Adaptive`, and which push the rule
as it is, without `runtime_rule`; and the second submission of a field by Enter, which submits
it and takes the focus from it: it is taken for one of the same row, though a row is found by
its index, and the rendering between the two may have moved another row there.

## What the runs check

| run | question | bounds |
|---|---|---|
| `delay_queue` | is every state of the queue sound, whatever is called | 3 kinds of packets in 2 flows, 4 sequence numbers, clock 0..2, delay up to 1, quotas of 3 packets and 4 bytes, 2 and 3 per process: each binds alone |
| `engine_rules` | Block, order and the filter under rule changes | 2 packets of a flow, 2 commands among Block, delay, zero delay, global delay, clear; clock 0..2 |
| `engine_traffic` | accounting over all kinds of packets and drops | parsed, unparsed and loopback packets, 4 process and 3 global rules, a queue of one packet |
| `engine_faults` | the same, and nothing stranded, left unfinished, silent or left over for the next start, with one fault | 2 packets per start, 2 starts, 1 command, 9 kinds of fault |
| `engine_ends` | do stops and failures end, does every queued packet leave | 1 packet, 1 fault, clock 0..1, fair threads |
| `token_bucket` | what a limit passes and drops while it changes | 2 limits and none, packets that fit both bursts and one, clock 0..4: twice the time that fills a bucket |
| `adaptive` | does the adaptive rate settle below the target without cutting a process off | limits of 20 and 40 KiB/s, packets of 1500 bytes, 1 MB/s offered, 3 edits, in units of 100 bytes |
| `adaptive_low` | the same under 10 KiB/s; it does not, see below | 2 edits |
| `rule_store` | do the copies of the rules agree, is a new process given its template, does a new program start with the rules of the last one whenever that ended, does leaving a field change nothing | 2 process ids that are used again, a name, `app.limit`, that ends as a field does, a limit or none, a box, 2 global rules; the engine started, restarted and failing; exits, crashes at any step, saves that fail |
| `rule_overrides` | do the rules of single processes stay out of what is saved; they do not | the same |
| `port_table` | who gets a packet while sockets and rules change; is every packet parsed; is what is listed and closed right | 2 processes, one port, TCP and UDP, a refresh every 2 ticks, readings that may fail; packets: IPv4 with and without options, up to two IPv6 extension headers of five kinds; TCP of three sizes, UDP and another protocol; with and without payload and padding, every prefix of each, and each as the other version; tables of all pairs of 7 sockets, in buffers with more, with all, with a part and with none of the rows |
| `tcp6` | is the list of IPv6 connections right; it is not | the same tables of IPv6 sockets |

Two packets of one flow are the least that can be reordered, one of them queued or in
flight; two commands the least that set a rule and change it while packets wait. Arrivals
stop while a deadline could still lie beyond the clock's bound, so every deadline is
reachable and the bound of the clock hides no wait. Deadlock is not checked in the engine's
runs: an engine that was stopped, with its commands and starts spent, rightly does nothing
more. That nothing waits for ever there is what `engine_ends` shows.

In `port_table` a copy can be fresh, old and just renewed (ages 0, 1, 2); a port can be free,
have one owner or two, and pass from one to the other; a change of rules can fall between any
two steps of a packet, also while the thread starts. The properties that have a `Watched` key
speak of one key, in the run that of TCP; it is a constant without any property of its own, and
nothing in the model treats it otherwise than the others but the history. The theorems
are about any. Two processes are exchanged by symmetry, which is sound because the run
has no liveness property.

`rule_store` also evaluates, as assumptions of `MCRuleStore`, that every file is read back as it
was written, with all rules, for the three names `app`, `app.limit` and `global.box` (names that
begin or end as others and as fields do), and that every loss is read back as it is
shown. One name is enough for the state machine, in which names meet only in the file. Between
two saves that succeed at most one fails, and in the run opening the file fails only while
it is empty (`Opening`, any contents in the theorems): after an edit whose save failed, `Restored`
promises nothing, whatever the file has in it. The limits 0 and 1 are those that are typed; that
every other reads back as it is shown is proved, not checked.

Fairness (`FairSpec`): weak fairness of each thread and of the clock. The threads are
operating system threads, their steps never wait for anything but the gate, the lock, the
driver or the condition variable, and the steps that may fail are not forced: fairness covers
only the steps that use up no budget (`UNCHANGED left`), so nothing has to fail, arrive or be
asked for. A receive returns once the handle is shut down or closed, which is WinDivert's
contract. The mutexes are `std::sync::Mutex`; no run needs strong fairness for them, because
a thread that holds one always gives it up for good.

Fairness of `Adaptive`: the timer fires and a busy process keeps sending. `KeepsPassing` says
nothing of an idle process.

Fairness of `RuleStore`: a callback does its steps to the end (weak, of `Step`); a field that has
the focus is left at some time, upon which the toolkit reports the end of its focus (strong, of
`LeaveField`, because callbacks come between); and the timer does not find a callback or a
field with the focus every time it fires (strong, of `Tick`). Without the second, a user who
never leaves a field keeps new processes without their templates for ever, in the code as in
the model.

### What the code does not do

`rule_overrides`: `README.md:210` and `:224` promise that a rule set for one process alone
lasts for the session and no longer. The group's row shows that rule as its own
(`first_existing_rule`), and an edit starts from what the row shows: ticking a box on the
group makes the whole of it the template of the name, which is saved, and the rule of every
process of the group.

`tcp6`: `README.md:377` says that "IPv6 connections can be listed but not disconnected". The
offsets in `tcp_connection_row_layout` (`ip_helper.rs:209`) put the state of an IPv6 row first
and its address at byte 4; Windows' row begins with the address and has its remote port at 44
and its state at 48, as the other parser of the same table, `parse_tcp6_owner_pid_table`, has
the local port at 20. Each IPv6 connection is listed with a state made of bytes of its
address, a local address that is four bytes off, and its remote scope for its remote port.

`adaptive_low`: `README.md:142` of the repository tells the user to enable Adaptive to "make
the limiter adjust toward the displayed target". A process that downloads at 1 MB/s is put
under an adaptive limit of 10 KiB/s. While the old samples are in the average, every tick
cuts the rate, down to the floor of 5% of the target (512 bytes a second). A bucket holds two
seconds of its rate, about a kilobyte, so a packet of 1500 bytes never fits again; nothing
passes, the average falls below 100 bytes a second, and `compute_adaptive_rate`
(`lib.rs:197`) then returns the rate unchanged for ever. Smaller packets would pass and lift
the rate again; from 15 KiB/s on the burst of the floor holds a full packet, and `adaptive`
shows the same property there.

Not shown by a run, because no text of the repository promises otherwise: a crash within
`fs::write` (`settings.rs:169`), after it has emptied the file, loses all rules and settings,
since there is no temporary file that is renamed; a change of rules while the receive thread
starts may find the old owner of a port for up to a refresh (`engine.rs:659`, `:661`); a field of
a group that is left as it is shown gives the rule of the group's row to all of its processes,
also to those that have another; a process id that is used again keeps the rule of the process
that had it; a process whose name has an equals sign loses its rule at the next start, and the
rule of one named `global` would be read as the global rule; less than half a KiB/s typed in Kb/s
is no limit; the ports of later IPv4 fragments are read from their payload.

## What is proved

For every value of the constants, by TLAPS:

* `Sums`: `SumFunctionOnSet` is a recursive function over the subsets of a set, and no
  induction theorem of the library can be used for it (see below). So each law is proved by a
  smallest counterexample: the proper subsets of a finite set are well-founded, hence a set
  of subsets where the law fails would have a smallest member, and taking one element from
  it gives a smaller one. First the recursion is shown to have a solution and only one;
  then follow the steps that a counter takes: an element more or less (`SumWith`,
  `SumWithout`), one value raised (`SumRaised`), other names for the elements (`SumRenamed`).
* `DelayQueue_proof`: `TypeOK`, `FlowOrder`, `TailExact`, `CountsExact`, `BytesExact`,
  `WithinLimits`, `DelayBounds`, the action property `ReleaseMakesDue`, and
  `ImplementsDelayLine`. The inductive invariant `IInv` adds what the code relies on
  silently: sequence numbers identify entries and are below `next_sequence`, a flow's tail is
  a member's deadline or the one in flight (`TailMembers`, the maximum said without `Max`),
  and a flow remembers no instant beyond now (in flight) or now plus the longest delay
  (tail). Without the last, `DelayBounds` is not inductive, since an enqueue passes the tail
  on. `BytesExact` is inductive with it: a release gives the entries other deadlines, so the
  set that is summed is another one, but its members keep their bytes (`ReleaseBytes`).
* `Engine_proof`, of Block and the queue: `BlockIsFinal` (a thread about to call the driver
  holds the gate and has found its packet allowed, `GateInv`; a rule change needs the gate);
  the lemma `QueueRefined`, that the engine calls its queue only as `DelayQueue!Spec` allows
  (`InboundInv`: what the receive thread holds was captured in the past and no rule
  delays for longer than the limit); and `QueueKept`, the queue's invariants carried over to
  the engine by it.
* `Engine_proof`, of stops: `OnlyStoppingDrains`, `NothingStranded`, `FilterGone`,
  `FilterCurrent` and `FailuresReported`. `FlagInv` relates the flags to the places of the
  threads: a thread within `fail` has aborted the engine, `recv_done` means the receive
  thread is gone for good, a starting engine has a send thread before it has a receive
  thread. `EmptyInv` follows the packets: one at most in the send thread's hand, none left
  when it is gone, and a receive thread that cannot be about to queue, because it took the
  gate after the abort or has ended. `ShowInv` says which of the UI thread's places can be
  reached by an engine that is not running. `FailuresReported` needs all of these, since
  `stop` discards and counts whatever the queue has, and the queue's own `CountsExact`, from
  which that is nothing.
* `EnginePackets_proof`: `SentInOrder`. `OrderInv` numbers the packets by capture: the
  receive thread holds the newest; the numbers rise with the queue's sequence; what is queued
  is newer than what was sent of its flow; and while the receive thread has a packet past the
  queue there is none of its flow in it. The last is what `has_flow` gives, through
  `CountsExact`, and nothing but the receive thread itself could spoil before it sends. That
  a popped packet is the oldest of its flow is the queue's `Order`.
* `EnginePackets_proof`: `FinishedOnce`. What the queue has in flight is what the send thread
  owes it: the packet it has popped and not finished (`SendOwes`), and nothing at any other of
  its places. So a path that left out `finish`, or finished twice, would show at the next one,
  on every way a packet can take, panics and shutdowns included. It follows from `EmptyInv`
  and from `CountsExact` of the queue, by which `in_flight` of the flows counts what is in hand.
* `EnginePackets_proof`: `Accounted` and `TypeOK`. `Accounted` alone is not inductive: a sent
  packet counts only if it was not sent before, so `AccountInv` adds that no packet that
  waits, or is about to be sent, has the number of one that was sent, and that a send thread
  that counts as holding a packet has one. With the numbering of `OrderInv`, each step then
  moves one packet from one term of the sum to another, takes one in, or, when the queue is
  discarded, moves all that wait to `drops`. The bounds in the engine's `TypeOK` follow: no
  counter exceeds what was captured, which is bounded by `MaxArrivals`.
* `Adaptive_proof`: `TypeOK`, which says that an adjusted rate lies between a twentieth of a
  limit and that limit, that the bucket holds no more than its burst and that no more passes
  than was sent. `Chosen` says which limits a rate can come from, `Used` what the bucket and
  the samples hold; the average is a sum over the samples (`Sums`).
* `PortTable_proof`: `TypeOK`, `RetriesBounded`, `Fresh` and `CoveredAfterChange`. For `Fresh`
  the table agrees, at every port that was read, with a moment that is no older than the copy
  (`since <= age`); for `CoveredAfterChange` a process that has been alone at the key since the
  revision moved is in the table, or the key's table could not be read, or the revision is still
  to be seen, and will be, since what is stored was loaded before the tables were read;
  `RetriesBounded` counts the readings by `unresolved`.
* `PortTable_proof`, of `IpPacket`, for every sequence of bytes: `ParsedFits` (what is parsed
  is TCP or UDP, with ports of 16 bits and a payload within the buffer, so `saturating_sub`
  never saturates), `PaddingIgnored` (bytes behind the packet change nothing), `ChainParsed`
  (whatever extension headers come first, the transport header behind them is the one that
  is read) and `WalkEnds` (the model's bound on the steps of the code's loop loses nothing).
  The argument is on the places of the walk: each header is at least eight bytes long, so
  after n steps a walk that has not ended is at byte 40 + 8n or beyond (`Further`). Again a
  smallest number of steps stands for the induction (`SmallestNumber`, `PlacesFit`).
* `PortTable_proof`, of the list of connections over IPv4: `DisconnectRight`, for all tables
  (`TableRead`: the list is what the rows say, for any number of them and any length of the
  buffer; `ClosesRight`: one button closes one connection, the other those of the processes it
  is for, and neither another). They rest on `RowRead`, `RowGivenBack` (`SetTcpEntry` gets
  the row of the connection, byte for byte) and `ClosesNoOther`; these on the conversions being
  inverse to each other (`LongBytes`, `BytesLong`, `PortBytes`), on where six groups of four
  bytes stand in a row (`RowParts`) and on where a row stands in a table (`TableIs`,
  `Division`). The layout of the system's rows (`SystemRow`) is the assumption here; for
  IPv6 the same statement is false, see `tcp6`.
* `PortTable_proof`, of packets: `ParsedRight`, for all packets (`PacketRead`). `Placed` says
  where the bytes of two parts are when one follows the other, and each header is found by it
  (`Header4Is`, `Header6Is`, `HeaderIs`, `TransportIs`). The bytes behind the fixed header of
  IPv6 are a recursion from the last header back; what follows the first i of them is
  the end of the packet from its place on (`EndOfPacket`, by a smallest i for which it is
  not), so the headers are a chain in the sense of `ChainParsed` (`HeadersChain`), and the
  transport header at its end is read whatever stands before it (`TransportRead`). A packet cut
  short keeps the length it says it has (`CutShort`), which is then more than there is.
* `TokenBucket_proof`: `TypeOK`, `WithinRate` and the action property `Generous`. `Saved`
  says that what passed since an instant and what is left in the bucket together stay within
  the limit up to the bucket's last use; the bytes alone are not inductive, since a packet is
  paid from tokens saved earlier. `Owed` says that a quiet time under an unchanged limit is
  in the bucket. Products of rates and times are kept apart from the rest of the arithmetic
  by `Product`, `Monotone` and `Refills`.
* `RuleStore_proof`: `TypeOK` and `EngineFollows`. Inheriting is the same step after an edit
  and on a tick, so `InheritKeeps` is stated for any rules and engine that agree, and
  `ApplyKeeps` uses it for the rules an edit has just changed. `LeftAsShown` joins
  two facts: every limit up to `MaxLimit` reads back as it is shown in both units
  (`LimitsRead`, arithmetic on `Fields`), and a rule applied to processes that have it already
  changes nothing but what the rebuild inherits anyway (`SameApplied`). That losses read
  back is a lemma beside it (`LossesRead`). `Restored` is proved for names that are not empty,
  have no equals sign and are not `global` (`Plain`): no key is split within a name, keys of
  different names or fields differ (`NameKeyUnique`), so each name is read from its own lines
  only (`ContentsReadBack`). `RestoreInv` says the rest: unless the file is
  being written, what is `kept` is what it gives back, and it is the present state unless that is
  still to be saved; `TodoFacts` says what a callback can have left to do.

Assumptions are those of the modules: packet sizes, quotas, delays and bounds are natural
numbers, rules' delays are natural numbers or none, and the packets of a flow are all loopback
traffic or none is (a flow's key holds both addresses). `Packets` and `Tables` are any sets of
what `Wire` puts together (`WireAssumption`), all of it included; for fewer the theorems say
less, and TLC takes the samples.

Only model-checked: everything about liveness (`StopCompletes`, `AbortEnds`, `PacketsLeave`,
`SettlesBelow`, `KeepsPassing`, `NewcomersCovered`), since TLAPS proves neither that nor
anything about ENABLED. Every invariant and every action property that a passing run checks
is also a theorem.

The theorems of the library that do induction take the formula as an operator, which the
provers cannot instantiate. What is left is that an order is well-founded, which is a
statement about sets: every proof here that would be an induction over sets or numbers
picks a smallest counterexample instead.

## Plan

1. done: `DelayLine`, `DelayQueue`, `Engine`, with the proofs above.
2. done: `Rates`, `TokenBucket` with its proofs, `Adaptive`.
3. done: `RuleStore` with its proofs.
4. done: `IpPacket`, `PortTable`, `TcpTable` and `Wire` with their proofs.
5. done: `Settings` and `Fields`, the crash and the restart of the program in `RuleStore`.
6. done: the engine's stops, failures, filter and order, proved; then its accounts and types,
   the queue's byte totals, the adaptive rate, every packet through the parser and every IPv4
   table through the list and back.
7. open, to be modelled: the engine's copy of the global rule in `RuleStore`; the window's own
   settings, which a save while it is maximized forgets; the numbers of the rows and their sums; both
   directions of traffic at once in `Engine`, with the byte counters.

## Not modelled

* Rendering, translations, search and window management: layout and wording, no protocol.
* Process enumeration, icons and elevation: calls of the operating system and caches that no
  rule depends on. That processes come, go and share or reuse names and ids is in `RuleStore`.
* The selection, drafts of loss and delay, expanded groups: state of the window that no rule is
  computed from, except that an edit goes to the row it was made in, which the toolkit decides.
* The loading of the driver and the layouts of its structures; the WinDivert library itself is
  external.
* Build scripts.
