# A TLA+ verification of dns-wrapper

dns-wrapper is a small DNS forwarder with rules: a query of a client on the
local network is either resolved by the configured upstream servers or answered
with a fixed address, depending on the client's IP and hardware address. The
daemon takes its rules from a shared memory segment that command line processes
of the same program edit while it runs.

Source paths below are relative to `src/` of the repository's checkout
(`src/src/dns/server.cpp` in `PROJECT.json` is `src/dns/server.cpp` here).

## 1. Inventory

| component | source | state | operations |
|---|---|---|---|
| forwarder | `src/dns/server.cpp` | upstream servers, sockets, the pool | the receive handlers of the sockets, `processRequest`, `resolve`, `processUpstreamResponse`, `sendPacket` |
| pool of outstanding queries | `src/bookkeeping/peer.cpp` | list of records, free list of source nodes | `GetNewRecord`, `GetNewId`, `GetNewPeerSource`, `Lookup`, `LookupByQuery`, `FreePeerRequestRecord`, `HasTimedOut` |
| rule engine | `src/rule/shm.cpp` | a byte array with packed rules, their number, the policy, a mutex | under the mutex: append, insert, delete, clear, set policy, `Evaluate`; without it: `operator<<` (list, save); `operator>>` (load) |
| hardware address mappings | `src/bookkeeping/ethmappings.cpp`, `src/net/packet.cpp` | an array of records (MAC, IP, time) | `Add`, `LookUp`; `InPacket::Read` of a frame of the raw socket, and the filter behind it |
| service lifecycle | `app/main.cpp`, `src/daemon.cpp`, `src/unix/unixdaemon.cpp` | the execution lock, the segment's name, pid file | start, refuse, load the rule file, fork, run, stop, `unlock` |
| rules commands and rule files | `src/rule/parse.cpp` | a rule file; none in memory | `RuleParser::Parse`: `rules add / delete / clear / list / save / load / policy`, a process each |
| DNS packets | `src/dns/dns*.cpp` | a parsed packet | read, validate, write, set fields |
| configuration, command line | `src/config.cpp`, `src/args.cpp` | values read once at start | |
| Windows service, logging, utilities, third party | `src/win32`, `src/log.cpp`, `src/util.cpp`, `src/tp`, `src/unix/unixif.cpp` | | |

How they interact. One thread of the daemon runs an `io_context`; every handler
runs to its end before the next one, so what can interleave is the order of
datagrams on four UDP sockets and one raw socket, the wall clock, and other
processes. A client's datagram and the Ethernet frame that carried it arrive
separately: the frame teaches the mapping table, the datagram is matched with
`Evaluate`, in the daemon's process, against a table other processes write.
The processes meet in two names that outlive them, the execution lock and the
segment.

What is hard, and why a test would hardly reach it, is the list `hazards` of
`PROJECT.json`; the main ones:

* answers that come late, twice, out of order or to a query that was evicted,
  with ids drawn again (forwarder, pool);
* the pool at its limit, with a clock that may be set back;
* repeats of a query, by the same client or another, while it is outstanding;
* the byte arithmetic of insertions and deletions in a table that holds stale
  bytes and fills up (rule engine);
* two commands and the daemon at one mutex, listings that take none, a command
  that is killed inside, a load or a save that stops halfway;
* the order of a frame and its datagram, frames with tags, options or cut ends, and mappings that outlive their truth;
* two starts of the service at once, crashes, and what they leave behind;
* positions in a datagram: compressed names, datagrams that are cut short or
  damaged, octets an earlier datagram left in the buffer, arrays that are written
  without looking at their end (DNS packets).

What makes the components correct: an answer reaches exactly the clients that
wait for it (forwarder, pool); a command does to the packed table what it does
to a list, and changes only the verdicts it should (rule engine); commands of
several processes happen as if one after the other, a save can be loaded, and
everyone gets the mutex in the end (rules commands); a client is never taken for
another machine, and its queries are learnt from (mappings); one process owns the service, an
orderly end never blocks the next start, and rules commands reach the daemon
(lifecycle); what is sent on is what came, nothing is written behind an array, and
reading ends near the end of the datagram whatever is in it (DNS packets). Where
the code does not keep this, a run shows it (section 3) or the property says
exactly where.

## 2. Modules

| module | models | kind |
|---|---|---|
| `PeerRequests` | the pool, as operators on its value | operators |
| `DnsServer` | the forwarder's handlers on the pool | state machine |
| `QueryBroker` | what the forwarder promises its clients | abstract specification |
| `DnsServerProofs` | theorems about `DnsServer` | proofs |
| `DnsSystem` | clients, network, forwarder, servers together | composition |
| `DnsSystemProofs` | a theorem about it | proofs |
| `RuleTable` | the packed rule table and `Evaluate` | state machine |
| `RuleList` | what the table promises: a list | abstract specification |
| `RuleTableProofs` | theorems about `RuleTable`, with the refinement of `RuleList` | proofs |
| `RuleCommands` | the processes around the table: parser, mutex, rule file, daemon | state machine, shown to implement `RuleList` |
| `RuleCommandsProofs` | theorems about it | proofs |
| `EthMappings` | the mapping table, as operators | operators |
| `Frames` | a frame of the raw socket: `Read` and the filter | operators |
| `MacRules` | the two sockets, the mapping table, the verdict | state machine |
| `MacRulesProofs` | theorems about it | proofs |
| `ServiceLifecycle` | processes, lock, segment | state machine |
| `ServiceLifecycleProofs` | theorems about it | proofs |
| `DnsMessage` | DNS messages and their octets, as peers send them (external) | operators |
| `DnsPacket` | a datagram's way through reading, validation and writing | state machine |
| `DnsPacketProofs` | theorems about it | proofs |
| `NatFacts` | lemmas: least and greatest numbers, induction, functions defined by recursion | proofs |
| `MCDnsServer`, `MCDnsSystem`, `MCRuleTable`, `MCRuleCommands`, `MCMacRules`, `MCService`, `MCDnsPacket` | instances for TLC | |

Definitions keep the names of the functions they model; `map` in `PROJECT.json`
gives the lines of each. An operator introduced as a *mutant* is the definition
below it with a plausible mistake; it is used only to see that a property
notices the mistake.

### DnsServer and PeerRequests

A handler is one action. `resolve` is the disjunction of its outcomes: no
server, a repeat (refused or ignored), a client that joins an outstanding query, a timed out record that is taken again, a new record, a
refusal. `processUpstreamResponse` either finds its record or does not. Any
datagram may arrive at any time, so duplication, loss and reordering need no
extra actions. The clock is a set of readings and moves freely between them, as
`time()` does when the clock is set. `Stop` and `Start` restart the process with
an empty pool.

The pool is a sequence in order of allocation; the code's list is the same
sequence from its end. A record has one source: a second one comes from
`GetNewPeerSource`, where `sources = std::move(sources->next)` (`peer.cpp:166`)
destroys the node that was just taken, which is then written to, linked and owned by
the record. The language defines nothing from there on, so `ResolveJoin` sets
`undefined`, after which the process sends any client anything (`Undefined`) or ends;
what its memory may look like is not modelled. `HasTimedOut` compares the absolute
time of a record with `TIMEOUT`, and is modelled so: a client joins only a record of
the first seconds of the clock. A question's
SHA-256 digest is the question; `flags` is always 0 and the statistics are
never read, so both are left out.

`waiting` is a history variable: the queries taken for resolution and not
answered since. It is what "the client is waiting" means to the properties.

### DnsSystem

The steps are those of `DnsServer`; datagrams the forwarder receives are taken
from a bag in transit, and what it sends enters the bag. Clients send a query
and repeat it, servers answer each query they get, the network reorders and
loses up to `MAX_LOSS` datagrams. Clients, servers and network are external.

### RuleTable and RuleList

A cell is a run of bytes that the code copies and compares as a whole. A rule is
a header of two cells (type, action) with an address, a hardware address and a
target as far as type and action call for them; four sizes result. Every
command holds the interprocess mutex, so it is one step. `data` has one cell
more than the array: what lies behind it. Reading walks the cells with
`nextRule`, also when they are corrupt, as the code does.

`insertRules` moves the rules behind the insertion point with a loop that is off
by one at both ends: the first cell (the type of the next rule) stays where it
was, and one cell too many is written, behind the array when the insertion fills
it. Every insertion the code accepts is in the model. Two history variables say
what it did: `spoilt`, that the type left behind (`TypeLeftBehind`) made another
rule of the next one, until all rules are gone, and `past`, that the last command
wrote behind the array.

`RuleList` is what can be promised nevertheless. Its rules may be `Lost`: an
insertion before the end either inserts or spoils the list, and of a spoilt list
only the number of rules is known, and that deleting or clearing all of them
repairs it. Appends, deletions and policies never spoil it.

### RuleCommands

The level above `RuleTable`: it extends `RuleList`, the list the packed table is
proved to implement, spoilt or not, and adds who uses it. A command line process
parses its line, waits for the mutex (`Lock`), reads the size and decides (`Decide`),
writes and unlocks (`Operate`), or reads without the mutex line by line (`ShowLine`),
or takes the lines of the file (`NextLine`) and parses each as if it had been
entered. A load opens the file and then reads it as it is at the time, `BUFFER` lines
ahead at most, so a save by another process may cut it short or change it under the
load. The daemon locks and unlocks in `Evaluate`. A process may be killed at every
point (`Kill`); the mutex is not robust, so a holder that is killed has it for ever.
The list of a holder that was killed stays as it was in the model: the killed holder
keeps everyone else out, so nobody decides by the bytes it left.

A line is the record of its command and options, and a rule is the record of the
options that make it: what parsing and printing do to a rule is `ParsedRules` and
`ShowRule`. The validation is the code's, with its oddities: a redirect without
target takes whatever the stack held, `policy` requires both targets although they
are shown only for a redirect, and `ToEthAddress` rejects what `ethRegex` matches,
that is every hardware address without a digit f.

What a listing reads while another process edits may be anything
(`RawRules`, `RawPolicies`), and so may what it reads of a spoilt table. `began`
remembers what a process began with for as long as no other process edits or, while
it loads, writes the file; the properties of listings, saves and loads are about
processes that were alone in that sense. One save at a time: what two of them leave
in one file is up to the operating system.

### EthMappings, Frames and MacRules

A query is a frame in the raw socket, a datagram in a UDP socket, or both;
`receiveRawData` and `processRequest` take them in any order. A frame is the
record of the fields and sizes `InPacket::Read` looks at: up to two VLAN tags, the
length of the IPv4 header, the protocol, the port, the QR bit. `Teaches` says
whether the handler learns from it; where the code reads one octet more than was
checked for (a frame that ends two octets behind the UDP header), both outcomes are
possible. `OtherFrame` delivers everything else the network carries, frames of that
size included: their senders (`Strangers`) may get into the table. The raw handler passes `ipv4 = true` for every frame, so an IPv6
source is filed by its first four bytes. The table replaces, when it is full, the
record its walk left in `oldest`, which is the newest one, if it is older than the
timeout. A rule exists for some of the machines, and `verdict` remembers what
decided the last query.

### ServiceLifecycle

The steps of a process are the ones that touch a shared name or decide an exit,
in the order of the code: open or create the lock, remove and create the
segment (in the constructor, before anything is checked), try the lock, carry out
the lines of the rule file one by one on whatever segment has the name then, bind
and run, remove the lock's name, remove the segment's name. The load may end before
any line (the file cannot be opened), after some (a line fails) or at the end of
the file, and the service goes on in each case; a line that throws ends the start.
A refused process leaves with `exit(1)` and runs no destructor. A crash is possible
at every point, and so is `Unlock`, which is the command as well as what
`start --unlock` does before it opens the lock: nothing checks that the service has
stopped, and `forced` remembers that it had not. A rules command opens the segment by
its name in one step and changes it in another, with anything in between. Mutexes are
the POSIX ones, not robust: a lock whose holder died stays locked.

### DnsMessage and DnsPacket

`DnsMessage` is the reference: how a client or server writes a message,
compressed or in full. `DnsPacket` follows one datagram through the handler,
octet by octet, because positions are what may go wrong: header, names (one step
per label or pointer), fixed fields, data; then one of the handlers that send a
packet, or none. A datagram overwrites the first octets of the buffer and leaves
the others, as the socket does. Names are the C strings the code keeps, with
dots. A 32-bit number is the tuple of its octets, since it is only moved, and
`HostU32` is what a little-endian machine makes of octets in network order.

Two arrays are written without a look at their end: the one a name is read into
(`MAXDNAME` characters) and the response buffer (`BUFFER_SIZE` octets). A write
behind either leads to the stage `overrun`, after which the service goes on or is
started again, with any of the buffers. The NUL that is written in front of a name
that is nothing but a pointer to an empty one is in the model as far as it lands in a
field (`DataBefore`: the priority of an MX record).

The messages are those the code writes back as they were: names with at most one
pointer, data without compressed names, no pseudo header. For others the code
does this, without a run of its own:

* after a name with several pointers it goes on behind the last one followed,
  which may be anywhere (`dnsquestion.cpp:53`);
* a record whose data hold a compressed name is written with the name in full and
  the old length (`dnsrecord.cpp:111`);
* a name of more than `MAXDNAME` characters overruns the array it is read into
  (`dnsquestion.cpp:66`);
* an empty name is written as two octets (`dnsquestion.cpp:124`), and the options
  of a pseudo header are not written: the README's own example uses `+noedns`;
* `Validate` looks at the sections only when the header is invalid, and a header
  that is invalid passes if they are valid (`dnspacket.cpp:63`);
* a datagram shorter than the C++ object `DnsHeader` (24 octets on 64-bit
  machines, where the header takes 12) is dropped: a query without a pseudo
  header for a name of less than six characters;
* a datagram that lacks up to two octets of an address at its end is taken, with
  what the buffer held before.

## 3. Runs

| run | shows | result | distinct states |
|---|---|---|---|
| `server_real` | ids, records, pool size, answers and the refinement of `QueryBroker`; freed memory is used only near the epoch | holds | 254,416 |
| `server_askers` | "Same request can come from multiple sources" (`peer.hpp:32`) | violated | |
| `system_answers` | end to end: at most one answer per query sent, and one per question of which nothing is lost, to one of its askers | holds | 161,028 |
| `rules_list` | the table implements the list; verdicts change only where they should; bounds | holds | 33,074 |
| `rules_insert` | an insertion moves the rules behind it (`shm.cpp:254`) and writes within the array (`shm.cpp:248`) | violated | |
| `rules_commands` | commands of several processes are atomic, listings show the table, loads stop at a failure, a save is brought back, nobody waits for ever | holds | 271,227 |
| `rules_saved` | what was saved can be loaded (`README.md:180`) | violated | |
| `mac_table` | one record per machine, no client taken for another, recent mappings kept, queries learnt from and nothing else | holds | 237,870 |
| `mac_ipv6` | the rule for a machine's hardware address applies to it (`README.md:162`) | violated | |
| `service_starts` | one owner, no false lockout, rules and commands reach a daemon started alone | holds | 1,052,067 |
| `packet_relay` | whole messages are accepted and sent on as they came, only expanded ones overrun the response buffer, a redirect answers every question in host order, cut ones are dropped, reading stays near the datagram and ends | holds | 27,868 |
| `packet_redirect` | the target of a redirect may be any address (`README.md:136`) | violated | |

The violated ones are the `findings`, with the line that says otherwise:

* `HasTimedOut` is true on any real clock, so a second client that asks an
  outstanding question is never remembered and never answered.
* An insertion before a rule leaves that rule's type behind.
* The same loop writes one byte behind the array when an insertion before the end
  fills it. (Both are conjuncts of `InsertsAsCommented`; with one rule of each kind in
  an array of six cells TLC meets the write behind the array when a rule of three cells
  goes before one like it, whose type is then the right one by chance.)
* A file saved under the default policy cannot be loaded completely: its `policy`
  line has no targets, and the parser throws. The rules before it are loaded. A
  service start that loads the file ends with the exception.
* No mapping is ever filed under IPv6, and a frame of an IPv6 query overwrites
  the machine's IPv4 mapping.
* The octets of a redirect's target are written in reverse order.

More facts follow from the models and have no run of their own.

* A refusal goes out without the QR bit, so it is no response.
* A repeated query is forwarded with the client's id while the record keeps the id
  drawn before: when the first copy is lost the answer to the repeat is ignored.
* With a clock that reads at most `TIMEOUT` (a host that boots without one) a
  joining client links a destroyed node, and nothing is defined after it. `MemorySafe`
  says that nothing else leads there, `MemorySafeOnRealClock` that no clock past
  `TIMEOUT` does.
* Of two clients that ask one question only the first is answered; what
  `AnsweredUnlessLost` promises is an answer to one asker of the question.
* A relayed message is longer than it came when its names were compressed, and one of
  more than half a response buffer may be written past its end: in `packet_relay` a
  response of 97 octets becomes 115 in a buffer of 100. `OverrunsOnlyExpanded` says
  which messages this concerns: those with compressed names, those that become an
  answer, and those that fill the buffer and end in a name, behind which `WriteLabel`
  stores one more zero.
* A daemon whose rule file cannot be opened, or has a line that fails, runs without
  its rules or with the first of them. `RunsWithItsRules` is about the lines it did
  carry out.
* The datagram of a machine's first query may be handled before its frame, and the
  policy decides it. A machine that takes over an IP address is treated as the
  previous holder until its own record replaces it.
* A second start takes the segment's name away from the running daemon before it
  notices that it is refused; rules commands then change a segment nobody
  evaluates. A command that opened the segment of a daemon that was restarted since
  changes the old one. An unlock while a process is alive gives two owners, which is
  what `OneOwner` exempts.
* A load whose line fails returns success; only one whose line throws returns an
  error.
* A listing or a save that overlaps an edit may skip rules or show some that never
  were; a save empties the file first, so one that is killed leaves less than there
  was.
* A command that is killed while it holds the mutex stops the daemon at the next
  query. It does not notice, and no restart of a command helps.
* `rules` without a command does nothing, although the help says that listing is the
  default (`src/rule/parse.cpp:43`).

### Bounds

* `server_*`: a pool of two records, three questions and two clients: the pool
  fills, records are evicted, two clients share a question, one client has two.
  `ID_MAX = 2` is the least the assumption allows, so every id is reused.
  `TIMEOUT = 1`; the readings make ages negative, zero, below `4 * TIMEOUT` and at it,
  and the first is not past `TIMEOUT` (`RealClock`, of `server_askers`, has only the
  others). Two configurations: one with a usable server and a TCP one, one with none.
* `system_answers`: two clients, one question of both and one more of one of them, a
  pool of one record and one id, two servers, two sends in all (either client twice or
  each once), one loss. `TIMEOUT = 2` means that no query is evicted: what happens
  to evicted queries is the subject of `server_real`.
* `rules_list`: nine cells for rules of three to seven: at most three rules fit, and
  rules just fit or just do not; indexes inside, at and past the end. `rules_insert`: six
  cells and one rule of three, which fill the array.
* `rules_commands`, `rules_saved`: two processes beside the daemon, three commands in
  all (`MAX_COMMANDS`): enough for a save, an edit and a load, for a load another
  process's save overlaps, or for a listing that two edits overlap. A load reads two
  lines ahead (`BUFFER`) of files of two and three. One query (`MAX_QUERIES`), room
  for two rules (`CAPACITY`), so that adds and loads run out of it. Two rule files, one
  complete and one with a line that is rejected in the middle; commands with and
  without index and target. The room of a rule is 1: sizes are the subject of
  `rules_list`.
* `mac_*`: two machines and a printer (three machines in `mac_ipv6`), two records, one
  packet per socket, ages below, at and above the timeout, one change of hands
  (`MAX_MOVES`). Queries come without tags and options or with two tags and an option;
  fourteen other frames: an answer of a server, another port, three tags, other
  protocols, bad IPv4 headers, frames cut in each header, and one that ends behind the
  id.
* `service_starts`: three starts: one that runs, one that overlaps, one that follows;
  one rules command at a time, which may stay open over all of them; a rule file of two
  lines (`FILE_LINES`).
* `packet_*`: queries with one and two questions, one of them too short;
  responses with up to two answers of all types and owner names in full, partly
  and wholly compressed, with the other sections, and some that fill the buffer; four
  responses cut at every octet; four messages with each octet behind the id replaced by
  0, 2, 41, 64 and 192, which makes zero and wrong counts, other types, reserved
  labels, names that are too long, and pointers forward, backward and to themselves (the
  characters of the names are small numbers for that); an MX record whose host is a
  pointer to an empty name. Names have `MAXDNAME = 12` characters at most and the buffers
  100 octets. Two earlier contents of the buffer.

`service_starts` uses the symmetry of the starts (it checks invariants only); no other
run uses one. `CHECK_DEADLOCK FALSE` where the system may stop: the
clients of `DnsSystem` have a bounded number of sends, the starts of
`ServiceLifecycle` and the commands of `RuleCommands` are used up, and behind a
killed holder everyone waits.

### Fairness

`DnsSystem`, `DnsPacket` and `RuleCommands` claim liveness. `WF(Deliver)`: the network delivers what it
does not lose, and a handler runs when its socket has a datagram. The code
justifies the second part: `receive4`, `receive6` and the handlers of the
upstream sockets arm the next receive whatever became of the datagram. Nothing
is assumed of the clock or of clients that repeat. In `DnsPacket`, `WF(Handle)`:
a handler that runs goes on running; that it ends is the property. In
`RuleCommands`, `WF(Step(p))` for each process and `WF(DaemonStep)`: a process that
is not killed goes on running, and one that waits gets the mutex if it stays free.
Nothing is assumed of a process that waits while others take the mutex again and
again: the property holds because commands and queries are finite, as they are for
administrators that wait for their commands to return.

## 4. Proofs

`DnsServerProofs` proves, for all values of the constants that satisfy
`PoolConstants` and `ServerConstants` (timeouts and sizes positive,
`MAX_FWD_QUERIES <= ID_MAX`, clock readings natural numbers):

* `TypeCorrect`, `DistinctNewIdsHolds`, `OneRecordPerQuestionHolds`,
  `SourcesWaitingHolds`, together, from the inductive invariant `IInv`, their
  conjunction. They need each other: that an answer leaves the clients of the
  other records waiting follows from the questions of two records being
  different, and every step needs the shape of the pool.
* `PoolBoundedHolds`: a record is allocated only when no record is free and none
  is old enough to be reused; then all are young, and fewer than
  `MAX_FWD_QUERIES`. The argument holds for a clock that is set back: it uses
  the ages of one moment only.
* `NewIdAvailableHolds`: at most `MAX_FWD_QUERIES - 1` ids are in use when an id
  is drawn, and there are `ID_MAX` to choose from.
* `AnswersOnlyWaitingHolds`, an action property, from `IInv`, for a process that has
  not used freed memory.
* `MemorySafeHolds`: a client joins only a record whose time is at most `TIMEOUT`, and
  the record and the waiting client stay as they are from then on. The corollary
  `MemorySafeOnRealClock`: if every reading is past `TIMEOUT`, freed memory is never
  used.
* `Refinement`: `DnsServer` implements `QueryBroker`. Every action is shown to
  be an action of the broker or a stutter under the mapping of records in use
  to open questions. A process that has used freed memory has delivered nothing more
  in this mapping: the broker promises nothing of it. Nor does it promise anything to
  a second asker (`Silent`), who is the subject of `server_askers`.
* `KeptUntilTimeoutHolds`: a record younger than `TIMEOUT` is not given up except for
  its answer. Eviction and reuse for a new record spare it by its age; taking a timed
  out record again keeps its source.

`ServiceLifecycleProofs` proves, for any number of starts, commands and lines,
`LifecycleTypeCorrect`, `LockInvariantHolds` and, from it, `OneOwnerHolds` and
`NoFalseLockoutHolds`. The lock alone does not give `OneOwner`, because names are
removed while others have the mutex open: the invariant adds that an owner's mutex
still has the name, and that a starting process has either that one or one that was
locked and will stay so. Both fall with an unlock that comes while a process is alive
(`forced`), and are restored when a start finds no other process; the accounting of
the holders, and with it `NoFalseLockout`, does not fall. `RunsWithItsRulesHolds` and
`CommandsReachLoneDaemonHolds` rest on `SegmentInvariant`: a process no other start
overlapped keeps the name of its own segment, its lines went there, and a command that
was asked for while it ran has that segment open.

`RuleCommandsProofs` proves, for any number of processes, commands, rules and files
that satisfy `CommandConstants` and `LineConstants` (what the parser makes of a line
it does not reject is a rule, a policy or a position):

* `CommandsTypeCorrect`: besides the shape of the state, that exactly the process
  inside has the mutex, that what it decided inside still holds, and that an append
  inside is still at the end of the list, which is what the next theorem needs.
* `Atomicity`: `RuleCommands` implements `RuleList`. An operation reads, decides and
  writes in steps of its own, and between them the others parse, list, load, wait and
  are killed; what it writes is nevertheless one operation of the list, decided by the
  list it is done to. With `ImplementsRuleListHolds` below, that the packed table
  implements the same list, spoilt by an insertion or not, this is the promise of the
  rule engine to several processes.
* `ListsTheTableHolds`: a listing no edit overlapped shows the table. The invariant
  `ListingInv` says that what such a listing has written so far are the lines of the
  first rules of the table (`Begun`), and that as long as a process is alone nobody
  else has the mutex to edit, so that the table stays what it was.
* `LoadStopsAtFailureHolds` and `LoadBringsBackHolds`, for rule files and tables of any
  length. Two invariants carry them. `SaveInv`: a file that remembers the table it was
  saved from holds the lines of that table, and one that is being written holds the
  lines its process wrote so far. `LoadInv`: a load that is alone with the table and the
  file, and began with a table no insertion had spoilt, has in its buffer the next lines
  of the file it began with (`Ahead`) and has done the ones before (`Progress`): the table is the
  one it began with and the rules of those lines behind it, the policy that of a policy
  line among them if there is one; and a load that ended stopped at the file's end or
  at a line that fails (`Stopped`). `LoadBringsBack` adds that printing a rule and
  parsing the line gives the rule back (`RuleRoundTrip`), and that a table with room
  for all rules has room for each in its turn (`RoomForNext`). The first theorem
  supposes that rule files hold complete add and policy lines (`PlainFiles`), the
  second that rules and policies are what the parser makes of a line it takes
  (`ParsedTables`). Both are hypotheses of the theorems, and TLC checks them for the
  instance (`RuleFiles` in `MCRuleCommands`).

`RuleTableProofs` proves, for arrays, rules, policies and positions of any number and
size that satisfy `TableConstants`, everything `rules_list` checks:

* `TableTypeCorrect`: `TypeOK` is inductive as it stands. It says that walking through
  the cells with `nextRule` as often as there are rules ends in the array, unless an
  insertion left the type of a rule behind and rules are left. The proof describes the
  walk by the places it comes by (`Locations`), a function defined by recursion, and
  shows what each way of moving cells does to it: behind an insertion or a deletion the
  places are the old ones, shifted.
* `ImplementsRuleListHolds`: an append, insertion, deletion, clearing or policy does to
  the rules at those places what `RuleList` does to the list; the other commands leave
  it as it is, and the room `RuleList` speaks of is the number of cells used. For an
  insertion before the end this takes that the cell the loop leaves out holds the right
  type already, which is what `spoilt` denies.
* `OnlyOwnVerdictsHolds`: the walk of `Evaluate` decides by the first rule of the list
  that matches, and what the operation changed in the list says which queries can
  come to another rule. It is about commands before and after which the list is not
  spoilt.

`DnsSystemProofs` proves `OneAnswerPerTryHolds` for any number of clients, servers,
repeats and lost datagrams. The invariant `SysInv` is `IInv` of the forwarder, `NetInv`
(what is in transit is a datagram, and a response comes from a server or goes to a
client) and `Budget`: the answers a client got, the answers and queries on their way, and one
more if the forwarder holds the query as waiting, are together no more than the queries
the client sent. Each step takes from one of these what it puts into another; that an
answer goes only to clients that wait, each once, is where `IInv` is needed. The
assumption `SystemConstants` says that the daemon's address is no client's or server's,
and that the clock is past `TIMEOUT`: nothing is promised once freed memory was used.

`MacRulesProofs` proves, for any number of machines, layouts of frames, and sizes of
table and queues, from `MappingConstants` and `HostConstants`:

* `OneRecordPerMacHolds` and `RecentMappingKeptHolds`, from `StateInv`, which bounds
  the table and says that only frames of queries wait in the raw socket.
* `QueriesTeachHolds`: the frame of a query passes `Read` and the filter whatever its
  tags and options, and `Add` finds a slot unless the table is full and its newest
  record recent. That the walk of `Add` leaves a candidate is a fact about maxima.
* `MacTypeCorrect`, if the other frames are no queries or end two octets behind the UDP
  header (`OnlyHostsAsk`), and `NeverAnotherMacHolds`, if besides the first four bytes
  of an IPv6 address are no host's IPv4 address (`PrefixesApart`) and a machine whose
  frames end there does not send from a host's (`NoForgery`). These are hypotheses of
  the theorems, and TLC checks them for the instance. The invariant `OwnInv` says that
  only hosts and such machines are in the table, and that until an address changes hands
  every host's record and waiting frame carries its own address.

`NatFacts` has what the others need of induction. The library's induction theorems
take a predicate as a parameter, which the provers cannot instantiate; here the
predicate is a set. A non-empty set of naturals has a least element, so a set of
naturals with 0 and every successor is all of them, and a non-empty list of naturals
has a greatest element. A function defined by recursion on `0..n` exists
(`RecursionInto`): which is what a definition by `CHOOSE` or a recursive function of the
models has to be unfolded with.

`DnsPacketProofs` proves for every datagram, buffer and `MAX_JUMPS`:

* `ReadsNearDatagramHolds`: the position is never more than two octets behind the
  datagram. The inductive invariant `ReaderInv` adds that between two labels the
  position, and the place to go on behind a pointer, are inside the datagram, so that
  only the data of an address can pass its end.
* `PacketTypeCorrect`: besides the ranges of positions, counts and pointers followed,
  that no section holds more items than the header says. `ItemsInv` adds that while an
  item is read there is a section it belongs to. (With a datagram that fills the
  buffer the position may get to `BUFFER_SIZE + 2`, behind the last octet of the
  model's buffer; nothing is read there.)

These assume that a datagram fits the buffer and that `sizeof(DnsHeader)` is at least
the size of the header.

For the messages a peer sends it proves, for all ids, flags, names, pointers, types
and numbers of entries at once:

* `RelaysWhatWasSentHolds`: what is forwarded, relayed or given back, if it fits the
  response buffer, is the message that came, with the names in full and the
  forwarder's id and flags;
* `OverrunsOnlyExpandedHolds`: a message that came with its names in full fits the
  response buffer when it is sent on (it is as long as it came), unless it fills the
  buffer and ends in a name, or becomes an answer; and no message overruns the array
  its names are read into, whatever the pointers;
* `AcceptsWellFormedHolds`: no whole message that is as large as a `DnsHeader` object
  is dropped;
* `CutMessagesDroppedHolds`: a message without its end is sent only if it ends in an
  address and lacks at most two octets of it;
* `RedirectsInHostOrderHolds`: whatever the target, the answer to a redirected query
  for addresses has the flags, the counts and one answer per question, and its address
  is the target's octets in the order a little-endian host makes of them. The run
  `packet_redirect` shows that this is not the target.

The hypothesis of all of them is `KnownDatagrams`, a definition of `DnsPacket`: a
datagram either stands for no message (any octets), or holds the octets of a member of
`Messages` but for the last `lacks`. `Messages` are the messages described in
section 2: labels of 1 to 63 octets without dots and NULs, names of at most 255 octets
and `MAXDNAME` characters,
a pointer into the name of the first question only, data as long as the type says, at
least one question, and a request that is a plain query. TLC evaluates
`KnownDatagrams` on the instance (`ArrivingDatagrams` in `MCDnsPacket`), so it is
satisfied by every message of the runs. `AcceptsWellFormedHolds` also assumes
`MAX_JUMPS > 1` (5 in the code): with 1 `ReadLabel` gives up at its first pointer.

The argument, in the order of the module:

1. Concatenations. `Part(ss, k)` is the concatenation of the first k parts, `Off` its
   length, `Holds(w, P, x)` says that x stands in w behind P. `Concat` is defined by
   recursion, so these facts rest on the induction and recursion lemmas of `NatFacts`.
2. Names. `NameInPlace`: where a name stands, its labels and its end (a zero or a
   pointer) stand. `WriteLabelIs`: `WriteLabel` of the dotted name gives the labels back.
3. Writing. `WriteIsEncode`: `Write` of the items made of a message is `Encode` of the
   message in full.
4. Layout. `EncodeLayout`, `EntryFound`, `PlaceNext`, `PlaceEnd`: where the header and
   every entry stand in the octets of a message, and that the last entry ends it.
5. Reading a name. `NameSpot` is where `ReadLabel` may be: in the name itself, or, behind
   a pointer, in the name of the first question, with the place to go on at. `SpotCases`:
   what it sees there is the next label, the pointer, or the end.
6. The inductive invariant `ParseInv`: what has been read of the header, the items so
   far and the current item is what was sent, and the position is the place of the next
   entry, or of the part of it that is next. When the position is past the end of the
   datagram, the last item read is an address (`TailLost`). One lemma per step of the
   reader (`ReadLabelReads`, `ReadPointerReads`, `ReadTextReads`, `EndLabelReads`,
   `ReadQuestionReads`, `ReadRecordReads`, `ReadDataReads`) shows that it keeps this.
7. The theorems, each from `PacketInv` (`ParseInv` with the invariants above).

Only model-checked: liveness (`AnsweredUnlessLost`, `ReadingEnds`,
`NobodyWaitsForEver`), which is out of the prover's reach.

## 5. Plan

Done: the forwarder with its pool, the end-to-end composition, the rule table, the
processes that share it with their mutex and rule files, the mapping table with its
sockets and frames, the lifecycle, the packets; the proofs of section 4.

Every invariant and action property that a passing run checks has a theorem. Left: what
an overlapping start does to the rules of a running daemon, as a property of its own
(so far it is only outside `CommandsReachLoneDaemon` and `RunsWithItsRules`); names with
several pointers and data with compressed names as messages of `DnsMessage`, with what
`DnsPacket` makes of them stated exactly.

### Not modelled

* Configuration and command line (`config.cpp`, `args.cpp`): values read once, before
  anything runs. What they decide is a constant of the models.
* The pid file: written and removed by the owner alone, and read by nobody.
* The statistics of the servers: written, never read. The digest of a question is
  taken to be injective.
* A save to a file that cannot be opened; two saves at a time; help texts, comments in
  rule files and the option library of the rules commands.
* What a process does with the bytes a write behind an array, or to freed memory, left:
  the models say that it happens (`overrun`, `past`, `undefined`) and stop there.
* The Windows service layer: it drives the same core with calls of an operating
  system that is not available here.
* Logging, printing, conversion of texts, the vendored SHA-256 and option printer.
