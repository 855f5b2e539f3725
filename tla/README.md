# A verification project for utilmm

utilmm is a C++ library of unrelated tools: child processes, file descriptors
and sockets, phoenix singletons, hash tables, smart pointers, memory pools,
configuration files, command lines, graphs, plugins. This directory holds TLA+
models of the parts that keep state, the TLC runs that check them on small
instances, and proofs that TLAPS checks for every instance. Paths are relative
to the root of the repository.

## The system

| component | state | operations | hard part |
|---|---|---|---|
| `process` (`src/system/process.cc`) | the list of registered objects; per object `m_running`, `m_pid`, status, redirections; the SIGINT handler | `start`, `running`, `wait`, `signal`, `detach`, destructor, `killall`, `install_sigint_handler` | children and signals run beside the program; process ids are reused; `start` learns about `execvp` through a pipe |
| `auto_close`, `tempfile` (`src/system/system.cc`) | one descriptor or stream | `close`, `reset`, `detach` | descriptor numbers are used again at once: who owns one, and who closes it |
| sockets (`src/system/socket.cc`) | one descriptor and its domain | connect, bind, listen, wait, accept, the destructor | constructors that throw half way; a domain that is never set; several threads at one server |
| singletons (`src/singleton/`, `utilmm/singleton/`) | the server, its map, reference counts, a recursive mutex | `attach`, `detach`, `instance` | constructors and destructors reenter the server, which may be deleted under its own member functions |
| hash table (`utilmm/hash/`) | a vector of chains, a count | insert, find, erase, clear, copy, swap, iterate | rehash; iterators; equal keys |
| smart pointers (`utilmm/smart/`) | counted cells in a memory | copy, assign, reset, release | none that runs: see "Not modelled" |
| pools (`utilmm/memory/`, `src/memory/`) | free lists, a size, a mutex | get/put, allocate/deallocate, sweep | a pool that changes its size; threads that share one |
| `config_set`, `config_file` (`src/configfile/`) | a tree of sets; the parser's mode and current set | read, insert, get | nesting over many lines |
| `command_line` (`src/configfile/commandline.cc`) | options, what remains of the arguments | the scanner of descriptions, parse, remaining | every part of a description may be left out; defaults and errors after some values are stored; a second parse |
| graphs (`utilmm/undirected_*.hh`) | colours, a stack | depth first visit | every edge once |
| `pkgconfig` (`src/configfile/pkgconfig.cc`) | none | exists, get, packages, construct: each runs a `process` behind a pipe | who holds which end of the pipe; a child that fails half way; signals |
| plugins (`utilmm/plugin/`) | lists of classes, handles of libraries | register, create, the life of a plugin | libraries that are unloaded while their code is in use |
| `auto_flag` | a mask, the bits to put back | set, destructor | nesting, and others who write the same field |
| `configuration_finder`, `shell_expand`, `split`, `join` | none | search, replace, split | what is searched first; where the search goes on |
| `endian` | none | to_ and from_ big, little and network order | two hosts with different orders |
| `factory`, `symbol`, `cached_fn`, hash functions, `demangle` | small or none | | see "Not modelled" |

How they interact: `process` uses `auto_close` for its error pipe and its
redirections, `pkgconfig` uses `process`, smart pointers and plugins use
singletons, `uniq_memory` and `cached_fn` use `hash_map`, `config_file` is a
`config_set` that it fills, and `command_line` writes one too. Everything else is independent.
Nothing is persisted and there is no network protocol.

`PROJECT.json` lists the components with their status, and under `hazards` what
in this code is hard to test, each at its line.

What makes the components correct:

* process: an object never believes in, signals or reaps a process other than
  its own child; no child is left behind by an object that goes; the status it
  reports is that of its last child; `start` and the destructor return, unless the child ignores SIGINT.
* singletons: an instance exists exactly as long as it is needed, there is one
  at most, the counts are the number of users, the server goes with the last.
* hash table: it implements a bag of keys (a set, as `hash_map` uses it); it owns its
  nodes; equal keys are neighbours; iteration reaches everything.
* descriptors: every descriptor has one owner, who closes it once, but for a tempfile whose handle was given away; a child writes where
  its object was told to redirect it to, and a failed `execvp` is reported.
* graphs: a visit sees every edge from both ends and classifies it once, leaves nothing behind that it
  can reach, and its tree edges are a spanning forest; the edges of a vertex are one sequence, whichever way they are walked; degrees, edges and neighbours are of one undirected graph, of which `edge()` sees one direction.
* configuration: a file becomes the tree of sets that its brackets describe, or an exception that leaves nothing; a
  description of an option is read part by part, or refused where a part is wrong, and `parse()` stores what the arguments say, defaults included; texts are
  replaced, split and joined exactly; files are looked for in the current directory, then in the directories given, the more special name first.
* resources: a buffer, an object, a descriptor and a library handle has one owner until it is given back; a thread that has
  the mutex of a pool returns it; `pkg-config` is believed only when it succeeded and everything it wrote was read; the code of a plugin is there while it is used; a flag puts back the bits it
  changed; bytes arrive as the number that was sent.

## Modules

| module | what it models |
|---|---|
| `Process` | `utilmm::process`, its children, SIGINT and the part of the kernel it talks to |
| `ChildHandle` | abstract: a handle on one program at a time |
| `ProcessHandle` | the mapping from `Process` to `ChildHandle` |
| `ProcessProofs` | theorems about `Process` |
| `ProcessHandleProofs` | that `Process` implements `ChildHandle` |
| `Descriptors` | `auto_close`, `tempfile`, and the redirections and the error pipe of `process`, on the descriptor table of one program |
| `DescriptorsProofs` | theorems about `Descriptors` |
| `Singleton` | `use<Ty>`, `wrapper<Ty>`, `dummy`, `server` |
| `SingletonProofs` | theorems about `Singleton` |
| `HashTable` | `hash_toolbox::table` and its iterators, with both `insert_unique` and `insert_multiple` |
| `KeyBag` | abstract: bags of keys; `HashTable` implements it |
| `HashTableProofs` | theorems about `HashTable`, and that it implements `KeyBag` |
| `IteratorSequence` | `iterator_sequence`, as operators, and what the class promises |
| `UndirectedDfs` | `undirected_dfs` and `undirected_depth_first_visit` on an `undirected_graph` |
| `UndirectedDfsProofs` | theorems about `IteratorSequence`, the visit and the views of the graph |
| `GraphViews` | the degrees, edge and neighbour functions of `undirected_graph`, on the graphs of `UndirectedDfs` |
| `ConfigSet` | `config_set`, as operators on a heap of sets |
| `ConfigFile` | `config_file`: `read()`, and what a program does with the sets |
| `OptionDescription` | the constructor of `cmdline_option`, as operators |
| `OptionForms` | that constructor on every form of a description |
| `CommandLine` | `command_line::parse()` and `remaining()` on a `config_set` |
| `ShellExpand`, `ConfigurationFinder`, `Split` | `shell_expand`; `ConfigurationFinder`; `split` and `join` |
| `Configuration` | the parts that read what users write, side by side |
| `ConfigurationProofs` | theorems about `ConfigFile`, `OptionDescription`, `CommandLine`, `ConfigurationFinder`, `ShellExpand` and `Split` |
| `DynamicPool` | `dynamic_pool` and `dynamic_auto` |
| `ObjectPool` | `object_pool` and `use`, with threads |
| `Sockets` | `base_socket`, `socket` and `server_socket`, with threads and the kernel's sockets |
| `Plugins` | libraries, their lists of classes, factories and plugins |
| `PkgConfig` | `pkgconfig`, its child and the pipe |
| `AutoFlag` | `auto_flag` |
| `Endian` | `endian` between two hosts |
| `Resources` | the parts that hold something, side by side |
| `ResourceProofs` | theorems about `DynamicPool`, `ObjectPool`, `PkgConfig`, `AutoFlag`, `Endian`, `Plugins` and `Sockets` |
| `MCProcess`, `MCDescriptors`, `MCSingleton`, `MCHashTable`, `MCUndirectedDfs`, `MCConfiguration`, `MCResources` | small instances for TLC |

`Process` and `Descriptors` are two views of one class: the first has processes, time and
signals and takes the error pipe to work, the second has the descriptors that make it
work and takes `fork()` to succeed in one step.

The operators marked "Mutant" in the modules are the same definitions with a
plausible bug in them. The specifications do not use them; each is there to see
that some property notices the bug.

### Process

`m_running`, `m_pid`, `m_normalexit`, `m_status`, `m_do_setpgid` and
`managed_processes` (`managed`) are the variables of the code. `handler` is the SIGINT
disposition of the program: `default`, `ignored`, a handler of the application that returns (`app`)
or that calls `killall()` (`killer`), or the one that `install_sigint_handler()` puts there (`utilmm`), which
calls the one it replaced (`old_sigint_handler`); `InForce` is the one that counts in the end.
`pending` is a signal that has not been delivered yet.

A call that makes one system call is one action. `start()`, `wait()`, `signal()`
and the destructor make several and are split at each, because children,
foreign processes and signals get in between; `caller` says in which call the
program's thread is. Only one thread uses the class: `mtx_processes` is never
locked, so the code supports no more. `process_child_error()` reads twice, which
only matters when the first read is interrupted (`read2`).

The kernel is external: `st[p]` is what a process id stands for (nothing, a foreign
process, or one of our children: forked, past `setpgid`, reporting an error,
running its program, zombie), `grp` its group, `sig` who was sent SIGINT, `code`
how a zombie ended, `setuid` the programs that run as another user and refuse
our signals, `deaf` the children that ignore SIGINT: because their parent does when it forks them, which `execvp()` leaves as it is, or because
their program chooses to. A signal ends a child that is not deaf and has executed its program (`ChildKilled`); before that the copy of the program runs its handlers (`ChildHandles`),
so that a `killer` handler calls `killall()` once more, in the copy. A reaped id is free and may be handed to a foreign process or to the next
child. `waitpid(0)` and `kill(0)` address the group of the program.

Two ghost variables: `owner[p]` is the object whose `start()` forked `p` and which has
not given it up by `detach()` or an exception, `lost` the children whose `start()`
threw. Nothing in the model depends on them.

Constants say what else is in an instance. `IdleWait`: callers call `wait()` on
objects that run nothing (the documentation tells them to ask `running()` first,
`process.hh:104-105`). `Interrupts`: SIGINT, `killall()` and
`install_sigint_handler()` are part of it. `SetuidPrograms`: EPERM is possible.

The code's `sigint_handler` does not call `killall()`, although `process.hh:97` says that it
does: it calls the handler it replaced or aborts. That is what `SigintEnds` and `SigintHandled` do.

Left out of this module: redirections and descriptors (see `Descriptors`), the contents of command
line, environment and working directory, signals other than SIGINT, `pipe()` failing, copies of the error pipe that another thread's `fork()` takes along, and the exit of the whole program other than by SIGINT.

### Descriptors

`file[d]` is what descriptor `d` stands for, the kernel's table; `m_fileno[g]` the descriptor of each
`auto_close`: the two redirections of every process object, one of the program's own (`Guard`)
and the stream of a `tempfile` (`TempGuard`). `open`, `dup` and `pipe` give out the lowest numbers, so
that a number that was closed stands for another file at the next call. `child` is where the program
that was started last writes to, `threw` whether `start()` threw.

Two ghost variables follow the convention of the documentation: `owner[d]` says who has to close `d`,
and changes hands where a call says so (`reset`, `detach`, `redirect_to(..., true)`); `wanted[o][s]` is
the file that stream `s` of the next child of `o` was redirected to. Two more are for the use of a tempfile that the
documentation shows (`process.hh:124-129`): its handle goes to a redirection that closes it, and so has two owners. `lent` says that, and whether the descriptor
or the stream was given; `crossed` that `~tempfile()` has closed what is not its own any more, or used a stream that was freed. What the program is worth after that nobody knows: the model stops there.

Two calls forget a descriptor, and the model has them do it (owner `Forgotten`):
`redirect_to(s, FILE*, false)` duplicates twice, and `detach()` of a `tempfile` without a name answers 0.
`erase_redirection()` opens a file with an empty name, so that it always throws and changes nothing; it is no action.

`start()` is one step here: the pipe, the child's copy of the table with its redirections, and what
the parent closes. The program hands over and closes only descriptors that are its own, which its standard streams are, or the tempfile's. So 1 and 2 may be
closed, and a file, a redirection or the error pipe may get their numbers. `Room` keeps every call from finding the table full: a `dup()` or `pipe()`
that fails, like `mkstemp()` and `fdopen()`, is left out.

### Singleton

`mapped` and `ref` are the server's map and the reference counts, `server` whether
`the_instance` is set, `holder` the owner of the recursive mutex. `stack` is the call
stack of that thread: one frame per `attach` or `detach`, with the calls the constructor or
destructor in it still has to make. The constant `Programs` is a set of records that say what the
types are like, and `program` the one that runs: `members[t]` are the `use<>` members of type `t`,
`ctorUses[t]` and `dtorUses[t]` what its constructor and destructor use for a moment,
`throwing` the types whose constructor may throw. When `dummy::detach` deletes the
server every frame below runs on a deleted one (`stale`): what it reads there may
be anything, and an insertion is lost or ends the program (`undefined`).

A constructor that throws has its members unwound, and the exception goes on to the constructor that called it. One that reaches a destructor ends the program
with `std::terminate()` (`DestructorThrows`), because destructors are `noexcept` since C++11. A C++98 build would let it out of a destructor; that is not modelled.

The premises say which programs a property is about. `Lasting`: no constructor uses another singleton for a moment only. Without it
`singleton_lost` refutes the postcondition of `attach`. Even then behaviour may be undefined: `detach` asks the map whether it is empty, which a detach
that the destructor made has deleted (`AsksDeletedMap`). The program may die of that (`DetachDies`), or get any answer (`DetachReturns`). `Defined` says that this is the only place. `Quiet`: what destructors use for a moment does not throw, nor do its members. Only `Defined` needs it.
`Acyclic`: no type uses itself, directly or through others; a type whose destructor does is constructed again while the old instance is still there, and only `AtMostOne` speaks of that.
`Lifetimes` says when an instance and the server exist; its part `ServerIffSingletons` excludes the case of a first singleton whose
constructor throws before it has attached a member: `attach` has made the server, and nothing deletes it.

### HashTable

A chain is a sequence of nodes and `next` its order; `val` maps the nodes that exist
to their keys, which makes leaks and double deletes visible. The loops of `erase`,
`resize`, `equal_range` and `copy_bucket` are given by what they compute. `resize` walks the old chains and puts each run of equal
keys in front of the chain it belongs to: so a new chain has the nodes of `Rehash` in the order `InFront`, forwards within
a run and backwards between runs.
The facts `SuccessorIterates`, `ChainsHashed`, `KeysGrouped` and `NodesOwned`, the parts of `WellFormed`, make that right. The pointer that `insert` reads after a rehash is modelled as the code reads
it (`Garbage` when the vector it points into has been freed).

A new table has no chain, and every operation that hashes a key divides by zero until `clear()` has been called: `Trap`,
which `hash_tables` takes; with `ClearFirst` users call `clear()` first. `begin()` has its condition the wrong way round: it skips
the chains that are not empty, and gives `end()` or what is behind the vector (`Begin`). Neither has a property: both can be seen on the
first call.

### IteratorSequence and UndirectedDfs

An iterator of `IteratorSequence` is the record of the four members of the class, with positions of the two ranges as numbers;
the operators are its member functions. `ActsAsOne` compares them with the concatenation of the ranges. It speaks of iterators that are
reached from `Begin`. The end iterator that the class documentation and `out_edges()` build has `m_second_begin` at the end, so that
`--` takes it to the last element of the first range and not of the second; `End` is that iterator, and is
only compared with, as in the visit.

`UndirectedDfs` has one action per call of the visitor, with what the code does around it: `TreeEdge`, `BackEdge`,
`ForwardOrCrossEdge`, `FinishVertex` (and the discovery of a vertex, which is part of the action that enters it). `Pop` takes the next frame
off the stack; a frame is a vertex and the iterator to go on with. `u`, `ei` and `ui` are the variables
of the code, `ui` the outer loop of `undirected_dfs`. `graph` gives each edge of the base graph its two ends and does not change; that the
in- and out-edges of a vertex come in an order that does not change is the external `adjacency_list` (`SetToSeq`, some order, which no property depends on). An edge of the
undirected graph is an edge number and its `reverse` flag; the colours of edges are kept without the flag, as
the property maps do. `func` are the vertices at which the terminator says stop.

`DepthFirstVisit` begins at white vertices, any number of times with the same maps and any
terminator; `Dfs` begins anywhere. Ghosts: `calls[e]`, what the visitor was told of `e`, and `stopped`, where a terminator has stopped a visit.
`VisitSound` puts together that the gray vertices are a path of the stack (`GrayIsPath`) and that a visit which was not stopped reached everything it could (`NoneLeftBehind`).
`undirected_dfs` reads the first vertex, so that the graph must have one (`UndirectedDfsAssumption`). Left out: the overloads that only
choose default arguments (one of them, lines 135 to 143, passes an argument too many and does not compile).

`GraphViews` adds what `undirected_graph` answers about the graph itself: each function is written as the code composes it of the base
graph's, and `ViewsAgree` asks whether the answers fit one undirected graph. `edge(u, v)` asks the base graph for an edge from `v` to `u` only, so it finds the edges that `out_edges(u)` turns round (`TurnedRound`) and no others. The functions that add and remove vertices and edges pass the call on, and are left out.

### The configuration modules

These parts read what users write: a file, descriptions of options, arguments, texts and paths. They do not act on each other, so
`Configuration` puts them side by side, and `MCConfiguration` gives its small instance. Its variable `part` says which of them a behaviour is about, and
the variables of the others are `Off`.

`ConfigSet` gives the operations of one set on a heap: `children` owns, `parent` points back, and deleting a set frees everything below it (`Freed`: whatever no set of addresses that is closed under `children` leaves out).

`ConfigFile` has one action for each branch of the loop in `read()`, with its variables `mode`, `cur_set` (`cur`) and `line_number` (`line`).
What the regular expressions make of a line is its kind (`Lines`), and a file is a sequence of them that is chosen as it is read. `text`, the lines read so far,
is a ghost. The constructor throws with a line number, or finishes; then the program inserts, replaces, erases and deletes. `IsMeant`, which `FileIsTree`
compares with, counts brackets and does not know the parser's mode: it says which opening line encloses a line (the one since which the depth has been greater and is now by one),
and that each set has the values and the children of the lines within it, in their order. `ParentsOwn` says of every heap, edited ones included, that each set but the root is owned by exactly its parent. An
input error in the middle of a file makes the code loop for ever (`getline` fails and `eof()` is not set): `InputError` does that, and the liveness property exempts it
(`reader = "broken"`). That a file may end inside a bracket is what the code accepts.

`OptionDescription` is the scanner as the stages of the constructor, `OptionForms` builds every description of parts that are there, left out, empty or wrong, some with a bar and a text behind them, as the examples of `commandline.hh` have it, and
`Meant` is what the parts say. Where the header contradicts the code (`isValid()`, the bars) `OptionMeansParts` has what the code does, and the findings say so.
`CommandLine` has the arguments of the documentation, `-x=value` included, which no option matches. It has the loop over the arguments and the loop over the defaults as steps, because an error leaves what was stored before it: `ParseObeys` says what
the set holds after each call, also after one that threw and on a set that was not empty. A second `parse()` into the same set adds to the values of `*` options and replaces those of the others.

`ShellExpand`, `ConfigurationFinder` and `Split` follow the loops of the code and are compared with a definition that has no loop: `ExpandsOnce` goes character by character, `PriorityKept`
lists the places where a file can be, the current directory first, which the documentation does not mention, and `JoinsBack` joins what was split. With an empty separator `split()` never ends: the list grows until `MaxString` stops it, and the liveness property exempts it.

### The resource modules

These parts hold something for a program: memory, a descriptor, a library, a child, a bit. `Resources` puts them side by side as above.

`DynamicPool`: a buffer carries its size, `m_size` grows with the requests, and the free list is swept when it does. A buffer that
was handed out before the pool grew and is given back afterwards has another size than the pool, and is deleted instead of kept. `owner` says who has a buffer; a
`dynamic_auto` that is reset loses the buffer it held (`"lost"`), as the code does. `faults` would be set by a delete of a buffer that does not exist.

`ObjectPool`: `get()` and `put()` are split at the lock and at what they do to the list, so that threads would meet there; `new` may throw under the lock, and the mutex is given back then too.

`Sockets`: a constructor makes several system calls, each a step of the thread, and an exception between them closes the descriptor, because `base_socket` has been
constructed by then; one is `"lost"` only when `accept()` has a connection and no memory for its object. `m_domain` is unset in an object that adopted a descriptor or came out of `accept()`, and what is read from it may be any value. `leads` is the kernel's table of addresses; the file of a
Unix server is never removed, so that its address goes `Stale`. `promised` and `taken` are ghosts: how many connections waited when `try_wait()` said yes to a thread, and how many of them other threads have accepted
since. `AcceptAnswers` says that what waits and what was taken make up what was promised: `accept()` of that thread waits only if others were there first, in which case it does, although the documentation calls it non-blocking.

`Plugins`: `dlopen` is used with `RTLD_GLOBAL`, so that the list of classes which an exporter enters its class in is that of the library that was loaded first (`lists`; `order` is who was loaded before whom). `handles` counts openings, and a library goes with the last of them;
`create()` is split in two, because the list it reads may be of another library than the one it holds. `crashed` is a jump into code that was unloaded. There are two ways to it. A plugin keeps the handle of its factory and not that of its code, so one that the factory of another library made may be left without code (`UseCrashes`, `CreateCrashes`). And
a plugin closes its handle in its own destructor, which is code of the library: the last one that its own factory made unmaps the code that is running (`DeletePlugin`), unless somebody else keeps the library. `PluginsUsable` says when either happens: a plugin that the factory of its class made
can be used as long as it is there, and its destructor returns exactly if `KeepsToo`.

`PkgConfig`: `run()` is its stages `start`, `read`, `wait`, `judge`. The child writes pieces, exits 0, exits 1 or is killed, and the end of file comes when nobody holds the write end. A signal
may interrupt `start()`, which throws then while the child goes on (`StartInterrupted`, `strays`), or the reading, but not `wait()`, which retries. `~process()` ends a `pkg-config` that has not been
waited for: it is assumed not to ignore SIGINT. The read end of the pipe is closed by nobody (`ends`), whatever comes of the question. `reply` says what the call came to, what had happened to the child then, and whether everything was read.

`AutoFlag`: flags lie on a stack. The ghosts of a flag are the field before it (`was`) and the bits that somebody else changed since then (`touched`); `FlagsRestored` speaks of the others.

`Endian`: numbers are digits of `Byte` values, `swap_helper` is its shifts and masks, and a host is the order in which it lays digits into memory.

## Runs

| run | instance | shows |
|---|---|---|
| `process_calls` | 2 objects, 2 ids, exit codes 0 and 1 | the safety properties, and that `Process` implements `ChildHandle` |
| `process_signals` | 2 objects, 1 id, SIGINT, every initial disposition, EPERM, children that ignore SIGINT | `start()` and the destructor return, but for two cases |
| `process_killall`, `process_interrupted_start` | 1 or 2 objects | what the documentation says and the code does not do |
| `descriptors` | 1 object, descriptors 1 to 5, the standard streams and one file | one owner for each descriptor, none lost, redirections and error reports right |
| `singleton_uses` | 2 threads, 4 programs of 3 types, 2 uses each | counts, lifetimes of instances and server, every call returns, one place of undefined behaviour |
| `singleton_lost` | 1 thread | an instance in a deleted server |
| `hash_tables` | 2 tables, 2 keys, 4 nodes, a rehash at 2 and 4 elements | the table is well formed, finds and erases exactly, and implements `KeyBag` |
| `hash_insert` | 1 table, 5 nodes | the iterator that `insert` returns after a rehash |
| `undirected_dfs` | every graph of 3 vertices and 3 edges, every terminator | the visit is sound, edges classified, spanning forest, the views of the graph agree, every call returns |
| `configuration` | one behaviour for each of six parts, see below | files, options, arguments, texts and paths mean what a definition without the loops says; constructors return |
| `resources` | one behaviour for each of seven parts, see below | everything has one owner; answers, flags and numbers are right; mutexes and questions come back |

Bounds. Two process ids are enough for an id to be reused by a child of the other
object or by a foreign process while a second child lives; two objects for one to
take the other's child. Exit codes 0 and 1 are the success and the code of a child that
cannot exec. `process_signals` has one id, because liveness forbids symmetry and is slow: the
second child would only be a bystander of the calls that must return.

Five descriptors hold the two standard streams, one for a redirection, and the two ends of a pipe, or both redirections if a standard stream was closed; the
program's own file and the tempfile compete for the same numbers, so that every number is owned by everybody at some time. A sixth multiplies the states without a new case.
What the last `start()` came to does not matter for the next step, so that states that differ in it only are one (`MCView`); the properties of it are about the step.
One process object is enough, because objects share nothing but the table, and the program's `auto_close` plays the part of the other;
the proofs are for any number. One file and the file of the standard streams are enough to tell a redirection of one stream from that of the other.

Three singleton types make a chain in which the destruction of one
destroys the next, and two uses per thread make counts above one. The programs are: `Holders` (a chain of members, constructors that throw),
`Closers` (a destructor that uses a singleton for a moment, the other constructors throw), `Openers` (a constructor that does) and `Enders` (a destructor
that uses a singleton whose constructor throws).

`AvgBucketCount` is 64 in the code; with 2 a table of four elements has been rehashed
twice and has chains of two different keys. The keys `a` and `b` collide in one and in two chains, and not in three.

The graphs of `undirected_dfs` are all 729, with loops, parallel edges and vertices without edges; a triangle closes a
cycle and shows its back edge from both ends, and a second visit after one that was stopped meets black vertices.

`configuration`: files of up to 5 lines reach two levels of sets, two sets of one name beside each other and every error in every mode; 2 keys and 2 values distinguish appending from
replacing; 3 more sets may be added by the program. Texts of up to 5 characters hold two references next to each other, and a value that contains `$`; strings of up to 5 characters and
separators of up to 2 have overlapping occurrences. 3 arguments over two `parse()` calls are an option, its value and one more of each kind; the three lists of options have every
combination of flags, types and defaults that the code tells apart. A description is put together of one word, one letter and one number (`Sampled`), which is as many as a description has parts that can be
confused; the proof is for all of them. A path of at most two directories (`MaxPath`) and a file below a directory give every priority of `findSystemConfig()`.

`resources`: 3 buffers and sizes 1 to 3 let the pool grow twice while a buffer of every size is out; 2 threads and 2 objects; 3 sockets (a server, the end that connects and the end that was
accepted), a backlog of 1 and 2 threads that compete for one connection; 2 libraries, each loaded twice at most, with one handle that the program keeps; 2 pieces of output and 2 questions in a row;
2 flags on 2 bits; bytes of 2 values, so that numbers of all four widths of the code fit.

Symmetry: process objects and tables are interchangeable in the runs without liveness that have more than one of them
(`SameObjects`, `SameTables`). No property names one of them.

`CHECK_DEADLOCK FALSE` is set where the program may really stop: it was ended by
SIGINT, or ran into undefined behaviour.

Fairness. `process_signals` assumes: the thread goes on with the call it is in (strong
fairness, because a signal that is pending, which disables its step for a moment, may
come back any number of times); a pending signal is delivered; a forked child gets on to `execvp()`
or its `exit(1)`; SIGINT ends a child that got it and does not ignore it. All are the kernel's scheduling; nothing is assumed about
when a started program ends or what other processes do, nor that anybody makes a
call. A `killer` handler sends the program a new SIGINT whenever it is called, and so loops for ever; and `~process()` waits for a child that ignores SIGINT until it
ends by itself (`WaitsForDeaf`), also for every child of a program that ignores SIGINT. `CallsReturn` excludes these two cases, and nothing else: both are in the run, and the second is a finding. `singleton_uses` assumes that the thread that holds the mutex goes on,
and `undirected_dfs` that the thread that called does. `configuration` assumes it of the loops of `config_file` and `split`, `resources` of a thread that
has the mutex of a pool and of a question to `pkg-config`, where the child is also assumed to end: the library can do nothing about a `pkg-config` that hangs.

## Proofs

`ProcessProofs` proves, for every value of the constants that `ProcessAssumption` allows:

* `TypeCorrect`, `ChildrenHeld`, `ChildrenEndWithObject`: `TypeOK`, `EveryChildHeld` and
  `NoChildOutlivesObject`, with or without SIGINT and whatever callers do. The inductive
  invariant is `HeldInv`: besides the properties it says what `caller` holds in each call
  (`CallerOK`) and that an object that runs something is registered or being destroyed
  (`RunningManaged`). `EveryChildHeld` is not inductive alone: that `start()` does not
  overwrite the `m_pid` of a running child needs that an object in `start()` runs nothing.
* `RunningIsOwn`, `SignalsOwn`, `StatusIsOwn`: `RunningOwnsChild`, `SignalsOnlyOwnChild` and
  `ReapsOwnChild`, assuming `~IdleWait`, without which TLC refutes the last
  (it is enough to set it in `process_calls.cfg`). The invariant is `OwnInv`: `HeldInv`, `RunningOwnsChild`, and that an object
  about to be signalled or waited for runs something or has just reaped it (`CallerRuns`).
  The argument: only its own object waits for a child, so that the child stays a zombie and
  its id is not handed out before `m_running` is dropped.

`DescriptorsProofs` proves, for every value of the constants that `DescriptorsAssumption` allows, that is for any
number of descriptors, objects and files:

* `DescriptorTypes`, `GuardsHaveTheirOwn`, `NoneLost`, `ProgramFilesKept`: `TypeOK`, `GuardsOwn`, `NothingLost` and `KeepsProgramFiles`.
* `ChildrenWriteRight`, `FailuresReported`: `ChildWritesWhereWanted` and `FailureReported`, also in programs that have closed their standard streams, where the error pipe may
  be one of them. The properties say what happens then: a redirection of that stream takes the place of the pipe, and `start()` does not throw.

There is one inductive invariant, `Inv`. `GuardsOwn` and `NothingLost` need each other: a close must not
take what another object has, and what it takes must not be known to two. A number that is given out
again needs that what is closed belongs to nobody (`ClosedIsNobodys`). For the child, `WantedHeld` connects the ghost `wanted` with
the descriptor that the object holds. The invariant is about states without `crossed`; the step that makes it ends what can be said.
Every call is one of two changes of the table, closing some descriptors (`CloseStep`) or closing some and handing one to an object (`MoveStep`); the
lemmas about the calls only say which. `MinIsElement` (the lowest unused descriptor is one) is proved from the well-founded order of
strict inclusion on the intervals `0 .. n`, since induction on numbers is out of the prover's reach.

`UndirectedDfsProofs` proves `OneSequence`: `ActsAsOne` for ranges of any length. The lemmas rewrite an iterator as one of two forms, in
the first range (`AtFirst`) or in the second (`AtSecond`), and then go through the cases of where a move begins and ends.

It also proves `UndirectedVisitSound`, `UndirectedEdgesClassified` and `UndirectedSpanningForest`: `VisitSound`, `EdgesClassified` and `SpanningForest` for any
graphs, any terminators and any sequence of calls (`UndirectedDfsAssumption` only asks for a vertex). What the invariant, `DfsInv`, needs is to know what has been seen. An edge has two halves, one for each
vertex that it is seen from; `SeenIn` are the halves in front of the iterators on the path and all those of finished vertices, where no visit has stopped. A step then does one of three
things to the path, with the current vertex on top (`Frames`): an iterator moves on, which sees one half (`Seeing`); a vertex is pushed; the one on top is dropped when its iterator is at the end, which sees nothing new
(`Finishing`, `Reaching`). `EdgesSound` says of each edge what the visitor was told, by which of its halves have been seen. The case that counts is one half seen and the other not:
a tree edge whose lower end is right below the upper one or finished (`TreeHalf`), so that the parent is not taken for a cycle; a back edge to a vertex above (`BackHalf`); or an
edge to where a visit has stopped (`StopHalf`). That is why a vertex that meets a gray one along a black edge need not be told anything.

For the forest, `ForestIs` says that the tree edges join the path and the ends of every tree and back edge, where `Joined` means that no closed set of vertices separates them, and that each tree edge has a side: a
set of vertices that have been discovered, closed under the other tree edges, with one of its ends. A new tree edge adds its white vertex to the side that has the other end (`SideGrows`).
`SpanningForest` follows since after `undirected_dfs` everything is black and has been seen from both ends, and from the sides without any induction over paths.

`ViewsAreOne` proves `ViewsAgree` for graphs of any size. By `OneSequence` the elements that `out_edges()` gives are the halves of the vertex, each of them once (`OutEdgesAre`), and those of `adjacent_vertices()` are where
the halves lead to, in another order (`NeighboursAre`). So a count of either is a count of halves (`OnceCounted`, `ViewsOf`); turning a half round makes one of the other vertex (`LeadToBack`), and the degrees together
count every half once (`DegreesCounted`), of which an edge has two (`HalvesCounted`).

`ProcessHandleProofs` proves `ProcessIsHandle`: `Process` implements `ChildHandle`, for every value of the constants with `~IdleWait`. The mapping is one handle per object, so the
argument is too: `PhaseOf`, `ProgramOf` and `EndOf` say what an object's handle shows, each action of `Process` changes that of one object at most, and there it is one step of
`ChildHandle` or a stutter. The invariant `HandleInv` is `OwnInv` with two additions: an object that is being destroyed is no longer registered, and a program that refuses our signals
exists only with `SetuidPrograms`. Children and foreign processes come and go without the handle noticing, because `OwnInv` keeps the id of a child from being handed out before its object has reaped it.

`SingletonProofs` proves, for any number of threads and types and for every program that `SingletonAssumption` allows:

* `SingletonTypes`: `TypeOK`, with any program. `BaseInv` adds that the outermost call acts for a use<> that its client may make or has (`Bottom`), and that the
  instances which have left the map but are not deleted yet are alive (`DyingLive`).
* `SingletonDefined`, `SingletonRefCounts`, `SingletonLifetimes`: `Defined`, `RefCountsUses` and `Lifetimes`, with the premises they state.

The properties speak mostly of the moments between two calls, but a construction or a destruction may be under way in each frame of the stack, and may attach and detach
in turn. So the invariant, `SingletonInv`, says of `Lasting` programs what holds at every moment. `Shape` is what a frame has done and has still to do. `CountInv` says in `Counted`
that the count of a type is the number of use<> objects of clients and of mapped instances, and of those that calls hold for an instance that is not in the map: members of one that is
being constructed, or detaches that an unwinding or a destructor still has to make (`FrameUses`). `ref[t] > 0` exactly for mapped types then means that no detach misses.
It is not inductive alone: a type must not come into the map while its constructor runs (`NotYet`), which with members that form a tree (`Rooted`) excludes that a construction
needs itself; and the server must not be deleted below a call that still uses something (`StaleUnused`). `ServerThere`, `OneInstance` and `ThrowsNot` are for the server, the number of instances
and the exceptions that reach a destructor. Each action changes the uses of one type by one, or moves one from a frame to a client or a mapped instance: most lemmas are about these moves.

`ResourceProofs` is about seven modules. `PoolOwnsBuffers` and `OneThreadPerObject` prove `BuffersOwned` and `ObjectsInOnePlace` for any number of buffers, objects and
threads, with their types. The properties are inductive as they stand once they say of the steps in between who holds the object (for the pool of threads, that only the holder of the mutex is past the lock); what takes work are the
sequences, which have no element twice before or after one is pushed, popped or removed.

`AnswersAreTrue` proves `PackageAnswered` for any number of pieces and questions. The invariant `PkgInv` adds `InRun`: the end of file means that the child has ended,
and exit 0 that it wrote everything, so that a run that reads to the end and finds exit 0 has read it all. What calls leave behind (`CallsLeave`) is inductive as it stands.

`FlagsAreRestored` proves `FlagsRestored` for any field and any depth. The invariant `FlagInv` adds `Nested`: what a flag has kept, and the bits nobody touched,
agree with the field as it was when the flag above it came (`After(i)`), or as it is now for the one on top.

`ValuesAreKept` proves `ValuesKept`, that is `FlagsRestored` and `BytesArrive`, for a byte of any number of values, each of the widths that `EndianAssumption` allows and every pair of hosts. What a step keeps is
`BytesArrive` with the range of the number; the work is arithmetic. `AddsTo` says that a byte that is added where a number has a zero changes that digit alone, whether the bytes are added from the low end or from the high end; `swap_helper`
and the memory of a host are both such sums (`TwoIs`, `FourIs`, `HalvesIs`, `NumberShows`). So `swap()` turns the bytes round (`SwapTurns`), and a number is determined by its digits (`DigitsDetermine`).
The powers of `Byte` are a function (`Power`) and not `^`, which the provers do not know.

`PluginsStayUsable` proves `PluginsUsable` for any libraries, however often they are loaded and unloaded. `LoadedWhileUsed` alone is not inductive, because `dlclose()` is modelled
by one sweep over the libraries without handles (`Gone`). `OrderFits` adds that one of those that are there was loaded before all others, and that everybody has entered its class in
the list of that one; so nobody needs a library but the first, and the first goes only when all go (`GoneWhat`). `ListsFit` adds that the lists of all others are empty and that no entry is newer than its library.
Handles are counted with the cardinality of the set of plugins that have one, which is finite (`PluginsFit`). With that, the parts about the code of plugins follow from the invariant: a class that is found in the list of its own library is the one that was loaded last (`ClassFound`),
and the handle of a plugin is the only one exactly if nobody else keeps the library (`LastCloses`).

`SocketsKeepOwners` proves `SocketsOwned` for any number of threads, descriptors and connections that may wait. The invariant `SocketsInv` adds what a thread in a call finds at its
descriptor (`CallFits`: a constructor finds a socket that is new or bound, `accept()` and whoever believes `try_wait()` a server that listens), what follows from an owner (`Known`), and that a socket is being
made by one thread (`OneBuilder`), from which the cardinality in `DescriptorsOwned` follows. Every action is a lemma; those of a call that begins, of a call that ends and of `close()` share one each.

`HashTableProofs` proves, for any tables, keys, hash function, memory and average length of the chains:

* `TablesWellFormed`: `WellFormed`, that is `ChainsHashed`, `KeysGrouped`, `NodesOwned`, `SuccessorIterates` and the count of nodes.
* `FindsExactly` and `RangesErased`: `FindExact` and `RangeErased`.
* `TablesAreBags`: `ImplementsKeyBag`, the refinement of `KeyBag`.

The inductive invariant is `HashInv`. It says of each table (`TableInv`) that a node is in one place of one chain, the one that its key hashes to; that equal keys
are neighbours within a chain; that `node_count` is the number of nodes; and that a table has at least one chain or no node. Between tables, no node is in two, and the nodes that exist
are those in some chain. Nothing in it speaks of the order of iteration, which is the chains laid end to end: that is where the work is.
`FlattenSeq` is recursive, so it is first given a form without recursion: `Flattens` is a function whose value at every chain follows from the one before, it exists
(`FlatteningExists`), and the place of each node is the offset of its chain plus its place there (`FlatPlaces`, from `OffsetsGrow`). `FlatSound` then carries `HashInv` over to the flat sequence.
`InOrderIs` says that `InOrder` lists a set in the order it is given, if that order is total; `MovedIs`, `WithoutIs` and `NewChainIs` apply it to erasing and rehashing.
The run order of a rehash is total only because equal keys are neighbours, and `NewChainIs` gives that back for the new chains: this is why `KeysGrouped` has to be in the invariant.
Each call then either changes one table (`OneTable`) or two (`SwapKeeps`, `AssignKeeps`).

For the refinement, `ContentsIs` says that the bag of a table counts the nodes in its chains by key, and each call adds a node, removes one or several, or copies them one to one (`CountsAdded`, `CountsRemoved`, `CountsFewer`,
`CountsCopied`). What a call says (`inserted`, `erased`) is compared before and after, and `erase(key)` removes exactly one node because `Successor` is the next one of the iteration (`Iterates`, `ErasedOne`).

`ConfigurationProofs` proves the five safety properties of `Configuration`:

* `FinderKeepsPriority`: `PriorityKept`, for any directories, files and system ids. `FindSystemConfig` is three searches, each of which looks at one place more before it looks at the path; `FindsFirst` shows that together they
  find the first of the places that `Candidates` lists.
* `OptionsMeanParts`: `OptionMeansParts`, for any sets of words, letters and numbers that `WordAssumption` allows (no word is a separator). The invariant is that
  the description was put together of parts, and that the option is what they mean. A description is a concatenation of up to eleven pieces of which each may be empty, so the proof follows the scanner: `AdvanceTo` says that `advance()`
  stops behind a piece that is free of separators if what follows begins with one, or is nothing; `StopsBehind` says that what follows a part begins with the separator of the next part that is there. There are two
  lemmas for each stage, one for a part that is there and one for a part that is left out (`ShortGiven`, `ShortLeft`, ...), and each needs from the stage before it only where it stopped and at what (`ReadAs`).
  `SaidUnderstood` chains them, and `RejectedIfBad` compares the reasons to throw with the parts that are wrong, one by one.
* `TextsAreExact`: `TextsExact`, for texts of any length. Both functions run through a text and write, so the invariants say what has been written of what has been read. For `shell_expand()` (`ExpandInv`) it is
  the expansion of the text before `Position`, and the search never goes on inside a reference, or half a name would be taken for text; `MatchExpands` shows that one round of the loop writes what stands for the
  characters up to the end of the name. For `split()` (`PiecesInv`) the pieces with their separators are the string before `from`, no piece holds a separator (`NoneInside`), and with a separator of one character the
  pieces alone are the characters that are kept, empty pieces or not. The texts they are compared with are recursive functions; `Concatenates` is their common form, and what is needed of it is proved by induction over its length:
  it exists (`ConcatenationExists`), a stretch of empty pieces adds nothing (`TogetherSkips`) and a stretch of single characters is copied (`TogetherCopies`).
* `CommandLineIsObeyed`: `CommandLineObeyed`, for any lists of options that `OptionAssumption` allows (they are valid, and only an option with an argument has a type, as the constructor of `option` leaves them), any number of
  arguments and any sequence of calls on the same `config_set`. The invariant, `LineInv`, says while the arguments are read that every key has what the arguments before `i` give it (`After(k, i - 1)`), that `remains` is what they leave
  (`Left[i - 1]`), that none of them is refused, and that the argument at `i` is not one that an option has taken: without the last part a consumed argument would remain too. While the defaults are set (`Filling`) the arguments
  have all been obeyed and the keys that no argument named have the first default of the options before `next`. The reference definitions say which argument replaces what came before it by looking ahead, so the work is to show that they
  grow with the arguments: `NotUsed`, `MultipleUsed` and `SingleUsed` say what one argument more does to a key, `LeftStep` what it leaves. `KeyExists` relates the test of the second loop, which
  looks at the `config_set`, to what was said: a child that the program put there makes the key exist, too, and a key with values is one that was named or had some before (`AfterEmpty`).
* `FilesAreTrees`: `FileIsTree`, for files of any length and any number of sets. `FileInv` says in each state of the reader what is known; while it reads (`Follows`) every line so far is legal, `cur` is the set that the
  next line is `Within`, the parser looks for a bracket exactly if the text is `Waiting` for one, the sets are what the text describes (`Described`), and they are a `Tree`. Type correctness and the text alone are not enough: a closing bracket moves
  to `heap[cur].parent`, so the parent of every set has to be the one around its opening line. About the texts, `SamePlace` says that a line's place depends only on the lines before it, `WithinOne` that no line is within two sets, and
  `BehindOpening`, `BehindClosing` and `BehindOther` where the next line is; `LinesWithin` turns that into what one line more gives each set, and `ListedMore` and `ListedSame` into what its values and children are then. A `Tree` numbers its sets so that parents come before
  children, which is why deleting the root frees every set (`TreeFreed`: the first that were left out would be a child of one that is not), and has each one at one place, which is `ParentsOwn`. The program's edits keep the tree and nothing else.

What the provers cannot do shapes these modules. Induction is done through sets: the least element of a set of numbers (`SmallestNumber`, `LeastOf`) exists because the order of intervals is well founded, and a claim about all numbers
follows since the least one that violates it cannot be there (`EveryNumber`).

Only model-checked:

* Liveness and whatever depends on `ENABLED`: `CallsReturn` and the like.
* The runs that expect a violation, of course, and `ThrownStartRunsNothing`.

## Findings

`PROJECT.json` quotes, for every run that expects a violation, the line of the repository that says
otherwise. Worth fixing first: `start()` should retry a `read()` that was interrupted, and move the error pipe above
the standard streams; `killall()` should skip objects whose `m_running` is false, and so should `wait()`
(`IdleWait = TRUE` in `process_calls.cfg`); `table::insert()` should return the new node; `server::attach` should look the server up again after `create()`,
and `server::detach` ask whether the map is empty before it deletes the instance; plugins should be deleted by code that stays.

Some properties of the runs that pass would contradict the documentation if they said what it says. They say what the code does, exactly, so that they fail if it does anything else, and `PROJECT.json` has a finding
for each:

| property | what the repository says | what the code does |
|---|---|---|
| `CallsReturn` of `Process` | only a detached child outlives its object (`process.hh:112`) | `~process()` sends SIGINT once and waits for a child that ignores it (`WaitsForDeaf`) |
| `Defined` | a singleton exists if and only if it is needed (`use.hh:103`) | the last `detach` may read a map that a nested one has deleted (`server.cc:44`) |
| `RangeErased` | the range `[first, last[` is removed (`table.hh:175`) | with equal keys, so are the elements with the key of `first` in front of it |
| `GuardsOwn` | a tempfile's handle may be given to `redirect_to(..., true)` (`process.hh:124-129`) | the number has two owners then, and `~tempfile()` may close what is not its own |
| `FailureReported` | `start()` throws on an error (`process.hh:84`) | not if the error pipe has the number of a redirected stream |
| `ViewsAgree` | an undirected graph (`undirected_graph.hh:24`) | `edge(u, v)` finds edges of one direction only |
| `OptionMeansParts` | a wrong description makes `isValid()` false (`commandline.hh:62-63`); examples with a bar before the help (`146-163`) | the constructor throws, also at such a bar |
| `CommandLineObeyed` | `-I=/another/path` is an argument (`commandline.hh:147`) | it is an unknown one, and `parse()` throws |
| `PriorityKept` | `BASENAME/ID` is searched first (`configuration_finder.hh:40`) | the current directory is |
| `SocketsOwned` | `accept()` after `try_wait()` does not wait (`socket.hh:116-124`) | it does if another thread was faster |
| `PluginsUsable` | a plugin has a holder that keeps its library (`plugin_wrapper.hh:19`) | the last one unmaps the code of its own destructor |
| `PackageAnswered` | `start()` throws if the program cannot be started (`process.hh:84`) | every question leaves a descriptor open, and `start()` that is interrupted a child |

Other disagreements of the code with itself or its documentation, seen while it was modelled. The models follow the code, or leave the case out where it says so.

* `table::begin()` has its condition the wrong way round (modelled, `Begin`), and `table::table()` should make one chain (`Trap`).
* `object_pool` loses an object that the list cannot take (`objectpool.hh:36`, `45`; left out).
* `process.cc:223`: the result of `pipe()` is ignored. `process.cc:97`: `sigint_handler` does not call `killall()`.
* `socket.cc`: the accepted and the adopted socket have no domain; the
  file of a Unix server is never unlinked; a server of datagrams always throws in `listen()` (all modelled). `socket.cc:114` copies a pointer where the address bytes are wanted.
* `dynamic_auto::reset()` loses the buffer it holds (modelled).
* `pkgconfig::packages()` throws `out_of_range` if there is no output (modelled as an outcome); `compiler()` reads behind an array for `Static` and `Libraries`.
* `findSystemConfig()` reads behind a vector if the system id has no underscore (left out).
* `config_file::read()` does not end when the stream fails (modelled, `InputError`); `split()` does not with an empty separator (modelled).
* `iterator_sequence`: `--` of the end iterator that the documentation builds goes to the wrong element (see above).

## Not modelled

* Smart pointers: there is no behaviour to model. `simple_memory::create` and `null`, `->` and `*` of `pointer` do not compile when they are instantiated, and
  `uniq_memory` keeps its cells in a `hash_map` that it never clears first, so that the first pointer to an object divides by zero (`Trap` of `HashTable`).
* `cached_fn` is `find()` and `insert()` of a `hash_map`, and takes the same trap unless `empty_cache()` comes first; what can go wrong after that is
  `InsertReturnsElement`. The other functional tools hold no state.
* `factory` and `symbol`: `factory.tcc` is not in the repository, and `basic_symbol` does not compile.
* Hash functions, `demangle`, and the functions of `stringtools.hh` other than `split` and `join`: one expression or one call of a library each. `HashTable` takes any hash function.
* `from_network` of `endian` cannot be instantiated; it would be the inverse that `Endian` has as `Convert`.
* In modelled components: `read()`, `write()` and `flush()` of sockets; `mkstemp()`, `fdopen()` and `dup()` that fail; the file of a `tempfile`; `usage()` of `command_line`; the numbers that
  `config_set` converts its texts to; a list of an `object_pool` that has no memory for its next element; what another thread's `fork()` does to the pipes of `process` and `pkgconfig`.

## Plan

Done: `Process` with its abstraction, `Descriptors`, `Singleton`, `HashTable` with its abstraction, `UndirectedDfs` on `IteratorSequence` with `GraphViews`; the
configuration and the resource modules; proofs about `Process` and its refinement, `Descriptors`, `Singleton`, `HashTable` and its refinement, `IteratorSequence`, `UndirectedDfs`, `GraphViews`, the resource modules and the configuration modules: every safety property and
every refinement of a passing run is a theorem.

What is left, in this order:

1. `dup()`, `pipe()`, `mkstemp()` and `fdopen()` that fail, in `Descriptors`.
2. Reading and writing of sockets, with short counts.

The project keeps to about a dozen runs, one for each question. Components that share a hazard share a
run, as the configuration and the resource modules do.
