# dvb-vulture: a TLA+ verification project

dvb-vulture turns a DVB card into a network service. One daemon (`stream/`)
owns the one frontend of the card. It streams programs to the network, records
them by a schedule, collects program, EPG and videotext data, and serves
remote controls over TCP. The library `common/` holds containers, the
reference-counted pool and the wire formats; `ncurses_remote/` and `x_remote/`
are user interfaces, `bandscan/` and `tsverify/` stand-alone tools.

The daemon is what this project is about. It is a dozen threads that share one
piece of hardware, talk by reference-counted events, and each have their own
idea of what the hardware is doing.

## Inventory

| Part | State it keeps | Operations | What is hard |
|---|---|---|---|
| selector (`selector.c`) | ports with pid sets and queues, `num_buffers` | add, modify, remove port; read, release; send event; reinit | payload blocks shared by queues, clients and the feeder; counters kept by hand; the limit |
| pool (`rcptr.c`, `item_list.c`) | counter per block, free list | malloc, acquire, release | one release too many or too few |
| frontend (`dvb.c`) | tuned transponder, open pid filters, transfer thread | tune, untune, transfer, restart filters | filters must follow ports; tuning fails in several places |
| connections (`main.c`, `server.c`, `pgmstate.c`) | connections, master, active flags, programs, quick recordings | connect, go active, tune, scan, record, edit schedule, disconnect | arbitration with recordings and the offline task |
| recorder task (`rec_tsk.c`) | active and ended recordings | an iteration every 2 s: start, pre-empt, reap | drops its mutex in the middle; recordings end by themselves |
| recording (`eit_rec.c`, `recorder.c`) | EIT state, timers, recorder | follow the running status of an event | four timers against late sections; retuning |
| schedule (`rec_sched.c`, `rs_entry.c`) | sorted list, file | insert, walk, repeat, write | failing writes, crashes, power cuts; entries that are on no list |
| offline task (`off_tsk.c`) | where it is in its tour of transponders | tune, adjust clock | tunes without `conn_mutex` |
| databases (`pgmdb.c`, `vtdb.c`, `epgdb.c`) | tables, tuned flag, pids | react to events, store sections | events are handled late |
| streamer, announcer (`net_writer.c`, `sap.c`) | programs, pids | react to events, send | must serve what connections asked for |
| service trackers (`svt.c`) | outputs with programs, functions and pids; a tracker with two PMTs each | add, change, remove an output; take a PAT or PMT section | versions announced, skipped, switched; a PMT that moves; damaged sections |
| section extractor (`sec_ex.c`) | per pid a partial section and a kept packet | take a packet, flush | lost and damaged packets, no look at continuity counters; the kept packet |
| persistent allocator (`fp_mm.c`) | a file: chain of blocks, tree of the free ones | allocate, free, attach, reset | sizes and maxima kept by hand in a file that outlives the process |
| magazine store (`vtdb.c`, `lru.c`) | magazines in memory and in the file, index | store, look up, swap, start, stop | a limit that changes; crashes between writes |
| trees, hashes | nodes | insert, find | not modelled |
| MHEG downloader (`mheg.c` ...) | carousels | assemble modules | optional; not modelled |

Interaction: listeners have a port at the selector; `dvb.c` feeds packets and
sends events (`E_IDLE`, `E_TUNING`, `E_TUNED`, `E_PNR_ADD`, `E_PNR_RMV`,
`E_CONFIG`, `E_ALL_VT`) through it. Whoever tunes (`srvTuneTpi`) holds
`conn_mutex`, or is the offline task, and polls idle flags of the listeners
before and after. Lock order: `conn_mutex`, then `RecTask.t`; frontend, then
selector, then the listeners' own.

What makes each part correct is listed with the runs below; the hazards, each
at its line, are in `PROJECT.json`.

## Modules

`BufferPool` is the abstract specification of the payload pool: holders, what
each holds (`hold`, which the code does not keep), and the counters the code
does keep. Actions: `AllocElement`, `AllocEvent`, `Feed`, `Read`, `Release`.

`Selector` is `selector.c` with `dvb_transfer` and `dvb_restart`. An operation
runs under `Selector.mx` and is one action. Two are split as in the code: an
event is allocated in one critical section (`SndEvtAlloc`) and fed in another
(`SndEvtFeed`); the transfer thread works off a batch call by call with the
mutex held (`step = "work"`). `Pool == INSTANCE BufferPool WITH ...` is the
refinement: queues, clients, the transfer vector and event senders are the
holders.

`Arbiter` says who may use the frontend. A command runs under `conn_mutex` and
is one action (`Connect`, `Disconnect`, `GoActive`, `TunePgHere`,
`TunePgElsewhere`, `srvSetSwitch`, `ScanTp`, `Retune`, `RecPgm`, `RecSched`,
`AbortRec`, ...).
An iteration of `rec_task` is several (`Wake`, `Pick`, `AbortFetch`,
`AbortJoin`, `Start` or `StartFails`, `Reap`), because `rt_abort_all` runs
without `RecTask.t`. Tuning is one step, a program is represented by its
transponder. `dvbWouldTune` decides, as in the code, whether a start tunes at
all: not on the tuned transponder, unless the switch was set meanwhile and
would select another frequency for it (`switched`). A start that fails
(`StartFails`) loses the frontend only where it tuned.

`Tuning` opens that step: the caller (`BeginTune`, `AllIdle`, `TuneLocks` or
`TuneFails` or `TuneNoDvr`, `AllTuned`, `EndTune`, `UnTune`) against five
listener threads, each with a queue of events and the handler of the source
(`pgmdb_proc_evt`, `vtdb_proc_evt`, `epgdb_proc_evt`, `do_stream`,
`sap_proc_evt`). It relies on what is checked of `Selector`: events are
neither lost nor reordered, and filters are open exactly for wanted pids. It
relies on `Arbiter` for there being one caller.

`EitRec` is one scheduled recording with its recorder: any sections, gaps,
aborts and retunings. Time is kept as far as the code tells it apart.

`RecSched` is the schedule list with its file. `schfile` is what a reader of
the file finds, `disk` what a power cut leaves of it: the kernel writes back
when it likes (`WriteBack`, external), as nothing calls `fsync`. `rsWrite`
truncates the file or fails to open it, which no caller notices; `Written`
fills and closes it, perhaps not all of it. The server may stop (`Shutdown`),
crash or lose power at any moment, also in the middle of a write, and reads the
file again (`rsInit`). The history variables say that the last update
or write of the list went wrong (`stale`) and what was being recorded, and so
not on the list, when it was written (`missed`).

`FpMm` is the allocator of `fp_mm.c`. A value of `heap` is what the file holds,
the static functions are operators from heaps to heaps that keep their names,
and the calls are the actions: `fphMalloc`, `fphFree`, `fphZero`, `fphAttach`
(a restart), `fphSetFragmentSize`. The outcome of `rand_r` is an input. `Heap`
is the abstract specification, a set of live blocks; `AbstractHeap ==
INSTANCE Heap WITH live <- Blocks` is the refinement.

`Lru` has the operations of `lru.c` on a list with a middle pointer, two
counters and a side for every element. `VtStore` uses it for the magazines of
`vtdb.c`: packets (`vtdb_put`), clients' requests (`vtdb_get_mag`) and events
(`vtdb_add_pids`, `vtdb_rmv_pids`, `vtdb_add_all_pids`, `GoIdle`, `GoTuned`,
`vtdb_reconfig`) are one action each, as they hold the task's mutex; stopping
(`CloseBegin`, `CloseMag`, `CloseEnd`) and starting (`InitFile`, or
`AttachFile` and `ReadIndex`) write the file step by step, and `Crash` may
come between any two. Of the allocator it uses what `Heap` promises: an
allocation takes any block that is not in use. A magazine's contents are the
number of its packets.

`Svt` is `svt.c` with the tables of `table.c` it uses. Owners' calls
(`svtOutAdd`, `svtOutMod`, `svtOutRmv`) and complete sections (`PutPas`,
`PutSent`, `PutDamaged`) are one action each, because both happen under the
adapter's lock. The broadcast is the environment: `Announce`, `Switch` and
`Move` change what is on air. Trackers are not shared by outputs (see below),
so `out[o].r[p]` holds the `FuncRec` together with its tracker.

`SecEx` is `sec_ex.c`, which turns the packets of a pid into sections for
trackers, databases and recordings. `secExPut` and `secExFlush` are its
operations; the paths of `sec_ex_process_buf` keep their numbers in `New` (case
0), `FirstSeen` (1) and `Partial` (2). The broadcast around it is external: it
sends sections in turn, cuts them into packets as it likes (`Continued`,
`Started`), and a packet may arrive (`Arrive`), be without payload
(`ArriveEmpty`), be lost (`Lose`) or damaged (`Garble`). Every byte is known by
its section and place, so that a section returned can be compared with the one
sent. The history variables `start` and `done` say which sections arrived
whole.

The modules whose names end in `Proofs` hold the theorems about the module they
are named after; `FrontendProofs` those about `Arbiter` and `Tuning`,
`RecordingProofs` those about `RecSched` and `EitRec`. The `MC*` modules and
`.cfg` files are the instances. An operator whose comment begins with "Mutant"
is a faulty variant of a definition that follows it; no specification uses it,
it shows that a property notices the fault.

## Runs

| Run | Checks | Bounds |
|---|---|---|
| `pool` | `RefcountExact`, `NumBuffersExact`, `DataWithinLimit` | 3 holders, 3 blocks, limit 2, so events can exceed the limit; blocks symmetric |
| `selector` | `RefcountExact`; `BuffersCounted` (with the type); `FiltersFollowPorts`; `EventsSurvive`; `FifoOrder` | 2 ports, 2 pids, 3 blocks, limit 2: a block is shared by two queues, the vector and a client; blocks and ports symmetric |
| `selector_pool` | refinement `ImplementsPool`; liveness `BuffersComeBack` | 2 ports, 1 pid, 2 blocks, no symmetry |
| `arbiter` | `OneMaster`; `ClientsYield`; `OfflineExclusive`; `StreamsOnTunedTp`; `FrontendNotForgotten`; `OnlyRecTaskRetunes`; no deadlock | a super and a normal client, 3 recordings on 2 transponders, one repeating |
| `tuning` | `QuiesceBeforeTuning`; `StreamersFollow` (with the type); liveness `TuneEnds` | 2 transponders, 2 programs, a command starts with at most one unread event per queue |
| `eitrec` | `RecorderFollows`; `NoEarlyStop`; `RecordingEnds` | complete: the module has no bound |
| `recsched` | `DueFirst`; `EntriesInFile`; `PendingStarted` | 3 entries, one repeating, 3 moments; clients send waiting entries; every file operation may fail |
| `fpmm` | `ChainSound` (with the type), `TreeSound`, `BestFit`; refinement `ImplementsHeap`; no deadlock | requests of 1, 2 and 4 units, header 1, at most 8 links in 15 units; fragments of 6 or 2 units |
| `vtstore` | `OneHome` (with the type), `PacketsKept`, `ListSound`, `ImageComplete`; no deadlock | 4 magazines, 5 blocks, 2 packets each; limit 1, 3 or 5; blocks and magazines symmetric |
| `svt` | `OutputsFollow`, `TablesSound` (with the type), `NullWriteOnlyAfterMove`; liveness `TablesCatchUp` | 1 output, 2 programs with 3 versions and 1, of 1 or 2 sections (`MaxSecs`); 1 move, 1 damaged section |
| `secex` | `SectionsExact` (with the type), `PacketsReleased`; liveness `SectionsResume` | 1 pid, packets of 3 units; sections of 1, 4 and 2 units in a buffer of 4; 1 damaged packet, any number lost |
| `arbiter_abort` | `RecordersOnTunedTp` is violated | 3 recordings |

Named bounds: `MaxHand` and `MaxSend` (elements a client keeps, events between
their critical sections), `NumBuf` (the code's `NUM_BUF`), `MaxQueue`, and
`MaxTime`. A third port, client or program adds no case the second does not
have: the code treats ports and clients uniformly, and only ever asks whether
there is another one. Sharing needs two, being passed over in `rt_abort_all`
needs three recordings. `MaxQueue = 1` lets a command overtake the handling of
the one before; since a command sends several events, longer queues occur.
`MaxLinks` and `MaxEnd` let the free tree reach four nodes, so that a node with
two children is removed and both choices of `rand_r` count. One case is
executed in the run and not told apart: in `fph_remove_single` the maximum is
adjusted along a chain of bigger sons under a node with two children, which
takes four free blocks of distinct sizes to matter; the instance that has them
(20 units) is out of TLC's reach here. `TreeAlwaysSound` covers it, and trees of
any size. `MaxPk`, `MaxPnrs`: two packets tell a lost from a
doubled one, and the limit both grows and shrinks. Four magazines are what
`LRURemove` needs to unbalance a list on either side. `MaxMoves`, `MaxDamages`:
outputs have trackers of their own, so one output shows all of them, and one
move or one damage falls between any other two steps. Three versions let the
announced one be skipped. In `SecEx` pids share nothing but the pool; the
sections are such that two start in one packet, one ends with its packet, one
needs two packets or three, and one fills the buffer. `MaxGarbles`: after a
damaged packet anything may be in the buffer; a second adds nothing to that.

Fairness. `Selector`: clients go on reading and releasing (their loops do), a
thread waiting for the mutex gets it (the transfer thread sleeps without it),
hence strong fairness for those and weak fairness for the transfer thread.
`Tuning`: listeners read their queues (`selectorWaitData` times out and is
called again), the caller polls; weak fairness for all of them together is
enough, because nothing is sent while a command waits. `EitRec`: the thread's waits time out, time
passes, `rec_task` comes by. `RecSched`: `rec_task` walks the list every two
seconds and a recording that stays pending is started in the end; strong
fairness, because crashes, power cuts and restarts interrupt it; of the kernel
nothing is assumed. `Svt`: PAT and PMT are
repeated for ever and the transfer thread reads them, so every section on air
that concerns a tracker arrives (weak fairness); nothing is assumed of owners,
and `TablesCatchUp` speaks of a tracker that stays. The server may die there,
so that run does not check for deadlock. `SecEx`: packets go on arriving (weak
fairness); `SectionsResume` supposes that from some time on none is lost.

### What the violation shows

`arbiter_abort`: `rt_abort_all` (`rec_tsk.c:49`) takes the successor of a
recorder without the mutex. If that recorder has just ended, it is the last
of the *done* list, and the rest of the active list is passed over; the
recordings there go on over the retuned frontend. In the trace e1 and e2 are
being recorded on one transponder when e4 is due on the other; e1 ends by
itself before its successor is fetched, e2 is not aborted, and `rt_start`
retunes under it.

### Other disagreements found while modelling

They are in `PROJECT.json` as findings without a run of their own; the passing
runs say how far they reach.

- `assert (NULL == adapter->pid_fds)` (`dvb.c:441`, `:617`) fails when the dvr
  device could not be opened in the previous tuning, or the switch was
  configured anew, and a program was added after that. `QuiesceBeforeTuning`
  shows these are the only cases.
- A recording that reads `E_TUNING` sets `EIT_DONE` and leaves its recorder
  alone (`eit_rec.c:168`); `rec_task` may free the structure while the recorder
  thread still uses it, although `eit_rec.h` says "Unconditionally stops and
  clears recorder". It takes the recording that `arbiter_abort` shows being
  passed over.
- `rt_done` writes the schedule "so it does not loose data on power outage"
  (`rec_tsk.c:79`). But an entry being recorded is not on the list. When another
  one is added meanwhile, or another repeating one ends, the file is written
  without it, and if the process ends before the recording does, the entry is
  gone. `EntriesInFile` shows that nothing else that was written is lost so.
- As `rsWrite` does not call `fsync`, a power outage may also lose what it has
  just written.
- The second loop of `srvTuneTpi` waits for pgmdb to be tuned. If a
  reconfiguration that pgmdb has not yet handled empties its database, it
  never is, and `conn_mutex` stays locked. `TuneEnds` shows there is no other
  case.
- When the PAT moves a PMT, `svt_packet_put` frees the sections of the tables
  with `clear_tbl` and leaves version and number of sections; a PMT of the
  same version on the new pid is then written through NULL. In `Svt` this sets
  `dead`; `NullWriteOnlyAfterMove` shows there is no other way to it.
- `find_or_new_svt` never inserts a tracker into `svt_root`, so trackers are
  not shared although `svt.h` says so. That costs memory and work, no
  property depends on it.
- `vtdb_reconfig` frees magazines as if all were on disk; those in memory leak.
  `vtdb_new_or_replace_pack` tests an uninitialised `ins`.
- Comments that are out of date: `LRURemove` is called broken (`lru.c:185`),
  `ListSound` holds for it; `abort ()` in `fphMalloc` is said to happen
  (`fp_mm.c:1016`), `AlwaysBestFit` shows it does not on a heap this code wrote.

### Exceptions the properties state

- `selector.h:71` calls `limit` an "upper bound on allocated elements"; events
  are allocated beyond it. `DataWithinLimit` is about packets.
- `selectorModPort` purges packets of unwanted pids only if some hardware
  filter changes; otherwise a port may read packets it no longer asked for.
- `RecorderFollows` excludes a retuned frontend, see above.
- `PendingStarted` is for waiting entries. An `RS_IDLE` entry, which remotes
  let a user create, stops the walk at its place in the list.
- `EntriesInFile` is about the end of the process. It excludes entries being
  recorded that the last write has missed, the time between
  `fopen` and `fclose` of `rsWrite`, and the time in which the last thing that
  happened to list or file went wrong (`stale`): an update cut short by a lost
  connection (`srvRecSched` then reads an uninitialised `abort_flag`), a file
  that could not be opened, a write that failed, say on a full disk. `rsWrite`
  returns 1 for the second, which `rt_done`, `recTaskRcvSched` and
  `recTaskRcvEntry` ignore, and notices the third no more than they do.
- A power cut may lose whatever the kernel has not written back; no property
  says that it does not. What is on the disk is
  a beginning of the file: a file in which new blocks are mixed with old ones,
  and a record cut in two, are left out.
- After a crash a one-off entry that had ended or was being recorded is in the
  file as waiting and is started again, `rsPending` having no upper bound. For
  the same reason an entry that cannot be started is tried again for ever, and
  deposes the active client each time. `RecSched` and `Arbiter` do so, no
  property forbids it, as nothing in the code says it should not.
- `ImageComplete` is about crashes of the process. It relies on writes reaching
  the file in the order of the program; a power cut, after which they need not
  have, is not covered.
- `VtStore` assumes a `mag_limit` of at least 1: with 0 `vtdb_check_swapout`
  takes the last element of an empty list. `real_mag_limit` is not reset when
  the frontend goes idle; the model keeps it so.
- `Svt` assumes that an owner never changes the functions of a program it
  already has (none does): `add_func` would then set only the added bits.
- `TablesCatchUp` is about the tables of versions on air. A next table of a
  version that never became current keeps its pids on the port.
- `SectionsExact` is about sections that arrived whole. A loss splices the
  remains of two sections into one that is returned all the same; the users'
  crc is what finds it out. Of several sections that start in one packet only
  the first is returned, as the comment at `sec_ex.c:89` says. Packets that the
  broadcaster sends twice are not in the model.
- `TablesSound` holds with damaged sections although `svt_handle_pms2` uses
  version and number of sections before the crc is checked: a damaged section
  can empty a table or hand over the next one, and the table is filled again.

## Theorems

All are proved by TLAPS for every value of the constants that satisfies the
named assumptions: constants are finite sets or numbers of their kind and null
values are no members. Beyond that, `SecExAssumption` says that every section
fits the buffer, that there are more packets than pids and that there is a
section to send; `SvtAssumption` that a version has between 1 and `MaxSecs` (in
the format 256) sections and owners ask for known functions;
`TuningAssumption` that program numbers are finitely many, which `SUBSET`s of
them in queues need.

`BufferPoolProofs`: `PoolInvariant` proves `PoolInv`, the conjunction of type,
`RefcountExact`, `NumBuffersExact`, `DataLive` and `DataWithinLimit`. None is
inductive alone: that `num_buffers` is right after a release needs to know
which blocks lose their last holder, which needs the counters to be exact; the
limit on packets needs `num_buffers` to count at least the packets, hence
`DataLive`. `CountersAreExact`, `BuffersAreCounted` and `PacketsWithinLimit`
follow.

`SelectorProofs`: `FiltersAlwaysFollow` proves `FiltersFollowPorts` of the full
`Selector`. The step that matters is `dvb_restart` with the difference of the
wanted pids, some of which fail to open; all other steps leave ports and
filters alone.

`SelectorImplementsPool` proves the refinement `ImplementsPool`: a queue, a
hand, the vector and the senders are holders of the pool, and every step of the
selector is one step of the pool or none. That is so only in states in which no
port has a block twice, nobody else has the blocks the transfer thread reads
into or an event before it is fed, a port not linked has an empty queue
(`selectorAddPort` relies on it), and a batch fits the vector; `Handling` says
this and is proved in one induction (`SelInv`) with the pool's own invariant,
whose lemmas are used through an `INSTANCE` of `BufferPoolProofs`.
`CountersStayExact` and `BuffersStayCounted` carry the pool's theorems over to
the selector's own counters; the work is in counting, the holders of a block
being queues, hands and places in the vector. `EventsAlwaysSurvive` and
`OrderIsFifo` need to know what purging leaves of a queue. `Filter` is a
recursive function over the places of the queue, so this is an induction over a
set of places, which the prover does where an induction over formulas is out of
its reach: `kept[i]` has the wanted elements of the first `i` and no others, in
their order.

`FrontendProofs`: `ArbiterInvariant` proves `ArbInv`: types, `OneMaster`,
`ClientsYield`, `OfflineExclusive`, `StreamsOnTunedTp`, and two strengthenings.
`NothingLeft` (a connection that is gone streams nothing) is needed because
`pgmRmvAllPnrs` visits only existing connections. `NotForgottenYet` extends
`FrontendNotForgotten` to the iteration of `rec_task`. There is one lemma per
action. `MasterIsUnique`, `ClientsAlwaysYield`, `OfflineTaskIsAlone`,
`NoStreamLeftBehind`, `OfflineTaskComesBack` and the action property
`RecordingsKeepTheFrontend` follow.

`SvtProofs`: `SvtInvariant` proves `SvtInv`: the shapes of outputs, trackers,
tables and of what is on air, `OutputsFollow`, and `Known`, the strengthening.
`Known` says of every tracker that with an unknown PMT pid it listens to the
PAT alone and has no tables, and that a table without memory means the PMT has moved. The first half is needed
because the first PAS goes through the same `clear_tbl` as a move and must
find nothing to free. `HandleShape`, `HandleQuiet` and `HandleFreed` are the
facts about `svt_handle_pms2`: it keeps shapes; if it does not ask for the
outputs to be refreshed the pids of the tables are what they were; and it
never makes a table without memory. `PortsAlwaysFollow` and
`NullWriteNeedsMove` follow, for any outputs, programs, versions and numbers
of sections, moves and damages.

`TablesAlwaysSound` proves `TablesSound` with `SoundInv`, which adds to `SvtInv`
what every table is (`RecGood`): a version on air, at most `MaxSecs` sections,
every one of them of the table's version. `svt_handle_pms2` keeps that although
it looks at the version before the crc, because it empties a table whenever it
gives it another version.

In the same module, `AssertionHolds` proves `QuiesceBeforeTuning` and
`StreamersAlwaysFollow` proves `StreamersFollow`, both of `Tuning`. `TuningInv` relates the queue of each listener to its
flags. `TunedLast`: a tuned event is in a queue only while the caller waits for
everybody to have read it, as the last one. `Settled`: off the air, a listener
is idle and only told to be so again, or it will be told last; so the
idle flag that the caller polls cannot be followed by a late event that opens
pids. `Reaches`: reading what is in the queue of a streamer leads from the
programs it serves to those of the connections, by a sequence of sets, one for
each event.

`RecordingProofs`: about the schedule, `DueAlwaysFirst` proves `DueFirst` and
`EntriesAlwaysInFile` proves `EntriesInFile`, for any number of entries. The
inductive invariant `SchedInv` says of the list, the file and the disk what
`rsInsertEntry` relies on and `DueFirst` does not say, for any of them may be
the list of the next process: they are by `start_time`, idle entries included,
and have no identity twice. `WriteEffect` and `RestartEffect` are the facts
about `rsWrite` and `rsInit`, failing ones included. `InsertEntry`, `InsertAll`,
`WithoutEffect` and `PrefixEffect` are what inserting, removing and an
unfinished file do to such a list; the middle two are inductions over the sets
that the recursive functions under them visit. That identities are finitely many (`RecSchedAssumption`) is
needed for `rsInsertAll`, which takes the entries of a set one by one.

About one recording, `RecorderAlwaysFollows` proves `RecorderFollows` and
`NeverStoppedEarly` the action property `NoEarlyStop`. `Undisturbed` says what
is so until the frontend is retuned; `LeftForCause` that a thread behind its
loop with a recorder still to be stopped was brought there by an abort or the
clock.

`SecExProofs`: `PacketsAlwaysReleased` proves `PacketsReleased` and
`SectionsAlwaysExact` proves `SectionsExact`, for sections and packets of any
size. `Held`: the packets held are those in `aux`, each for one pid. `Collected`:
while the section that started last has lost nothing, the buffer, or the packet
in `aux`, has a prefix of it and what is still to be sent continues there. This
is the fact that relates the extractor to the broadcast, and each of the three
paths of `sec_ex_process_buf` has a lemma on what it does to the prefix.

`VtStoreProofs`: `MagazinesHaveOneHome`, `PacketsAreKept`, `ListStaysSound` and
`ImageAlwaysComplete` prove the four invariants of `VtStore` from `VtInv`. The
first half is about `Lru`: `Sound` says that no element is on the list twice,
and that middle pointer, counters, sides and balance are those of one place
`m`; there is a lemma for each of `LRUPutMid`, `LRUFwd`, `LRURemove` and
`LRURemoveLast`, the last also repeated (`ShortenedSound`, an induction over
the set of numbers of calls for which it holds). `LRURemove` may start
`lru_balance` two out of balance, and one step of it is enough. The second half
is about the store: `Home` says that a magazine is on the list with its packets
in memory or has a block with them, that no two have the same block and that
every block but that of the index has a magazine; `SwapOutHome`, `SwapInHome`,
`NewHome`, `PutHome` and `WriteHome` carry it through the parts calls are made of.
`Written` is needed for the index while it is written, `Complete` from the time
its pointer is set until it has been read; between the two, `AllWritten`. The
assumptions are those of the model: at least one magazine may be in memory, and
there are more blocks than magazines.

`FpMmProofs`: `AlwaysChained`, `TreeAlwaysSound`, `AlwaysBestFit` and
`HeapImplemented` prove `ChainSound`, `TreeSound`, `BestFit` and the refinement
`ImplementsHeap` of `FpMm`, for files and free trees of any size, every request,
fragment size and outcome of `rand_r`, with restarts anywhere. `FpMmAssumption`
only says that a header has a size and that requests and the default fragment
are positive.
`FpInv` is inductive: between two calls the file is `Sound`. That is `Chain`
(the links lie in the file without gap or overlap, `next` and `prev` agree with
their places, `last` is the last one), `Stem` (there are sets `sub[p]` of the
nodes below each node `p` such that sides and parents agree with them, sizes
ascend from the smaller to the bigger side and `max` is right; no other link
points into the tree) and `Alone` (no two free links are neighbours). None can
be dropped: `fph_merge` trusts that the link it swallows is in no tree,
`fph_remove` that the tree tells which side of its parent a node is on, and the
refinement that chained links do not overlap.

The argument follows the functions of the source. Each has a lemma on the
fields it changes (`LeafFields`, `HookSingle`, `SeatFields`, `SplitFields`,
`MergeFields`, `GrowFields`, `CutFields`) and one on what that does to chain and
tree (`InsertPlants`, `SingleUnhooks`, `RemoveUproots`, `FindsBest`, `SplitGood`,
`MergeGood`, ...); states in the middle of a call have predicates of their own.
`Hung` says that a node has got another child and `max` may be wrong from there
upwards, `Mending` that it is wrong at most at those nodes whose bigger side is
on the way; `fph_remax`, which climbs just these, then repairs all (`Mended`).
`Half` is the heap inside `fphFree`, where one link is free and not in the tree,
`Taken` the one inside `fphMalloc`. The walks of the code, down to a leaf, up to
the dummy, along the chain from its end, are recursive functions of the model,
and `CHOOSE` gives nothing away of such a function until one is shown to exist
(`FollowRec`, `ClimbRec`). What they return is found by induction over sets along
a rank (`RankInduction`, from the well-foundedness of the numbers): the number
of nodes below going down, of those not below going up.

Every safety invariant, action property and refinement that a passing run checks
is stated by a theorem. Only model-checked are the liveness properties
(`BuffersComeBack`, `TuneEnds`, `RecordingEnds`, `PendingStarted`,
`TablesCatchUp`, `SectionsResume`), which need fairness and `ENABLED` and are out
of the prover's reach, and the violation of `arbiter_abort`.

## Not modelled

The map covers a few per cent of the repository's lines. About 95,000 of its
160,000 lines are generated fonts and tables of the remotes, and most of the
rest of the remotes is drawing and menus; none of it has behaviour a model
could say anything about. Of the daemon and its library, where the state is,
the parts above are covered.

Not modelled of the daemon: the composition of `SecEx` with `Svt`, whose
sections come one later than they were sent (any order, loss and damage are in
`Svt`); PES packets (`pes_ex.c`), which pass one by one without state; pages
inside a magazine, whose half received page survives a retuning (`vtdb_put`);
the tables of `pgmdb.c` and the events of `epgdb.c`, whose file is started and
stopped as that of vtdb; packets into datagrams (`net_writer.c`); the optional
MHEG downloader; trees and hashes; code under `#if 0`.

User interfaces, the client library, text decoding, file names and formats,
the satellite switch's data, orderly shutdown (`TERMINATING`), tuning
parameters and statistics. Start-up is modelled from the accept loop on; that
`rec_task` may lock `conn_mutex` before `control_run` has initialised it
(`main.c:903`) is noted as a hazard. `dvb_ins_pid_fd` leaks a descriptor when
the filter cannot be set; descriptors are not in the model.

## Plan

1. (done) `BufferPool`, `Selector` with refinement; `Arbiter`; `Tuning`;
   `EitRec`; `RecSched`; theorems on pool, filters and arbitration.
2. (done) `FpMm` refining `Heap`; `Lru` and `VtStore`; `Svt` and its theorems;
   `SecEx`.
3. `SecEx` composed with `Svt`; `NetWriter`; the tables of `PgmDb`; `EpgDb`.
4. `Mheg`: modules of a carousel assembled from blocks; client protocol.
5. (done) Theorems on `Tuning`, `EitRec`, `RecSched`, `SecEx`, the tables of
   `Svt`, `Lru` and `VtStore`, `FpMm` and its refinement of `Heap`, and the
   refinement from `Selector` to `BufferPool`.
