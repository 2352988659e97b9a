# A TLA+ model of BadgeVMS

BadgeVMS is the operating system of the WHY2025 badge: an ESP32-P4 with two
cores, FreeRTOS, 32 MB of PSRAM behind an MMU, a WiFi co-processor, a keyboard
and a square display.  Its own code (about 14 000 lines of C under
`src/badgevms`) turns FreeRTOS tasks into processes and threads with PIDs,
heaps, file handles, windows and a clean-up when they die.  This directory
models that code in TLA+, checks it with TLC on small instances, and proves
what matters most with TLAPS.

## 1. Inventory

| Component | State it keeps | Operations | Talks to |
|---|---|---|---|
| PID allocator (`task.c`) | `pid_table`, `head`, `tail` | `pid_allocate`, `pid_free` | Zeus allocates, Zeus and Hades free |
| Task lifecycle (`task.c`) | `process_table` and its lock, `zeus_queue`, `hades_queue`, `num_tasks`, a `task_info_t` and a children queue per task, a reference-counted `task_thread_t` per process | `run_task`, `thread_create`, `wait`, the tasks `zeus` and `hades`, `vTaskPreDeletionHook`, `cerberos` | FreeRTOS deletes tasks and calls the hook; init, compositor and apps call in |
| Buddy allocator (`buddy_alloc.c`) | free lists per order, waste list, `max_order_free`, `free_pages` | `init_pool`, `buddy_allocate`, `buddy_deallocate` | one pool for PSRAM pages, one for framebuffer addresses |
| Process memory (`memory.c`) | list of mapped ranges per process, the MMU, framebuffer ranges | `why_sbrk`, `pages_allocate`, `pages_deallocate`, `remap_task`, `unmap_task`, framebuffer map and unmap | buddy allocator; context-switch hooks; Hades |
| Compositor (`compositor.c`) | ring of windows, `cur_num_windows`, `compositor_queue`, two framebuffers and an event queue per window | `window_create`, `window_destroy`, flags, move, resize, present, events; FN+CROSS kills the owner | apps, Hades (`window_destroy_task`), keyboard, FreeRTOS |
| Init (`init.c`) | per app: PID, last start, `should_start`, run-once flag in NVS | start-up, supervision loop | `run_task`, `wait`, `task_application_is_running` |
| OTA session (`ota.c`) | one session: `open`, `error`, handle | open, write, commit, abort, validate | apps, Hades, esp_ota |
| WiFi (`drivers/wifi.c`) | status, wanted status, event bits, retry count, scan results | `hermes` and its commands, `event_handler` | apps block on Hermes, esp_wifi calls back |
| Logical names and paths (`logical_names.c`, `pathfuncs.c`) | table of names and search lists | set, get, delete, resolve; path parsing | every open of a file |
| File handles (`wrapped_funcs.c`, `wrapped_fs.c`) | 128 handles per process | open, close, read, write, directory functions | devices, logical names |
| Applications (`application.c`) | a directory and a JSON file per application | create, set, list, destroy, launch | file system, `process_create` |
| Devices and drivers, Bluetooth, HTTP, TLS, kernel heap | registers, vendor stacks | | |

What is hard in it: Zeus, Hades, the idle tasks, init and the compositor act
on the same task from two cores, mostly without locks; death is asynchronous
and comes from several places; identifiers and memory are reused; queues are
bounded and their senders block or drop; allocations fail half way.  The list
with the line of each hazard is under `hazards` in `PROJECT.json`.

What makes each component correct:

* PIDs: never two tasks with one PID; a PID comes back when its task is gone,
  and not before; none is lost for good.
* Lifecycle: every death is reported once and every dead task reaped; the
  table shows exactly the living; a heap outlives the tasks in it; whoever
  waits for Zeus is answered; nobody uses what Hades has freed.
* Pages: the blocks always partition the pool; what is given is usable and
  nobody else's; buddies are merged; the counts are right.
* Memory: the MMU shows the heap of the process that runs and nothing else;
  each page given out is in one list.
* Framebuffers: pixels show the pages of their own window; places and pages
  come back.
* Compositor: the ring holds each live window once; a window is freed once,
  after its owner has lost it; every call returns.
* Init: an app is started when its rules say so, never twice at a time, and a
  run-once app once; firmware is marked good before an app can break it.
* OTA: at most one writer; an image is the work of one author; the session of a
  dead owner is closed.
* WiFi: the status follows the link, nobody is connected who does not want to
  be, and every call is answered.
* Names: resolution terminates and respects the order of the search list.

## 2. Modules

| Module | What it is |
|---|---|
| `PidPool` | abstract: a set of PIDs in use |
| `PidTable` | the ring of `task.c`; `Pool == INSTANCE PidPool`, `PoolSpec` is the refinement |
| `TaskLifecycle` | Zeus, Hades, the hook, FreeRTOS' deletion of tasks, init and compositor as far as they create and kill; extends `PidTable`, whose operations are parts of Zeus' and Hades' steps |
| `TaskLifecycleProofs` | TLAPS proofs about `PidTable`, then about `TaskLifecycle`: where each PID is, then the counts, heaps, reports and `num_tasks` |
| `PageStore` | abstract: runs of pages given out and taken back |
| `BuddyAllocator` | `buddy_alloc.c` with several clients; `Store == INSTANCE PageStore`, `StoreSpec` is the refinement |
| `WindowList` | abstract: the windows as a list, most recently used first |
| `WindowRing` | the compositor's ring as it is linked: `next`, `prev`, `window_stack`, `cur_num_windows` |
| `Compositor` | windows from their creation to their memory: calls, `compositor_queue`, the frame loop, keys, Hades; extends `WindowRing`; `ListSpec` is its refinement of `WindowList` |
| `PhysicalPages` | what mapping, unmapping and giving back do to pages and MMU, with the aborts; shared by the next two |
| `AddressSpace` | `why_sbrk`, `pages_allocate`, context switches, Hades' `pages_deallocate` |
| `Framebuffers` | framebuffers of windows: making, swapping, drawing, destroying |
| `OtaSession` | the one OTA session and the tasks that share it |
| `Hermes` | the WiFi driver: Hermes, the event handler, callers, the radio |
| `InitSupervisor` | `run_init` over boots |
| `BuddyAllocatorProofs`, `CompositorProofs`, `AddressSpaceProofs`, `FramebuffersProofs`, `OtaSessionProofs`, `HermesProofs`, `InitSupervisorProofs` | TLAPS proofs about the module each is named after |
| `MC...` | one per component: what the `.cfg` files run |

A definition named `XxxForgets`, `XxxNoWrap` and the like, placed before the
definition it varies, is a mutant: the same code with a plausible mistake.
Each property of each run has one that breaks it, to show that the property
says something about the code.  The type invariants of the smaller modules are
conjuncts of one of their safety invariants.

### Correspondence

`map` in `PROJECT.json` gives the lines of every definition.  In short:

* `PidTable`: one action per function.  Both run under `pid_table_lock` and do
  not block inside, so each is one step.  `used` is history: which PIDs are out.
* `TaskLifecycle`: a task is a number that is never reused (so that a use of
  freed memory is visible); `tcb` is what FreeRTOS knows of it, `info` its
  `task_info_t`, `refcount` that of the `task_thread_t` created with it.  Zeus
  and Hades have a `pc`; a step ends where another core or a higher priority
  can interfere: at a queue, at a lock, between the load and the store of
  `num_tasks`, after `xTaskCreatePinnedToCore`, and in `task_thread_destroy` between
  the count and the rest (`dying`), where Hades may wait and all others go on.
  `Kill` is the compositor's FN+CROSS; it is on core 0 and may hit a task that is
  running, waiting or asking Zeus.  A deletion has two steps: FreeRTOS takes the
  task from its lists (`Kill`, `IdleReap`, `HadesKillChild`; `tcb` then says who did
  it), and `Report` is the hook's send, once there is room, and the freeing of the TCB.
* `BuddyAllocator`: a block is the index of its first page.  What happens under
  the pool's mutex is one step; `free_pages -=` and `+=` are a load and a store.
  `init_pool` is `BuddyInit` with the pool's metadata in its first page (true
  of both pools of the firmware).  Lists keep their order since the search
  depends on it.
* `WindowRing`, `Compositor`: the links are kept as the code leaves them, also
  those of removed windows, and the ring is what is `linked`, a history.  The
  compositor's `pc` says where in a frame it is: commands, keys, the owner of a
  killed window read and not yet followed, drawing.  Flags, move, resize and swap
  are one command, `change`: all of them use the window and notify the caller.
  A process has one task.  `task_info` of a window is the task, or none once
  `window_destroy` or Hades has cleared it.
* `AddressSpace`: a place (`Slot`) is a page of virtual addresses.  User tasks are
  pinned to core 1, so one task is mapped at a time.  The steps of `why_sbrk` are
  its critical sections and what lies between them; switches come at any step
  outside.  Threads of one process share `pages` and `end`.
* `Framebuffers`: one place and one page stand for those of a framebuffer;
  `pixels` is the place the application knows, `slot` where the pages are
  mapped, which a swap exchanges.
* `OtaSession`: `handle` is the `update_handle` of the global session, `live` the
  handles ESP-IDF holds open; a step per statement, as two cores and kills come
  between them.  `cut` remembers who was killed where the session was open and not
  among the resources of its task (`Unrecorded`).  An application goes on after a failed write, as
  `ota_wifi_update.c` does: `strayed` remembers that one did so when somebody else
  had the session.
* `Hermes`: the handler of an event is one step (its task outranks Hermes).  The
  radio (`link`, `events`) is external: events come in the order the link made
  them.  The ten attempts of the event handler are a choice to redial or give up.
* `InitSupervisor`: an entry's `since` is the age of its last start, `up` the time
  since boot, both saturated at `Cap`.  A PID stands for the process; programs
  that Init did not start have PIDs too.  `StartFails` is an answer of -1,
  `StartAnswersFreed` a creation that fails after its PID was allocated: the PID is
  free again, and is the answer.  `deceived` remembers the entries that wait for
  such a PID, until a report of it comes.  `Reset` may come at any step and keeps
  only NVS (`once`) and the OTA state (`firmware`).

The first use of freed memory, double free or abort is recorded in `fault` and
ends the behaviour, as C says nothing about what follows: each safety property
is checked on every behaviour up to the first one.

### Scheduling

Hades (priority 11), Zeus (10) and all user tasks (4 to 6) are pinned to
core 1: in `TaskLifecycle` Zeus has a step only while Hades is blocked, a user
task only while both are (`HadesBlocked`, `ZeusBlocked`, `UsersMayRun`).  Init,
the compositor, Hermes and the idle task of core 0 run at any time.  Hades
sleeps 10 ms after each death: `HadesWake` assumes that this is enough for a
preempted Zeus to reach its next blocking point; whether user tasks run
meanwhile stays open.  The other modules let their tasks interleave freely.

## 3. Runs

| Run | Bounds | Shows |
|---|---|---|
| `pid_ring` | 6 PIDs | every history of the ring; it implements `PidPool` |
| `lifecycle_safety` | 3 tasks, 4 PIDs, 1 failed creation, 1 kill, queues of 2 | bookkeeping of PIDs, table, reports, references; only threads made in the window of Hades' wait are left in a freed heap |
| `lifecycle_liveness` | 3 tasks, 1 kill | the dead are reaped, requests are answered |
| `buddy` | 2 clients, pools of 8, 7 and 11 pages, one overlapping update of `free_pages` | partition, merging, counts, waste, refinement |
| `compositor_windows` | 2 tasks, 3 windows, a limit of 2, queue of 2, 1 kill | the ring is a list; no command, frame or key meets a freed window |
| `compositor_calls` | 2 tasks, queue of 1 | every call returns, the windows of the dead are freed |
| `address_space` | a process of 2 threads and one of 1, 2 kills | the MMU shows the running heap, no page is lost or shared, aborts have two causes |
| `framebuffers` | 2 tasks, 3 places, 3 pages, 1 kill | pixels show their window, nothing is lost, faults have three causes |
| `ota_session` | 2 tasks, 3 sessions, 1 kill | one session and one author, dead owners' sessions closed but for kills in three places |
| `wifi` | a task that connects, a task that scans and switches the radio | status, unwanted links, answers |
| `init` | 3 tables of 2 entries, 3 PIDs, 1 foreign program, 1 reset | one process of each, run-once, validation, service |
| `doc_NoWindowDeletedTwice` | 2 tasks, 2 windows, no kill | a window is removed from the ring twice |

Why the bounds are enough.  Six PIDs let the ring pass through its three shapes
and several laps.  Three tasks are a parent, a child and a third that is the
child's child, its sibling, or a later owner of the parent's PID; with four
PIDs the PID is reused.  Queues of two are full with two messages.  A pool of
eight pages has four orders, and pools of 7 and 11 have blocks that are waste
or begin below it and end in it.  Requests are small beside the pool, as in the
firmware, where they are one page of 511 or at most 33 of 399; a large request in
a pool whose size is not a power of two could reach pages past the end, which
`init_pool` does not mark, and no caller makes one.  Three windows make a ring
with a middle; a limit of two lets the third overrun it.  Two processes and two
threads are what page lists and the MMU can confuse.  Three places with two
double-buffered windows make the second window fail at its second framebuffer.
A third OTA session is one opened between two steps of another's abort or
after a stale write.  The attempts of Hermes (5 and 10 in the code) are smaller,
as each further one repeats the same wait.  The init tables have a kept entry, a
periodic one after a delay, run-once ones, and two of one application.  The ring
may answer any free PID: `Fresh` tells apart the PIDs that an entry has, the one the
scan leaves out where applications matter, and one of the others, since Init treats
these alike.  Ages stop growing at the last limit that Init compares them with.

Behaviours stop at a fault or when all tasks, windows or sessions are used up,
so most runs do not check for deadlock; `pid_ring`, `buddy`, `ota_session` and
`init`, which never stop, do.  Liveness in `TaskLifecycle` is checked with three
tasks and a `hades_queue` of two, which Hades never finds full while he holds
the third: `Doc_HadesNeverStuck.cfg` shows what happens otherwise.  Symmetry is
used only where clients are interchangeable and no liveness is checked.

### Fairness

Lifecycle: weak fairness of Zeus and Hades, of the idle tasks and of init's
release of the lock: each is a loop of a task the scheduler runs when nothing
above it is ready, and Hades and Zeus block after each round.  That Hades goes on
from `dying` says that what he waits for in `task_thread_destroy` comes: the
compositor takes commands at each refresh, and the locks are given back.  (It does
not come if the compositor waits for Hades: section 6.)  `Report` is fair: a sender
that waits for room is woken by it.  Strong fairness
of the three steps that take `process_table_lock`: FreeRTOS gives a mutex to the
waiter of the highest priority, so init cannot take it again and again before
them.  Compositor: weak fairness of the compositor and Hades; strong fairness of
the sends, as waiters for room in a queue are served in turn.  OTA: weak
fairness of the steps inside a call and of Hades, strong fairness of Hades'
taking of a death.  WiFi: weak fairness of Hermes, the handler and the calls,
strong fairness of a send.  Init: weak fairness of its steps and of the clock;
strong fairness of a successful start, so a start is not refused for ever.
User tasks, kills, failures, resets and the radio are not fair: they may do
nothing for ever.

### Where code and documents disagree

`doc_NoWindowDeletedTwice` checks a sentence of two comments, and TLC finds a
behaviour that breaks it; `findings` in `PROJECT.json` quotes them.  The other
`Doc_*.cfg` check one sentence of a document, comment or header each and end
with a counterexample within seconds (`tlc -config Doc_X.cfg MC...`):

| Config | Module | What happens |
|---|---|---|
| `Doc_NoPidLost` | `MCPidTable` | the first `pid_free` overwrites the free PID 127 |
| `Doc_NumTasksExact` | `MCTaskLifecycle` | Hades' `--num_tasks` is lost in Zeus' `++num_tasks` |
| `Doc_NoneLeftBehind` | `MCTaskLifecycle` | a child created while its parent is reaped is not found |
| `Doc_NoThreadFromDyingParent` | `MCTaskLifecycle` | a thread is made in a heap that Hades is destroying |
| `Doc_ReportsGoToTheMaker` | `MCTaskLifecycle` | an orphan's death is told to a stranger with the parent's PID |
| `Doc_HadesNeverStuck` | `MCTaskLifecycle` | Hades waits for room in its own queue |
| `Doc_RefusalMeansFull` | `MCBuddyAllocator` | usable pages are marked as waste |
| `Doc_AtMostMaxWindows` | `MCCompositor` | two tasks pass the check of `cur_num_windows` together (architecture.md:116 "Up to 10 windows") |
| `Doc_SpacesAreIsolated` | `MCAddressSpace` | a killed shrinker's page is in two spaces (architecture.md:34) |
| `Doc_GoodAfterAppsStart` | `MCInitSupervisor` | the firmware is marked good before the first app, not after (architecture.md:110) |

Further defects that the models contain as the code has them:

* Hades calls `vTaskDelete` on a child that died by itself and that FreeRTOS has
  already unlinked or freed, when the parent's death reaches Hades first
  (`HadesKillChild`, `fault = "deleted a freed task"`, task.c:630).
* Zeus follows the `task_info_t` of a caller that was killed and reaped while its
  request was in `zeus_queue` (`ZeusReadsFreedInfo`, task.c:676), and asks FreeRTOS
  for the state of a freed one, which he may then notify (`ZeusAnswer`, task.c:743).
* A thread made for a dead caller while Hades waits in `task_thread_destroy` is left
  in a heap that Hades then frees: it runs there (`RunInFreedHeap`, task.c:574), and its own
  death counts there (`HadesCountsFreedHeap`, task.c:203).
* A new task can run before thread-local slot 1 is set, when Zeus blocks on
  `process_table_lock` that init holds (`RunUnpublished`, task.c:730).
* A creation that fails after its PID was allocated is answered with that PID
  (`ZeusGivesUp`, `ZeusAnswer`, task.c:737-744).  Init takes it for a success
  (`StartAnswersFreed`, init.c:246-257): the entry waits for the end of a process that
  never was, and is not started again, unless another child of Init gets that PID and
  ends.
* Overlapping updates of `free_pages` leave it wrong for ever (`races`,
  buddy_alloc.c:505 and 558).
* The child whose PID is `MAX_PID` is never killed with its parent (`Victims`,
  task.c:627), nor seen by `task_application_is_running` (task.c:823).
* A window whose owner was killed while it waited in `window_destroy` is
  destroyed again by Hades and freed twice (`Interrupted`, compositor.c:1088).
* The compositor follows a `task_info_t` it has read while Hades frees it
  (`CrossDelete`, `DrawWindow`, compositor.c:726 and 781), and the TCB of a caller that
  FreeRTOS has freed, to learn whether to notify it (`ReadsFreedCaller`,
  compositor.c:650).
* Two threads of a process that meet in `why_sbrk` map the same addresses, and
  the MMU code aborts (`overlapped`, memory.c:454; dlmalloc is built without
  locks).
* A shrinking task killed between the return of a page and its unmapping leaves
  the page in its list (memory.c:523-530); a growing one loses what it
  has allocated.
* After an odd number of swaps `framebuffer_free` returns a place at which the
  other framebuffer of the window is still mapped; a window made in it meanwhile
  aborts the firmware (compositor.c:515).
* `window_framebuffer_create` frees framebuffer 0 before it clears the pointer
  the compositor draws from (compositor.c:992).
* A task killed between taking `session.open` and recording the resource, or
  between freeing the record and clearing the flag, closes OTA for ever
  (`cut`, ota.c:49, 115 and 122).  An abort sets `error` after it has opened the session
  to the next (`overtaken`, ota.c:123).  A handle used after its session is over
  writes into, commits or aborts the session of another (`strayed`).
* The status `WIFI_ERROR` is 0: as an answer that comes before the caller waits
  it is not seen, and the caller waits for ever (`lost`, wifi.c:440).
* `hermes_do_connect` waits for all of three bits and clears none: it always waits
  until the timeout, and a stale `WIFI_AUTH_ERR_BIT` ends later connects after one
  attempt: part of what known-issues.md:10 calls known sequencing problems.
* Hermes' calls of `esp_wifi` abort the firmware while the radio is off
  (wifi.c:288, 309).  An address that arrives after a disconnect connects all
  the same; enabling the radio dials whatever is wanted (`excused`).
* A start that fails is retried every second: the two seconds between attempts
  of architecture.md:108 hold only after a successful one (`StartFails`).

## 4. Proofs

The first part of `TaskLifecycleProofs` is about `PidTable`.  It proves for every
`NumPids >= 2` that the ring keeps its types
(`PidTypeCorrect`), never gives a PID twice (`PidsAreExclusive`), loses at most
one (`LossIsBounded`) and implements `PidPool` (`RingImplementsPool`).  The only
assumption is `NumPidsAssumption`.

None of the properties is inductive: a ring in which `head` and `tail` are
anywhere can lose PIDs without bound.  `PidInv` adds the shape of the ring.
From boot it is *behind*: `tail` trails the filled window by one slot, whose
PID the next lap of `tail` will overwrite; if all PIDs are handed out before
any is freed it is *drained*, and from there, or once the PID was overwritten,
it is *in step*, an ordinary ring that overwrites nothing as long as only PIDs
that are in use are freed.

The rest of `TaskLifecycleProofs` proves about `SafetySpec`, for any number of tasks, PIDs,
failures and kills and any length of the queues, that the variables keep their
types (`LifecycleTypeCorrect`), that the process table is exact
(`TableIsAlwaysExact`), that each death is reported to Hades exactly once
(`EveryDeathIsReportedOnce`) and that a PID is given back only when nothing
refers to it any more (`PidsAreFreedLast`).  `NumPidsAssumption` and
`LifecycleAssumption` are all it assumes.

The argument is that each PID in use is in one place.  `LifecycleInv` says which:
while Zeus builds, nobody has the PID he holds (`ZeusInv`); then exactly one
task has it (`TasksInv`), and the table shows the task from `ZeusPublish` on
(`TableInv`); once FreeRTOS has let go of the task the PID is in `hades_queue`,
once (`QueueInv`); then Hades holds it until the end of his round, with the task
and then without (`HadesInv`).  None of the four properties is inductive alone:
that Hades finds the task of a PID he receives needs the table, that the table
is exact needs that no two tasks share a PID, and that needs what Zeus and
Hades hold meanwhile.  Each action has a lemma, and what several
actions do (a change of a task's state, a death, a step of Zeus alone) is
proved once and cited.

`PidTable` was proved correct for callers that free only PIDs in use and never
the kernel's.  `TasksUseTheRingRightly` discharges that: every step of the whole
system is a step of `PidTable` or leaves the ring alone.  So `TasksSeeThePool`
carries the refinement of `PidPool` over to the system.

A second invariant, `BookInv`, rests on the first and keeps Zeus' and Hades' other
books; four theorems read it off.  `refcount` of a heap is at least the number
of tasks that share it, and exceeds it by the references of failed creations at
most (`CountsCoverUsers`).  `children` holds dead children, each once
(`ReportsTellTheTruth`): the task whose death Hades is about to report is in no such
queue yet.  `num_tasks` is never too low (`NumTasksIsEnough`): while Zeus is between
his load and his store Hades may only lower it, so what Zeus has loaded is no
less.  `HeapsOutliveUsers` holds with all that Hades may wait for: FreeRTOS has no
task left in a freed heap but the threads that were made in it while Hades destroyed
it (`late`).  `BookInv` has the reason: when Hades has counted to 0 nobody else shares
the heap, and no step but a creation adds a sharer.

The threads made in that window are what remains of `NoThreadFromDyingParent`, which
its run refutes.  `LateThreadsAreOfTheDead` says who gets them: a caller that FreeRTOS
has already let go of, whose request was still with Zeus, or such a thread itself.  So
no living task of any other origin can have one made.

Three more follow about the PIDs and the queue.  `PidsNeverLeak`: every PID that is
out is the kernel's or a task's, or Zeus builds its task, or Hades has still to free
it, wherever a creation failed or a task died.  With `RefusalIsExhaustion`, about the
ring, this gives `RefusalsAreDue`: Zeus refuses a task for want of a PID only when at most
one PID is in nobody's hands.  `QueueFillsWithTheDead`: each place of `hades_queue` is
taken by another dead task, so nobody, Hades included, waits for room before 16
of them are unreaped.

The other proof modules have one inductive invariant each, which TLC checked
on the bounds of section 3 before it was proved; the safety properties of the
run follow from it.  Each module's `ASSUME` (and `PagesAssumption`,
`WindowsAssumption` of the modules they share) is all they assume: bounds are
natural numbers, a command queue has room for one message and the queue of
events for two, `Nobody` and `NoTask` are no tasks, a table's entries have the
kinds `init.toml` can express and there is at least one.  No theorem fixes
the number of tasks, windows, places, pages, kills or messages.

* `CompositorProofs` (`CompositorInv`).  That `next` and `prev` are inverse is not
  inductive: two windows that each lead to themselves have such links, and a push
  into one of them leaves two rings.  `OneRing` says that some sequence goes
  around all windows in use; a push, a removal and a switch each give the sequence
  of the new ring.  Beside it `OwnersInv` has one owner of each window, `MessagesInv`
  one command in flight per task and where in the queue it is, `FreedInv` and
  `EnterInv` when a window enters the ring and when it may be freed.  From these: `RingStaysSound`,
  `CommandsAreInTime`, `RingIsAlive`.  `RingImplementsList` proves the refinement of
  `WindowList`.  The abstract list is a recursive function along `next`; that it goes
  around the ring is shown by well-founded induction on the index, with the set
  of counterexamples and its least element in place of an induction rule.
  Two theorems say how far promises that the Doc_ runs and section 3 show broken
  are kept.  `FreedUsesAreExplained`: a freed window is used only after a kill inside
  `window_destroy`.  `WindowsAreBounded`: the limit of `window_create` is passed by fewer
  windows than there are tasks.  Its invariant `RoomInv` counts with the windows the tasks
  (`Coming`) that found room and whose window the compositor has not counted yet; it
  assumes finitely many tasks, those that ever run; with others the bound has no number.
* `AddressSpaceProofs` (`AddressInv`).  The MMU code is safe because the ranges of a
  page list lie one behind the other below `thread->end`.  That needs one living
  caller of `why_sbrk` per process (`OneCaller`, which holds until two threads have
  met: `Orderly`), what a call under way has allocated and not yet published
  (`FullInv`), and the range a shrinking call has freed and not yet unmapped, which
  stays in the list if the task is killed there (`FreedInv`).  Each page then has one
  holder (`PageInv`).  `HeapIsShown`, `PagesHeldOnce`, `AbortsAreExplained`.
  `SharedPagesAreReturned` says what is true of the isolation that
  `Doc_SpacesAreIsolated.cfg` refutes: only pages that a `why_sbrk` has given back and not
  yet unlinked are in two lists, or mapped while free.
* `FramebuffersProofs` (`FrameInv`).  Three safety properties relate four kinds of
  state (places, pages, pointers, MMU entries) that a call changes in separate
  steps, so the invariant says for each step of each call who holds what.  The
  hard cases: a framebuffer made and not yet published; one being taken apart on
  the other core; the pages of a window whose owner was killed on the error path, which may or may
  not have gone back; and after a swap a mapping left in a place already given back.
  `PixelsShow`, `NothingLostOrShared`, `FaultsAreCaused`; from the last
  also that `framebuffer_swap` never aborts.
* `BuddyAllocatorProofs` (`BuddyInv`).  A *token* is a block with whoever has it: a free
  list, the waste list, a client that holds it, gets it or gives it back.  Blocks
  are aligned and on the side of the waste that their list says (`LegalInv`), each
  page is on exactly one token (`PartInv`), no two buddies are listed (`MergedInv`),
  lists have no duplicates (`UniqueInv`) and `max_order_free` is the top of them
  (`TopInv`).  None holds alone: that `try_merge_buddy` takes a whole buddy out needs the
  alignment and the partition, and that a merge leaves no two buddies
  needs that the loop stops only where no buddy is listed.  A split and a merge
  exchange tokens for others on the same pages, once each (`Exchange`).
  `BlocksPartitionPoolHolds`, `FullyMergedHolds`.  A second invariant, `CountInv`, says that
  until two updates overlap `free_pages` is what the clients' runs leave of the
  pool, at every step between a list and the count; with it come `CountsAreExactHolds`,
  `RefusedOnlyWhenFullHolds` and the refinement `AllocatorIsPageStore`.  These three have a
  hypothesis, `RequestsAreSmall`: no request is longer than the waste of its
  pool and one page more.  Without it a run could reach past the end of the
  pool, as section 3 says of `init_pool`.  The firmware meets it (1 page where the waste
  is 1, 33 where it is 113): `FirmwareAllocatorsAreSound` proves the three without it for
  `FirmwarePool`, these two.  The run meets it too.  Any set of pools of 2 to 512
  pages is covered, the firmware's two (512 and 400) among them, and any number of
  clients and of overlapping updates.
* `OtaSessionProofs` (`OtaInv`).  While `strayed` is false only who set `open` uses the
  session (`OwnerInv`); what is live in ESP-IDF, whose blocks are in the partition and
  what `error` says follow for each step.  `OneSession`, `FreshSessionsDoWork`.
* `HermesProofs` (`HermesInv`).  `connection_status` lags behind the link by the events
  in the queue, so the invariant is about the last of them (`NewsInv`): it says
  whether the link is up, and with no event queued the status does, but for the
  disconnect Hermes has in hand.  `StatusIsTrue`, `NoUnwantedLink`.
* `InitSupervisorProofs` (`InitInv`).  An entry knows its process while it runs, a
  report is of a process that is gone, and which entries may be due between the
  look and the start (`DueInv`); what NVS says and what has run agree up to the
  failures recorded (`OnceInv`).  `NoEntryTwice`, `OnceIsEnough`, `FirmwareIsGood`.  An
  entry with a PID has the process, or a report of its end is waiting, or it was
  answered the PID of a failed creation (`HeldInv`): `NoEndIsMissed`, the safety half
  of `EntriesAreServed`.

The attempts at these proofs changed the models in six places.  `Start` of
`Hermes` touched the link of a radio that was on already; `esp_wifi_start` does
nothing then.  `AddressSpace` remembered stale entries by page; a page can come
back in another place of the same list, so `Stale` has ranges.  An init
table has kinds of entries a file can describe (`Kind`), and at least one.  The
assumptions on the constants got names.  `FreeBlock` took a buddy out of its list
at every place where it stood; the code takes the first.  `Taken` needed brackets, as
two readers of the notation bind `UNION` differently.

The properties that only these theorems state (`NoPidLeaks`, `RefusedForWantOfPids`,
`OnlyManyDeadFillQueue`, `OnlyTheDeadGetLateThreads`, `HeldInv`, `SharedOnlyIfReturned`,
`FreedUseHasACause`, `FewMoreThanMaxWindows`)
held on the models of section 3 before they were proved; no configuration repeats that.

Only model-checked: all liveness.  `DeadAreReaped`, `RequestsAreAnswered`, `CallsReturn`,
`DeadLeaveNoWindows`, `DeadOwnersCloseTheSession`, `CallsAreAnswered` and
`EntriesAreServed` depend on fairness, which these provers do not reason about.

## 5. Plan

In order:

1. `FileTable` (handles, `why_open`, `why_close`, `why_dup`), `LogicalNames`,
   `PathFuncs` (recursive definitions in modules of their own, against reference
   definitions).
2. `Compositor` with processes of several threads (a window made by a thread that
   ends before its process keeps a dangling `task_info`), event queues and the
   blocking present; `Compositor` composed with `TaskLifecycle` for the wait of
   both queues on each other.

## 6. Not modelled

Drivers, Bluetooth, HTTP and TLS, drawing, and the vendored code (most of the
repository's lines): register traffic, wrappers and arithmetic with no protocol
of their own.  Of FreeRTOS only what `vTaskDelete` and the idle tasks do to a
dying task is modelled.  Component by component:

* `TaskLifecycle`: the loading of ELF files, the resource tables and file handles of
  a process, and the hook's branch for interrupts (no caller deletes a task from
  one).  What Hades waits for when he closes them is any time at all (`dying`).
* `Compositor`: events and injected keys, the blocking present's second
  notification, the start of the launcher, rotation, geometry.  `hades_queue` has
  room for the dead, so that the compositor's wait for it and Hades' wait for
  `compositor_queue` do not meet, and no property of a run speaks of that mutual wait.
  Whether a focused window is full-screen is left open.
* `AddressSpace`: `memory_init`, caches, and a partial shrink (increments are
  whole pages and the list holds single pages).  The reference count of the mapped
  task is never above one, as user tasks share core 1.  No call begins after two
  threads have met.
* `Framebuffers`: requests are made one at a time; the lists of pages behind a
  framebuffer are one page.
* `OtaSession`: the case without an update partition (the table has two slots),
  version and size queries.  After a commit a second session may erase the image
  chosen for the next boot; `image` and `boot` show whose blocks they are, not
  whether they are complete.
* `Hermes`: scan results, stored credentials, access point mode.
* `InitSupervisor`: parsing and merging of `init.toml`.  The clock does not jump: no
  code sets it.  A PID is not reused while its report waits, as the ring hands
  out more than a hundred others first; one that was answered after a failure may be.  Which entries are due is read once per
  loop.
