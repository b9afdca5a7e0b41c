# Verification of the QNX / BlackBerry 10 port of Chromium

This directory holds TLA+ models of the code that the port adds to Chromium, the
TLC configurations that check them on small instances, and theorems about them
that TLAPS checks for every value of the constants.

The repository is a patch set and a tree of new files. `src/src/` holds the files
the port adds (Ozone platform `qnx_screen`, GPU loader, BB10 chrome, `base/qnx`
shims, the shell's main program), `src/patches/qnx-port.patch` the changes to
upstream files, `src/patches/mp-gpu-navigation.patch` the changes of the
multi-process build on top of it, `src/deploy/` the launcher and the scripts.
Upstream Chromium is not in the repository: where the port calls it, it is modelled
from the way the port uses it, and `PROJECT.json` marks the definition external.

## 1. Inventory

| Component | State | Operations | Talks to |
|---|---|---|---|
| **TCP socket readiness** (`net/socket/socket_posix`) | the two pending operations, their libevent watchers, the two poll counters, the WeakPtrs of posted polls | Connect, Read/ReadIfReady, CancelReadIfReady, Close, libevent notifications, backup polls | thread pool (`select()`), IO thread task queue, libevent |
| **Message pumps and task queues** (`base/message_loop`, `base/task/sequence_manager`, libevent `select.c`) | incoming/work queues, "work scheduled" bits, the wake-up event or pipe | PostTask, ScheduleWork, DoWork, OnWakeup, bounded waits | every other component |
| **Ozone platform `qnx_screen`** (`ozone_platform_qnx_screen.cc`) | screen context, surface factory, event source, overlay/input components | InitializeUI, InitializeGPU, GetSurfaceFactoryOzone, destructor | GPU thread, libscreen |
| **Windows** (`qnx_screen_window*.cc`) | native window, bounds, visibility, the manager's map, dispatcher list | create, Show, Hide, SetBounds, ClaimKeyboardFocus, Close, destructor, DispatchEvent | event source, surface factory, window manager |
| **Surfaces** (`qnx_screen_surface_factory.cc`, `qnx_screen_gl_ozone_egl.cc`) | canvases holding a window pointer, EGL display/context | CreateCanvasForWidget, PresentCanvas, LoadGLES2Bindings | windows, libscreen, EGL |
| **Event source** (`qnx_screen_event_source.cc`, `qnx_screen_repaint.cc`, callbacks) | BPS initialised flag, timer, repaint flag | PollEvents, touch, key, navigator events, RepaintToolbar | Navigator (BPS), windows, browser chrome |
| **GPU loader** (`gpu/qnx/gpu_qnx.cc`) | library handles, function pointers, EGL display, screen context | EnsureScreenContext, InitializeGpuLibraries, InitializeEglDisplay, WarmUpEglEarly, ProbeGpuContext, ShutdownGpu | libscreen, libEGL, main program |
| **Browser chrome** (`berry_browser_chrome.cc`, `shell_platform_delegate_qnx.cc`) | url, edited text, editing flag, committed url, loading and history flags | the delegate's CreatePlatformWindow, CleanUp, ResizeWebContent, SetAddressBarURL, EnableUIControl, SetIsLoading; SetUrl, OnChar, OnBackspace, OnEnter, HitTest, Paint | event source, WebContents |
| **Shell main program** (`shell_main.cc`) | trace/daemon flags, log redirection, signal handlers, boot watchdog | main, SIGUSR1 and SIGSEGV handlers, watchdog thread | GPU probe, launcher |
| **Launcher** (`deploy/berry-shell-bar/launcher.c`) | resolved directories, environment, argv | resolve, redirect log, exec | shell main |
| **eventfd emulation** (`base/qnx/qnx_platform.h`) | a table of pipe pairs | eventfd, write, read, close | IPC channels |
| **File watcher** (`base/qnx/files_qnx.cc`) | 64 watch slots with mtime and size | Add, Remove, Poll | callers that poll |
| **Process, memory and thread shims** (`base/qnx/{process,memory,threading}_qnx.cc`) | a counter for shared memory names, descriptors a call has open | exe path, memory statistics, SpawnProcess, CreateAnonymousSharedMemory, priorities | procfs, shared memory, children |
| **Child processes** (`child_process_launcher_helper_qnx.cc` in `mp-gpu-navigation.patch`) | the descriptor map of the child, the file actions | list descriptors, add dup2 and close actions, `posix_spawn()` | the browser's other threads, the child |
| **Navigation commits** (`navigation_request`, `render_frame_host_impl`, `navigation_client`, `render_frame_impl`) | pending commit, deadline timers | commit, retry, deadline | renderer over Mojo |
| **Switch forwarding** (`shell_content_browser_client.cc`) | command lines | copy QNX switches to children | child processes |
| **Net and Blink workarounds** (`http_util`, `http_chunked_decoder`, `http_stream_parser`, `html_document_parser`, `url_parse`) | parser positions | manual searches replacing `find_first_of`, DOCTYPE rewriting | - |
| **Stubs, build files, scripts** | none | - | - |

### What is hard here

* *Two sources of progress for one operation.* libevent does not report TCP sockets
  reliably on QNX, so the port polls as well. The poll and the watcher race, polls
  outlive the operation they were posted for, and a poll that gets lost is a hang.
* *Wake-ups that may be lost.* `WaitableEvent::Signal` and pipe readability can be
  dropped; the port wakes the pump unconditionally and bounds every wait.
* *Two threads, one screen context.* The surface factory is created on first use by
  whichever thread comes first, and windows are touched by the event source, the GPU
  thread and the owner.
* *Flags consumed before the work.* Repaint requests, toolbar hits and committed
  URLs are taken from a cell and then acted upon, or not.
* *Tables of a fixed size* (file watches, emulated eventfds) whose slots outlive
  their owners.

Each of these is an entry of `hazards` in `PROJECT.json`, at the line where it bites.

### What makes each component correct

* *Sockets.* A pending operation always has a poll on its way, only its own poll can
  end it, it is completed once, and it is timed out only after its whole budget.
* *Pumps.* Posted tasks run once, in order, and no later than a bounded wait allows.
* *Ozone platform.* All threads, the event source and the windows share one manager
  and one factory, created once; the code promises it "regardless of which thread" and has no lock.
* *Windows, surfaces, event source.* No pointer outlives a window, a frame fits its
  buffer, input goes to what is on the screen, no repaint is lost, the Navigator is
  answered.
* *Child processes.* The child has the files it was given and no other.
* *GPU loader.* No call goes through a null pointer or into a library that was closed, and
  closing never unmaps the libraries that the GL bindings were loaded from.
* *Browser chrome.* Enter commits what the bar shows, the page does not disturb typing,
  and no point hits two things.
* *Boot.* The watchdog ends a hung one-shot start and no daemon; one process owns the
  display; the temporary directory is writable; no process overwrites another's log.
* *eventfd, file watcher.* Each implements what it replaces: a counter, a watch.
* *Shims.* No descriptor is lost or shared by two callers; a child gets its standard files
  and no shared memory it was not given.
* *Navigation commits.* A commit is delivered once and in order, whatever the renderer's
  process does while the browser waits for it.

## 2. Plan

Done, in this order (the most used and most concurrent code first):

1. `PendingOps`, `SocketPosix`: the promise of a pending operation and the sockets.
2. `TaskRunner`, `MessagePump`: the promise of a task queue and the pumps.
3. `OzoneInit`: start-up of the platform.
4. `QnxScreen`: windows, surfaces and the event source together, since what is hard in
   each is what another does meanwhile.
5. `ChildLaunch`: the launch of a child.

6. `GpuLibs`: libraries, handles and entry points over every sequence of initialisation,
   failure and shutdown, beside the GL thread.
7. `Boot`: launcher, redirections, probe, watchdog and the children's share of them.
8. `EventCounter` and `EventfdEmul`, `FileWatch`: what is replaced and what replaces it.
9. `BerryChrome`: keys, taps and page events in any order.
10. `BaseShims`: the system calls of the process and memory shims, and a restart.
11. `MCParts`: the components that share no state side by side, in one run.

Left, should the models be extended:

12. Gestures in `QnxScreen` (a press, its moves and its release), with a callback whose
    answer depends on the position, and the choice of the display buffer, for what the
    panel shows after a frame and a toolbar were posted.
13. `OzoneInit` and `QnxScreen` composed, so that windows are created while the GPU
    thread asks for its factory.
14. The launch of a child whose remaps overlap, and the launch of several children.
15. Measures for the liveness properties: what each step of a pending operation, a hung
    start or a toolbar request uses up, as action properties that can be proved where the
    properties themselves cannot.

## 3. The modules and the code

A step is one stretch of code that no other modelled thread can observe in part: a task,
a callback, the code between two accesses to shared state.
`PROJECT.json` gives the source lines of every definition. The operators commented
"Faulty variant" are plausible bugs, used by no specification: each shows that a
property notices it.

### SocketPosix (`net/socket/socket_posix.*` in `qnx-port.patch`)

| Model | Code |
|---|---|
| `waitingConnect`, `readCb` | `waiting_connect_` with `write_callback_`; `read_if_ready_callback_`, which is the owner's or `RetryRead` |
| `writeWatch`, `readWatch` | the two libevent watchers |
| `connectCount`, `readCount` | `qnx_connect_poll_count_`, `qnx_read_poll_count_` |
| `poll`, `live`, `connectPoll` | the posted tasks and `select()` calls of each arming, and whether their WeakPtr is valid |
| `Connect`, `ConnectAtOnce`, `ReadIfReady`, `ReadAtOnce`, `CancelReadIfReady`, `Close` | the owner's calls |
| `OnFileCan...WithoutBlocking` | libevent's notifications |
| `QnxPollForConnect` | the delayed task: `PollSeesConnect`, `PollMissesConnect`, `PollGivesUpConnect` |
| `QnxPollForRead`, `SelectStarts`, `SelectReturns`, `QnxReadSelectDone` | the hop to the pool and back; its outcomes are `SelectSaysReady`, `SelectExpires`, `SelectGivesUp`, `SelectFails`, `DropSelect` |
| `RunReadCallback` | the callback of the whole chain: for a `Read` it is `RetryRead`, which reads and may arm again |

`PendingOps` states what the caller relies on. `Connects` and `Reads` instantiate it;
`silent` is a history variable that counts the expired selects of the current arming.
Bytes are a Boolean (`readable`): how many there are is the caller's business.

### MessagePump (`message_pump_default.cc`, `message_pump_libevent.cc`, `task_queue_impl.cc`, libevent's `select.c`)

| Model | Code |
|---|---|
| `incoming`, `working` | `immediate_incoming_queue`, `immediate_work_queue` |
| `PushTask`, `ScheduleWork` | the two halves of `PostImmediateTaskImpl`: under the queue's lock, and after it |
| `event` | the `WaitableEvent`, or a byte in the wake-up pipe |
| `DoWork`, `RunTask`, `Refill` | one `DoWorkImpl` with the swap of the queues |
| `PollEnds`, `DefaultWaits`, `Sleep`, `OnWakeup`, `WaitEnds` | the loop of `Run()` for either pump (`Kind`) |
| `due`, `left`, `stall` | the delayed task, the rest of the current wait, and (history) the ticks slept with a task overdue |

Time passes only in `Tick`, while the pump sleeps. `Cap` ticks are the 50 ms of the code;
a wait of `NoDelay` ticks never ends. `TaskRunner` is the abstract queue.

### OzoneInit (`ozone_platform_qnx_screen.cc`)

`EnsureSurfaceFactory` is split at each access to `window_manager_` and
`surface_factory_`. Pointers are numbers in order of allocation, so a pointer that was
replaced is recognisably another one. The code takes no lock, so the steps of any threads
interleave. `raced` is a history: it becomes true when a thread finds the factory
missing while another one is creating it. `CreatedOnce`, the comment's promise, fails
then (`ozone_init_overlap`); `OneManager` says that nothing else can do harm.

### QnxScreen (`qnx_screen_window*`, `_surface_factory`, `_gl_ozone_egl`, `_event_source`, `_repaint`)

| Model | Code |
|---|---|
| `alive`, `native`, `visible`, `onScreen`, `bounds` | the objects, `screen_window_`, `visible_`, the native `VISIBLE` property, `bounds_` |
| `windows`, `dispatchers`, `focus` | the manager's map, the dispatcher list, the group's keyboard focus |
| `compositor`, `canvas`, `egl`, `frame` | who may ask for surfaces, the surfaces with their window pointer, and the frame between the overlay callback and `screen_post_window` |
| `queue`, `unanswered`, `input` | BPS events, orientation requests not yet answered, who got the last touch or key |
| `ui` | where `PollEvents` is: draining, painting, posting |
| `toolbar`, `asked`, `requested`, `painted`, `skipped` | what the overlay shows, `g_repaint_requested` and histories of it |
| `CreateWindow` ... `DestroyWindow` | the constructor with and without a native window, `Show`, `Hide`, `SetBounds...`, the destructor |

`DestroyCompositor` is upstream's: the host destroys its compositor, and waits for the
compositor's thread, before its window. Without it `PointersLive` would not hold: the
surfaces keep raw pointers and are not told of the destruction. `ResizeCanvas` takes any
size, as the code does. `beyond` is a history of the canvases whose compositor asked for
more rows than the window's bounds; `RowsFit` holds for all others, so it is about
the sizes the shell gives a window, not about that caller.

### ChildLaunch (`mp-gpu-navigation.patch`, `child_process_launcher_helper_qnx.cc`)

| Model | Code |
|---|---|
| `remaps`, `closes` | `options->fds_to_remap`, the `addclose` actions |
| `AddFileActions`, `AddFileActionsUnlisted` | building the actions; `AddCloseSuperfluousFds` returns early if `/proc/self/fd` is unreadable |
| `table`, `cloexec`, `OtherThreadOpens`, `OtherThreadCloses` | the browser's descriptors, which its other threads go on changing |
| `SpawnCopies`, `OpenStdin`, `ApplyRemap`, `CloseSuperfluous`, `Exec` | `posix_spawn()`: the copy of the table, the actions in the order in which they were added, the close-on-exec descriptors |
| `SpawnFails` | the branch for `spawn_rc != 0` |

An open file is named by the descriptor the browser had for it when the launch began, so
"the child has the right file" is an equality. `Early` and `Late` are files that other
threads opened before and after the listing. `Descriptors` holds these names.

### GpuLibs (`gpu/qnx/gpu_qnx.cc`, `qnx_screen_gl_ozone_egl.cc`)

| Model | Code |
|---|---|
| `exports` | which entry points the driver has; constant in a behaviour |
| `refs` | the references `dlopen` counts for each library in this process |
| `handles`, `loaded`, `context` | `g_screen_lib`, `g_egl_lib`, `g_gles2_lib`; the `pfn_` pointers; `g_screen_ctx` |
| `op`, `pc` | the function of `gpu_qnx` that runs, and the call it makes next |
| `Call` | the entry of each function with the pointers it checks |
| `OpenEgl`, `OpenGles`, `Resolve` | `InitializeGpuLibraries` |
| `EnsureScreenContext`, `CallEgl`, `PrintInfo`, `ShutdownGpu` | the rest of `InitializeEglDisplay`, `WarmUpEglEarly`, `ProbeGpuContext`, `PrintGpuInfo`, `ShutdownGpu` |
| `GlThreadStarts`, `LoadEgl`, `LoadGles`, `GetNativeDisplay` | the GL thread's own `EnsureScreenContext` and `LoadGLES2Bindings`, which never give a reference back |

Every call may fail. Entry points are grouped by what the code does with a missing one.

### Boot (`launcher.c`, `shell_main.cc`, `shell_content_browser_client.cc`)

| Model | Code |
|---|---|
| `given` | all that distinguishes a start: over SSH or by the Navigator, switches, variables, files and directories |
| `ChooseWorkDir`, `RedirectLog`, `Exec`, `ExecFails` | `main()` of the launcher |
| `ReadArguments` ... `ContentMain` | `main()` of `content_shell`, in the browser and in each child |
| `Forwarded`, `LaunchChild` | `AppendExtraCommandLineSwitches`; a child inherits environment and descriptors |
| `out`, `lines`, `log`, `offset` | the description behind stdout of each process, the lines written, the file, and the position of the launcher's description, which was opened without `O_APPEND` |
| `watchdog`, `Commit`, `WatchdogFires` | the boot watchdog thread and its cancellation by the shell |
| `Crash`, `WriteLine` | the fault handler; a line of the program or of the SIGUSR1 handler |

A switch, a variable or a fact about the device is a name; a name stands for the values
that have its effect. "no directory" stands for an `argv[0]` without a slash or with too
long a directory, where `main()` does not look for `berry-daemon.mode` (`MarkerFound`). The
children have the browser's `argv[0]`: it is what `CHROME_EXE_PATH` names.

### EventfdEmul and EventCounter (`base/qnx/qnx_platform.h`)

`EventCounter` is what the users of `eventfd()` rely on. `EventfdEmul` has the pipes (`pipe`, `queue`),
the kernel's reuse of the lowest descriptors (`kind`), and the table of write ends. The
table is a `static` of a header, hence one table for each translation unit
(`table[u]`, `maker`), although its comment calls it global (`qnx_platform.h:106`). Any unit may
write to any descriptor, by its own table.

| Model | Code |
|---|---|
| `filled`, `FindUnfilled`, `Fill` | `qnx_efd_init_table`: a test of a plain flag, then the stores to the entries and the flag. They are not ordered, so each becomes visible in a step of its own, in any order |
| `raced` | history: units of which two fills, or a fill and an `eventfd()` that already saw the flag, overlapped |
| `eventfd`, `eventfd_write`, `eventfd_read` | the functions; every call is preceded by the test of the flag |
| `CloseEventfd`, `OtherOpens`, `OtherCloses` | callers and other code of the process |

A write fails if it meets a full pipe or goes to the read end. The abstract counter may
refuse one only when it is full, and may *lose* one only where the code has no defence:
the writer is another unit than the maker, or the maker's table had a raced fill. A stale entry
does no harm: nothing removes it when a descriptor is closed, but the number comes
back either from `eventfd()`, which overwrites the entry, or as something nobody
writes to as an eventfd. A read takes one write and not the sum, which `EventCounter` allows.

### FileWatch (`base/qnx/files_qnx.cc`)

`watches` is `g_watches[0 .. g_watch_count - 1]`; a file is what `stat()` tells of it plus the number of the
change that made it (`change`), which the code cannot see and the property can. `NoFile`
is told as a zeroed buffer, because `Add` does not look at the result of `stat()`. Changes
carry the time at which they are made: a rename or `utime()` that brings an older time back
is outside the model.

### BerryChrome (`berry_browser_chrome.cc`, `shell_platform_delegate_qnx.cc`)

`chrome[s]` is the object of shell `s` with all fields but the pixels, `view[s]` the size last given to
the web content, `told[s]` (history) whether the page has told its URL since the last
Enter. Rectangles are those of the constructor, with the extents clamped as `gfx::Rect` does.

### BaseShims (`process_qnx.cc`, `memory_qnx.cc`)

A call of a thread is a walk through its system calls (`pc`), each of which may fail.
`counter++` of a plain static is a read and a write, so two threads may make the same
name. `Restart` is the death of the process and a successor with the same id, for
which the shared memory names that were not yet unlinked are still there.
`SpawnProcess` is the child's table after the three `dup2` and the exec: what
`shm_open()` made is close-on-exec and gone, its `dup2` copies and the files of `/proc`, which
are opened without the flag, stay.

### MCParts

In a behaviour one component moves and the others stay as they start, so one run
explores each of seven components completely and none of their products. The mapping
from `EventfdEmul` to `EventCounter` stands here: a descriptor of the table counts the sum of what is in its
pipe, and is closed when it is no read end.

## 4. What the runs check

| Run | Shows | Bounds |
|---|---|---|
| `socket` | types; pending operations stay polled, by their own poll only; both promises (refinement of `PendingOps`) | 1 socket, 3 armings, the real 12 selects, 3 connect polls, 1 pool thread |
| `socket_live` | with cancellation and signals: watchers match callbacks, and every pending operation ends although polls of cancelled reads compete with its own | 1 socket, 3 armings, 2 selects, 1 connect poll, 1 pool thread |
| `pump_libevent` | types, no lost wake-up, stall of at most 50 ms, order of tasks (refinement of `TaskRunner`) | 2 posters, 4 tasks, waits of 2 ticks, delayed tasks 5 ticks off |
| `pump_live` | every task runs although every signal may get lost (refinement of the fair `TaskRunner`) | 2 posters, 3 tasks |
| `screen` | pointers, rows, repaint requests, routing of input, answers to the Navigator whatever is queued before them | 2 windows, 3 events, 2 toolbar changes, 4 of these together (`MaxWork`), sizes below and above the panel |
| `parts` | start-up: one manager and one factory unless two threads create them at once; `GpuLibs`: no wild call, bindings stay mapped; the eventfd is a counter (refinement of `EventCounter`); the watcher; the toolbar; the shims; a launched child's files | main and 2 helpers; 3 references, 7 drivers; 2 units, 2 threads, 2 fills or races of them, 4 descriptors, table of 2, pipes of 2; 2 files, 2 watches, 2 seconds, 3 changes; 1 shell, texts of 2; 2 threads, 3 memory objects, counter to 2; 5 as largest descriptor, 2 remaps, 2 changes |
| `boot` | one owner of the display, a usable temporary directory, no daemon ended, the browser's lines kept, a hung one-shot start ends | 1 child, up to 4 departures from the default start, 3 lines |
| `socket_doc_connect`, `socket_doc_signal`, `pump_doc_delayed`, `ozone_init_overlap`, `boot_log` | the five findings below | as small as the counterexample allows |

*Why the bounds are enough.* Sockets share no state but the pool threads, and the armings
of one socket compete for a pool thread as two sockets would; three armings give a stale
poll, the pending one and a next one. The budgets appear only in comparisons, and the
read budget of `socket` is the real one. Two posters race each other and the thread itself; four tasks
fill both queues and refill once. Two windows give routing a choice and a destroyed
window beside a live one; three events let both requests of the Navigator wait behind
another one, and `MaxWork` only cuts behaviours that have most of everything at once. Libraries: a third reference is taken only in a third
initialisation, when both threads hold theirs already. eventfds: one table of two
beside four descriptors gives numbers inside and outside of the table, and reuse of
either; two fills let both units fill theirs, or one be filled by two threads. Watches: the third is refused as the 65th is, and two seconds tell a change in the second of a look from a later one. Boot: each
property depends on at most three settings, and four allow one that should not matter.
Shims: two threads race for the counter, and three objects let one be left over by a
dead process. Two remaps make every overlap of sources and
destinations, and six descriptors leave room for the standard ones, both remaps and
a descriptor that neither uses. The theorems hold for all values.

*Deadlock* is checked in all passing runs but four: a closed socket has nothing left to do
(`socket`, `socket_live`), a start-up and a launch end (`parts`), and a browser and its
children may all be dead (`boot`).

*Fairness.* `SocketPosix`: the IO thread runs what was posted to it, a `select()` with a
limit returns, and the pool serves its queue in order, so a queued `select()` is not
overtaken for ever (strong fairness, because a free thread may be taken by another poll).
libevent, the network and the owner owe nothing: the port exists because libevent does not
report. `MessagePump`: the thread is scheduled, and sleeping ends by time or by a wake-up;
a wake-up alone owes nothing. `QnxScreen`: `PollEvents` is a `RepeatingTimer` of 8 ms on
a thread that keeps running; surfaces and delegates owe nothing. A drain ends because
the events of a behaviour are bounded, that is, it is assumed that the Navigator does
not send faster than the drain reads. `Boot`: up to the watchdog `main()` is straight-line
code and a timer expires; `ContentMain` and everything after the watchdog may hang, which is
what the watchdog is for. `parts` states no fairness, because it checks safety only.

### Where the code and its texts disagree

* `socket_doc_connect`: connects are polled with a `select()` of zero timeout, which the
  README says does not detect readiness on QNX; `docs/QNX_BB10_STATUS.md` says
  connects use the thread pool. An established connection can then be reported as timed out.
* `socket_doc_signal`: a thread dump (SIGUSR1 to every thread) interrupts a `select()` on
  the pool, and the IO thread maps its own stale `errno`: a read may be completed with
  `ERR_IO_PENDING`.
* `pump_doc_delayed`: `MessagePumpDefault` bounds its wait only if no delayed task is
  pending, so a dropped signal may cost as long as that task is away.
* `ozone_init_overlap`: "exactly once, regardless of which thread reaches it first" does not
  hold for two threads that reach it together.
* `boot_log`: children append to the log as `shell_main.cc:183` says, but the browser writes
  at the offset of the description the launcher opened without `O_APPEND`, over what they appended.

Smaller disagreements, visible in the models but given no run:

* The read budget is 12 selects of 5 s; the README of the repository says 6x2 s.
* `shell_main.cc:272` announces "Force-override TMPDIR/HOME"; HOME is set only if it was unset (line 283).
* `launcher.c:200` says that children are launched with `base::LaunchProcess`; they are launched with
  `posix_spawn()`.
* Over SSH `QNX_GPU_PROBE` is inherited by renderers, which then initialise EGL although
  `shell_content_browser_client.cc:436` says they must not; `DisplayOwners` excepts this case.
* The "global table" of `qnx_platform.h:106` is one for each translation unit, so a write by a unit that
  did not make the eventfd is mostly lost, and its "max 64" is a table of 256.
* `shell_main.cc:262-264` says that "all daemon signals are force-enabled above"; the marker is
  not looked for where `argv[0]` has no slash or a directory of more than a thousand characters.
* `process_qnx.cc:97-105`: a stream asked for from 0, 1 or 2 gets what an earlier `dup2` put there.

## 5. What is proved

Eight modules of theorems, checked by TLAPS for all values of the constants under the named
assumptions (natural numbers, positive where the code's constants are, Booleans for the
switches of the environment).

* `SocketPosix_proofs`: `SocketInv` = types, watchers match callbacks, pending operations are polled, and
  `PendingOpsHaveBudget`. The last one is needed because giving up is decided by the
  counter: a pending read must have an existing, connected socket, an arming, and
  budget left. From it `TypeCorrect`, `WatchersCorrect` and `NoLostWakeup`, the latter with cancellation
  and signals. `OnePollAtATime` needs an owner that does not cancel: a cancelled read
  leaves its poll behind. `OneReadPoll` adds that every expired select is one of the pending arming.
  Its second half is the refinement of `PendingOps`, step by step: for connects without
  conditions, for reads without cancellation and signals. Both conditions are sharp: with
  cancellation two polls spend one budget, with signals the result is `ERR_IO_PENDING`.
* `MessagePump_proofs`: `TypeCorrect`; `OrderKept`, the refinement of `TaskRunner` without fairness;
  `WakeupsSuffice` for the pipe always and for the event while no signal is lost;
  `StallsAreBounded` for the pipe always and for the event without delayed tasks. The
  inductive invariant `SleepAccount` says that what was slept and what is left of the sleep fit into the
  limit, and that a poll slept through has left its byte in the pipe, so that the wait
  after it ends at once.
* `OzoneInit_proofs`: `OnlyTheRaceHarms`, for any number of threads and every interleaving: while `raced` is
  false, at most one thread is creating (`OneCreating`) and what each thread knows at its point of the
  function still holds (`Knows`); together with `OneManager` that is `Serial`. `FactoryIsThere` needs no
  such condition: even racing threads never return without a factory (`Left`).
* `QnxScreen_proofs`: `ScreenInv` = types, `WindowInv` (map and dispatcher list are exactly the native
  windows; drawn windows have a compositor; no window exceeds the panel, and a canvas only if it is in
  `beyond`) and `ToolbarInv`.
  From it the five theorems on pointers, rows, routing, repaint requests and types. `RequestsQueued`
  is inductive beside the types: an orientation request leaves the BPS queue only by its answer, and
  the queue is always the last events sent, in order (`RequestsWaitInQueue`).
* `ChildLaunch_proofs`: `LaunchInv` = types, `BrowserInv` (the browser keeps the files it hands over;
  what is open and not listed was opened late) and `ChildInv` (the copies made so far stand; a source not yet copied is
  intact unless an earlier copy overwrote it). From it `FilesDelivered`, `ListedAreGone` and `TypeCorrect`.
* `GpuLibs_proofs`: neither property is inductive, because `gpu_qnx` keeps no count of its own. `IInv`
  compares `dlopen`'s counts with what relies on them: a handle of libGLESv2, or a
  pointer whose absence would start a new initialisation, stands for a reference
  besides the GL thread's (`Owned`); libEGL has at least as many references as libGLESv2, and one
  more for each thread between the two (`Balanced`); a function past its checks has its entry
  points (`Checked`). From it `CallsGoSomewhere` and `BindingsKept`, for any driver and any number of references.
* `Boot_proofs`: four invariants carry a decision from where it is made to where it
  matters, for any number of children, settings and lines: `LogInv` (the browser's lines are
  a prefix of the log up to the offset, and a child leaves the launcher's description before it
  writes), `TmpInv` (no child before the directory is settled), `DisplayInv` (after the launcher
  the probe is off and no GPU process can be launched) and `DaemonInv` (each way to ask for
  the daemon mode that can be seen was looked at before the watchdog is armed). From them `TypeCorrect`,
  `BrowserLinesSurvive`, `OneDisplayOwner`, `TmpIsUsable` and `DaemonsSurvive`. `WatchInv` is the other
  direction of `DaemonInv`: the browser is a daemon only if something asked for it. From it
  `OneShotsAreWatched`, so the watchdog can neither hit a daemon nor miss a one-shot start.

* `Parts_proofs`: the properties of the run `parts`, for `PartsSpec`. Since one part moves while the
  others stand still, a behaviour of the composition is one of each part (`LibsRun` to
  `ShimsRun`); what is proved of `GpuLibs`, `ChildLaunch` and `OzoneInit` carries over by
  instantiating their theorem modules or, for `OzoneInit`, extending it. The other four parts are proved here:
  * `FileWatch`: `OnlyTheSameSecondIsMissed`. `LookInOrder`: a watch stored no time later than that of its
    look, and a file that changed since the look changed no earlier. `AnswerFitsFile`: "no change" was
    answered of a file that is there and looks as what is stored.
  * `BerryChrome`: `ShownIsCommitted` from `ShownIsNext` (outside of editing, once the page has told
    its URL, the text is that URL); `OnlyKeysType`, an action property, from one lemma for each
    event; `NoTwoAreHit` is arithmetic on the rectangles for every width and height.
  * `BaseShims`: `DescriptorsHaveOwners`. Ownership alone is not inductive: `HeldWhileRunning` ties what a
    call holds to the system call it is at, `StdioStays` keeps 0, 1 and 2 out of every
    call's hands, and `OneDescriptorEach` needs that objects still to be made have larger numbers than
    any open now. `SpawnedWithWhatWasGiven` follows the three `dup2` (`OneDup`) and needs `KindsKnown`:
    what is returned to callers is always shared memory, so the exec closes it.
  * `EventfdEmul`: `EventfdIsCounter`, the refinement of `EventCounter`. `EfdWired`: every read end has a
    write end to itself. `EfdTables`: whatever a unit's table has for a descriptor leads to no other
    one (0, which a table starts with, is never a write end). `EfdKept`: a unit that has made an
    eventfd has its table filled and, if its fill was not raced, no store of the fill still to
    come and the write end in the descriptor's entry. So what moves in one
    pipe moves in no other (`OnlyItsPipe`) and each operation changes one count (`OneCountChanges`).
    A count is the sum of a pipe's writes, a function defined by recursion; that the sums
    exist and what `Append` and `Tail` do to them is shown by induction. The library's
    induction theorem takes an operator and cannot be used, but well-foundedness of `<`
    gives a least number outside of any set (`Minimum`), hence `Induction` over sets.
  * `PartsKeepTheirTypes`: all six invariants together.

The assumptions of `MCParts` are named there: bounds are natural numbers, the table may
have any size, a pipe holds one write at least, and some unit calls `eventfd()`.

*Only model-checked*: liveness (`PendingReadEnds`, `PendingConnectEnds`, `TasksRun`, `OrientationAnswered`,
`ToolbarShown`, `DumpDomBootEnds`), which the proof system cannot treat under fairness. What each of
them needs besides fairness is proved: `PendingOpsArePolled`, `WakeupsSuffice`, `RequestsKept`,
`RequestsWaitInQueue` and `OneShotsAreWatched`. Every other property of a passing run is stated by a theorem.

## 6. What is not modelled

* *Navigation commits.* The waiting loops are additions to upstream code that is not in the
  repository. What a task in a nested loop may destroy, and in which order commits arrive, is
  decided by that code; a model would state assumptions about it and not the program.
* *Net and Blink workarounds.* Replacements of string functions inside parsers whose other code
  is not in the repository. *Stubs, build files, scripts*: no state.
* *Thread priorities, `mprotect`, statistics of the system*: single calls without state here.
* The off-screen surfaces and the creation of GL contexts: they keep no window.
* The coordinates and buttons of touches and the key table: routing does not depend on
  them. The contents of frames: only rows count.
* The choice of the display buffer and what is on the panel when a frame and a toolbar
  are posted one after the other.
* Torn accesses to `windows_`, a `std::map` shared by two threads: a lookup is one step.
* How many polls of its own a read gets when the poll of a cancelled one still counts with it, and the
  time a backlog of tasks takes: the two hazards of this kind have no property.
* A `chdir()` or `mkdir()` that fails after the check of its directory (`launcher.c:113`,
  `shell_main.cc:282`), which the code ignores: `TmpUsable` is about the choice of the directory.
* The error of a failing trace write between `read()` and `MapSystemError`, and descriptors beyond
  `FD_SETSIZE`: a poll is identified by its socket.
* A remap whose source was overwritten by an earlier dup2: the code does not order
  its copies, and `ChildGetsItsFiles` speaks of the others. (`ChildHasWhatItWasGiven` says what
  a child of `SpawnProcess` has in that case.)
* The arguments and the environment a launched child is given, except for the switches and
  variables of `Boot`.
