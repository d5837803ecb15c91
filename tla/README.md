# Specifications of the Wi-Fi access point binding

TLA+ models, TLC runs and TLAPS proofs for `wifiap-binding`, the AFB binding that turns
a Linux box into a Wi-Fi access point. The binding is a shared library loaded by the
application framework binder. Its verbs write configuration files, run a shell script
that launches `hostapd` and `dnsmasq`, and keep one thread that reads `iw event` and
tells subscribers which stations come and go.

Paths below are relative to the root of the repository (`src/wifiAp.c`, ...);
`PROJECT.json` maps each definition to the lines it models.

## 1. Inventory

### Components

| Component | Code | State it keeps | Operations |
|---|---|---|---|
| Thread library | `src/lib/wifi-ap-thread.c` | list of `thread_Obj_t`, `Mutex`, per object: state, joinable, destructors, handle | `CreateThread`, `setThreadJoinable`, `addDestructorToThread`, `startThread`, `cancelThread`, `JoinThread`; inside the pthread `PThreadStartRoutine`, `CleanupThread` |
| Access point control | `src/wifiAp.c` | `wifiApData->status`, `wifiApThreadPtr`, position inside each running verb | `start`, `stop`, `restart`, `startAp`, `setDnsmasqService` |
| Parameters | `src/lib/wifi-ap-data.c`, setters of `src/wifiAp.c` | the fields of `wifiApT` | `setSsid`, `setChannel`, `setIeeeStandard`, `setPassPhrase`, `setPreSharedKey`, `setIpRange`, ..., `createWifiApData` |
| Configuration files | `src/lib/wifi-ap-config.c` | `/tmp/add_hosts`, `/tmp/dnsmasq.wlan.conf`, `/tmp/hostapd.conf` | `createHostsConfigFile`, `createDnsmasqConfigFile`, `GenerateHostApConfFile` |
| Script and daemons | `scripts/wifi_setup.sh` | the daemons, the files | `WIFI_START`, `WIFI_STOP`, `WIFIAP_HOSTAPD_START`, `WIFIAP_HOSTAPD_STOP`, `WIFIAP_WLAN_UP`, `DNSMASQ_RESTART`, `WIFI_(UN)SET_EVENT` |
| Event reporting | `src/wifiAp.c` | the pipe of `iw event`, the counter of clients | `WifiApThreadMainFunc`, `threadDestructorFunc` |
| Initialisation | `src/wifiAp.c` | - | `binding_ctl`: parameters, `startAtInit` |
| Queries, subscription | `src/wifiAp.c` | one event, a static `FILE *` | `getWifiApStatus`, `getAPnumberClients`, `subscribe`, ... |
| Conversions, replies | `src/wifiAp.c` | - | `get_single_*`, `*_set`, `reply_*` |
| Utilities | `src/lib/wifi-ap-utilities.c` | - | `utf8_Copy`, `utf8_Append`, `toCidr`, `checkFileExists` |
| Network Manager, firewalld | `src/wifiAp.c` | - | conflict resolution at init, results only logged |

### How they interact

* The binder calls a verb in one of its worker threads. The binding sets
  `noconcurrency = 0`, so several verbs may run at once. The C statics (`wifiApData`,
  `wifiApThreadPtr`, `threadList`) are shared by all of them. Only two pieces of code are
  protected: the test and the write of the status (`status_mutex`) and parts of each
  library function (`Mutex`).
* `startAp` runs the script and the file writers one after the other, then creates,
  configures and starts the event thread through the library, one call at a time.
* `stop` runs the script, cancels the event thread, joins it.
* The event thread ends in `CleanupThread`, which touches the same list and the same
  objects as the callers.
* The files in `/tmp` and the daemons survive the binder. `startAp` looks at the files
  `dnsmasq.wlan.conf` and `add_hosts` to find out whether a former access point has to be
  cleaned up first; these two are called *marker files* below.

### What is hard here, and what must hold

| Component | Hard behaviour | Properties |
|---|---|---|
| Thread library | objects used after `unlock()`; the reset of the list by `CreateThread`; a pthread that ends by itself, by cancellation, or by cancellation inside its destructor; the early return that keeps `Mutex` | `ListSound`, `LeakIsFinal`, `LibrarySafe`, `Stoppable`, `CancelReturns` |
| Access point control | a command that fails half way; a second verb in the middle of the first; the status against the daemons; a request that never ends; a thread that is forgotten | `StatusTruth`, `PromiseKept`, `JoinedThreadEnds`, `VerbsEnd`, `JoinedIdNeverUsed`, `StopEndsItsThread` |
| Files, script, daemons | the binder dies between two steps, the files and daemons stay | `MarkersCoverDaemons`, `FailsOnlyOnBadParameters`, `PromiseKept` |
| Parameters | bounds stored by one call and tested by another; the order in which the keys are read; one key stored in the field of another; no lock | `AgreedChannelStarts`, `GoodConfigAccepted`, `StartHasSsidAndKey`, `ChannelMatchesMode` |
| Names | strings freed by a setter while a start formats them and the event thread keeps one; two setters of one name | `NameLive`, `PreviousFreed`, `OneInterface` |
| Addresses | four strings replaced one by one while a start tests, parses and formats them; a mask taken byte by byte | `RangeOfOneCall`, `StartUsesTestedRange`, `PrefixFitsMask` |
| Event reporting | one static pipe handle for all event threads; a counter that lives as long as a thread; a script that kills processes by name and age | `CounterFollowsStations`, `PipeSafe`, `PcloseReturns`, `StopEnds`, `ScriptKilled` |

`PROJECT.json` lists every hazard at the line where it bites.

## 2. The modules

    WifiApProcess                the process: its threads, what may fail, Die
      |            \
    WifiApThread  WifiApPlatform     the thread library | files, script, daemons
      |      \       /
      |       WifiAp                 the verbs over both; death and restart
      |        |    \
      |        |   WifiApPromise     WifiAp as an implementation of AccessPoint
      |        |     |       \
      |        |     |        MCWifiAp      symmetry for TLC
    WifiApThreadProofs
      \        |     |
       WifiApProofs  |               theorems
           |         |
         WifiApStatusProofs
                |
         WifiApMemoryProofs

    WifiApProcess - WifiApData       the radio parameters: the file, the setters, the start
                      |      \
                      |       MCWifiApData
                    WifiApDataProofs

    WifiApProcess - WifiApAddress    setIpRange, setDnsmasqService, toCidr
                      |      \
                      |       MCWifiApAddress
                    WifiApAddressProofs

    WifiApProcess - WifiApNames      set_string_copy and the readers of its strings
                      |      \
                      |       MCWifiApNames
                    WifiApNamesProofs

    WifiApProcess - WifiApEvents     iw event, its threads, WIFI_UNSET_EVENT
                      |
                    WifiApEventsProofs

**`WifiApProcess`** declares the callers (binder threads), `alive`, and `Fallible`, the
set of system calls and commands that may fail in an instance. A process that calls
`abort()` or dereferences `NULL` does `Die`.

**`WifiApThread`** models `wifi-ap-thread.c`. An element of `Obj` is one allocation, and `obj`
maps it to a thread object with its life (`unborn`, `live`, `freed`); `threadList` is the object
the list leads to. `calloc` may return an address that was freed: a pointer to a freed
allocation may then lead to any object that is live now (`SameAddress`). One suffices: `CreateThread` resets the head of the list on each call,
and gives every object the id 1 (it increments the zeroed field of the new object).
`pth` holds the pthreads, `frame` the library call each caller is in. A call is cut into
steps at each point where another thread can interfere: at `unlock()`, between the
test of a field and its use, before a blocking call. A critical section is one step, so
`Mutex` is held in a state only when a function returned without unlocking it. Reading
freed memory yields any value of the field; what is written through a pointer to it is lost or
reaches one of the objects that may have its address (`WriteObj`); freeing it frees such an
object, or nothing, and may abort. `fault` records what happened, and no property says anything
of the states after it. Actions carry the names of the functions:
`CreateThread`, `cancelThread`, `JoinLookup`/`JoinWait`/`JoinRemove`/`JoinDelete` for the
four phases of `JoinThread`, `RunDestructors`/`CleanupUnlink`/`CleanupFree` for
`CleanupThread`. `pthread_cancel` of a pthread that exited but was not joined returns 0
in glibc from 2.34 and `ESRCH` before: `CancelExited` says which.

**`WifiApPlatform`** is what the binding does to the system. `hosts`, `dnsmasqConf`,
`hostapdConf` are the files, `dnsmasq` and `hostapd` the daemons, each with the
parameters it has. Every command of the script is an operator from a result (`ok`,
`error`, `signal`) to its effect, with the effects of a command that stopped half way.
`signal` is a shell that was killed: `WEXITSTATUS` alone (the tests of
`setDnsmasqService` and of `WIFI_START`) takes it for success. `WIFIAP_HOSTAPD_STOP`
sleeps a second between removing the marker files and killing what is left, and is two
steps. `KillHostapd` is its `killall` and its `kill -9 || exit`: that `exit` is in parentheses and
ends a subshell, so that a hostapd which survives (`kill_hostapd` in `Fallible`) leaves the
result of the script as it is.

**`WifiAp`** is the verbs `start`, `stop`, `restart` and the start at initialisation.
`pc[c]` is the next step of the verb caller `c` runs; each step is one command, one file,
one library call or one access to a shared variable, with the error exits of the code.
`EndVerb` is the return of the function: `start` and `stop` have replied by then, `restart` never
calls `afb_req_reply` (`src/wifiAp.c:955-989`, on none of its paths), so that the end of a verb is
not taken for an answer. `SetParameters` changes the parameters at any moment of any verb,
which is what the setters do. `Crash` ends the process at any step, and `Boot` starts a
new one over the files and daemons that stay.

**`WifiApData`** is the parameters that decide how the radio starts. `wifiApData` has the
fields of `wifiApT` that later code tests (a string is its length, the IEEE mask the set of
its bits, the channel 16 bits wide). The module covers their whole life:
`createWifiApData` reads the configuration file key by key in the order of `descs`, with
what each setter stores before it refuses; the setter verbs change them; `startAp` tests
them and `GenerateHostApConfFile` writes them. No lock protects them, so that
`setChannelParameter` is four steps (it reads the mask, stores two bounds, tests against
what it stored; a compiler may or may not read the fields again, and both outcomes are
taken), and a start reads each field at its own moment. The other setters store one field,
in one step. `given` and `agreed` are histories for the properties.

**`WifiApAddress`** is the four addresses, from `setIpRange` to the interface. A text is its
length, whether it is UTF-8, and its four bytes if `inet_pton` takes it. `setIpRange`
measures its arguments and then copies them field by field; a start (`startAp` from the
clean-up on, and `setDnsmasqService`) reads the fields one at a time: to see that none is
empty, to parse them, for `ip_ap_cidr`, for the range test, for `ip addr add`, for
`add_hosts`, for `dnsmasq.wlan.conf`. A read of a field that is being copied may find
anything of `Torn`. `toCidr` is an operator on bytes; of a text that is not an address it
adds what `sscanf` left in an array that was not set (`Leftover`), which only an overlap
can make visible, since `parameterPtr` refuses that start.

**`WifiApNames`** is the life of the three strings that `wifiApT` only points to. `str` is the
heap, `names` the three pointers. `set_string_copy` is cut between the read of the former
pointer, the store and the `free`; each use of a name in `startAp` and `stop` is a load of the
pointer, then the formatting of what it leads to, which is anything once it is freed. The
event thread keeps the pointer `CreateThread` was given (`context`) and looks for its text in
the lines about hostapd's stations (`station`). Commands are cut down to the interface they
are given.

**`WifiApEvents`** is `WifiApThreadMainFunc` and `threadDestructorFunc` step by step. The
verbs are cut down to what they do to hostapd and to the thread: launch hostapd, start a
thread; kill hostapd, cancel the thread, join it. `procs` is what `pgrep iw` lists: an `iw`
that ended stays listed until the binder waits for it, which only `pclose` does.
`IwThreadPipePtr` is one variable for all threads and is read again for each line, so that
`Fgets` and `GetLine` are two steps. `WIFI_UNSET_EVENT` is `UnsetCount` (`pgrep -c`) and one
`UnsetKill` (`kill -9 $(pgrep -n iw)`) per process counted. `buf` holds the lines each
`iw event` wrote and nobody read yet. Stations move at any time, on any interface;
`getAPnumberClients` is `QueryPopen` and leaves a zombie (`DumpEnds`). `overlapped` and
`atPopen` are histories for the properties.

**`AccessPoint`** is the abstract specification: a state the binding tells, a service of
two daemons, a request, and whether the process lives. Daemons come and go only
while a request is served, a stop launches nothing, a start of what is on touches nothing, and
the state a request ends in is the one the daemons are in, or a failure. The process may die at any step and the daemons do not notice; the next one
believes the access point to be off, whatever it finds, and may serve the request `init` (the
start of `binding_ctl`, whose failure ends the process) before any other.
**`WifiApPromise`** maps `WifiAp` to it (`status`, the two daemons, the
verb of the one operating client); `PromiseKept` is that `WifiAp` implements it, checked as
a `PROPERTY` and proved.

`WifiAp`, `WifiApData` and `WifiApAddress` are views of one `startAp`: the first has its
commands, files and thread and takes the verdict on the parameters from `Cfg`; the other two
have the rules of that verdict (radio and addresses) and leave the rest out. `WifiApEvents`
takes up where `WifiApThread` lets a pthread run its main function or its destructor.

### Abstractions

* In `WifiApData` the copy of a string is one step: that a start may see half of an SSID
  that is being changed is not modelled. Two starts that write `hostapd.conf` at once each
  leave a whole file. The keys that no later test looks at are one key, `other`, which may
  be refused, and it is read first; their order among the others does not matter because
  none of their setters reads a field. The failure of `afb_api_new_event`, which ends the
  initialisation, is left out.

* A parameter set is a member of `Cfg`. What the code tests of it is two facts:
  `IpOk` (the addresses parse and the one of the access point is outside of the range;
  the code does not look at the subnet) and `RadioOk` (SSID and
  channel accepted).
* `calloc` does not fail; `RoomToStart` asks a start only when an allocation is left.
* `Fresh` gives out the next allocation or pthread with `CHOOSE`, because which one it is
  cannot matter. TLC's symmetry is therefore used on callers only.
* The binder is not seen to die in the middle of a script: the script goes on to its end
  without it, so the outcome is that of dying after the step. For `WIFIAP_HOSTAPD_STOP` this
  takes a binder that is not back within the script's `sleep 1`: one that is would find no marker
  files and daemons that are about to be killed.
* `WifiApAddress` has one client that calls `setIpRange` and one that starts; two starts at
  once are the business of `WifiAp`. It has no killed shell: the tests of
  `src/wifiAp.c:337` and `367` would take one for a success and go on with the interface not set
  or no dnsmasq (`WifiAp` has that outcome).
* `GenerateHostApConfFile` fails when it cannot open or write; a `fclose` that fails, which leaves
  a short file and reports success, is left out.
* In `WifiApEvents` `sh -c` is taken to `exec` its only command (bash, or dash from 0.5.11),
  so that the child of the binder is the `iw` itself, and `popen` returns when it runs and listens:
  the instants before the `exec`, when `pgrep` does not list it, and before `iw` has subscribed,
  when it misses a station, are left out; other processes whose name contains
  `iw` are left out; `cancelThread` finds a thread that exited; a clean-up is taken to have
  ended hostapd, also when it reports a failure. The text of the event ("WiFi client disconnected" is cut
  after 22 bytes) is formatting. A pipe holds any number of lines.
* `TEST_MODE`, the Network Manager and firewalld commands, thread names, priorities and
  all logging are left out.
* `serial` checks for deadlock. In the other runs the process may end for good (`Die` with no
  boot left), a caller may block for ever in `lock()` after a leak, or a bound is reached: there
  what must not block is stated as a property.

## 3. Plan

Done, in this order: the core (thread library, platform, verbs), the radio parameters, the
event reporting, the addresses, the abstract specification and its refinement, the names; the
theorems of section 5, which state every invariant of the passing runs.

Left: a composition of `WifiApEvents` with the library, so that `overlapped` becomes a
consequence of the verbs called instead of a history; an abstract specification of the
names (a setter that replaces its string in one step).

## 4. The runs

The first six run `MCWifiAp`, which only adds the symmetry of the callers; `parameters` and
`stale_channel` run `MCWifiApData`, `addresses` runs `MCWifiApAddress` (both give the
constants values), `names` runs `MCWifiApNames` (the symmetry of
addresses and interfaces), `events` and `unset_event` run `WifiApEvents` itself.

| Run | Instance | What it shows |
|---|---|---|
| `serial` | one client operates (all three verbs), another sets parameters; 3 parameter sets; each script may fail, except that hostapd dies when killed; 3 objects; fair | `TypeOK`. `StatusTruth`: when no verb runs, `started` means both daemons run and a marker exists, `stopped` that neither runs and no marker is left, whatever of `Fallible` failed before. `VerbsEnd`: every verb ends, although `stop` waits for a thread that waits for `iw event`, or else waits in `pthread_join` for a thread that is in its destructor. `LibrarySafe`: without concurrent verbs no freed memory is used and `Mutex` is never kept. `Stoppable`: the object a started access point points to is alive, listed, joinable, and its pthread has the destructor that ends `iw event`. `JoinedThreadEnds`: `stop` waits in `pthread_join` only for a thread that was told to end or is ending. `StopEndsItsThread`: once the status is `stopped`, the thread of the last start has ended, whatever `restart` and failed stops left before. `PromiseKept`: the whole implements `AccessPoint` |
| `crash` | one client, no failures, start at init, the binder dies up to twice at any step (a script it launched goes on to its end) | `StatusTruth`: while a process serves no verb, its status is true of what it started or found. `MarkersCoverDaemons`: a running daemon is always covered by a marker file, so that the next process cleans up. `FailsOnlyOnBadParameters`: hence no start fails except for bad parameters. `PromiseKept`: `AccessPoint` is implemented over all lives of the process |
| `concurrent` | two clients start and stop at any time, `stop` also when not started; clean-up, hostapd's kill and launch, dnsmasq, `fopen`, `pthread_create` may fail, a shell may be killed; each behaviour up to its first use of freed memory (`UntilFault`) | `ListSound`: up to there the list does not lead to a freed object, so that the first memory error is never a look-up in the list. `LeakIsFinal`: a `Mutex` that was kept means an empty list |
| `stop_twice` | one impolite client | violates `JoinedIdNeverUsed` |
| `lost_mutex` | one impolite client, older glibc possible, fair | violates `CancelReturns` |
| `race` | two polite clients, no failures | violates `StatusTruth` |
| `parameters` | any configuration; one client calls setters and starts, another starts; writing the file may fail | `DataTypeOK`. `GoodConfigAccepted`: with a legal mask and a channel of its mode, only another key makes the binding refuse the file. `StartHasSsidAndKey`: no sequence of calls makes a start fail for want of an SSID or a key. `AgreedChannelStarts`: an accepted channel is in range and passes both tests of `startAp`, unless `setChannel` or `setIeeeStandard` was called since |
| `stale_channel` | the same, one starter | violates `ChannelMatchesMode` |
| `addresses` | one accepted `setIpRange` during any number of starts; eight requests, good and bad; commands and `fopen` may fail | `AddressTypeOK`. `RangeOfOneCall`: between calls the four addresses come from one call. `StartUsesTestedRange`: a start that meets no call refuses exactly the bad ranges, and uses everywhere the range it tested. `PrefixFitsMask`: the interface gets the prefix length of the mask |
| `events` | two generations of the event thread, two interfaces; `popen`, `iw event`, hostapd and the clean-up may fail; fair | `EventsTypeOK`. `CounterFollowsStations`: what a thread counted and has still to read is what joined and left since its `iw event` was launched. `PipeSafe`: with one event thread at a time the handle is never `NULL` in `fgets`, and no pipe is read or closed once it is closed. `PcloseReturns`: a destructor in `pclose` has an `iw event` that ended, if no station dump is newer. `StopEnds`: a stop ends if no station dump is newer than `iw event` |
| `unset_event` | the same, no failures | violates `ScriptKilled` |
| `names` | one setter of all three names, two accepted calls; any number of starts and stops; five addresses for at most four strings, so that freed ones return; commands may fail | `NamesTypeOK`. `NameLive`: `wifiApData` never leads to a freed string. `PreviousFreed`: between calls no string is left but the three. `OneInterface`: if `interfaceName` was not replaced since the start began, network, dnsmasq, hostapd and event thread have the same interface, and stations are reported |

"Polite" clients ask `stop` only when the status is `started`. The code does not ask it of
them; the runs that need it say what is lost without it (`stop_twice`).

### What the violated properties say

* `stop` leaves `wifiApThreadPtr` pointing to the object `JoinThread` freed
  (`src/wifiAp.c:931`); the next `stop` reads its id there, against the comment at
  `wifi-ap-thread.c:431`.
* `cancelThread` returns -1 between `lock()` and `unlock()` (`wifi-ap-thread.c:518`); the
  next call never returns.
* `start` tests the status, unlocks, and acts; `stop` takes no lock over its work. Two
  verbs that overlap leave a status that is not the one of the daemons.
* `setIeeeStandard` keeps the channel and the bounds of the former hardware mode; `startAp`
  tests the channel against those and hostapd gets, say, `hw_mode=a` and `channel=3`.
* `getAPnumberClients` never calls `pclose`. Its `iw` becomes a zombie, which is the newest
  process of that name, and `WIFI_UNSET_EVENT` kills only the newest, as often as it counted
  processes: `iw event` survives, `pclose` in the destructor waits for it, and so does
  `stop` (`wifi_setup.sh:67`, `src/wifiAp.c:1054`). `StopEnds` is what remains true.

### Other facts met on the way

They follow from a single guard or assignment, so no run is spent on them.

* A failed `fopen` of `add_hosts` or `dnsmasq.wlan.conf` ends in `fclose(NULL)` instead of the
  error the comment at `wifi-ap-config.c:32` announces (`Die` in `WifiApPlatform` and
  `WifiApAddress`).
* `addDestructorToThread` and `setThreadJoinable` test the state of the object after
  `unlock()`: with two starts on one object a destructor reaches a running thread, against
  `wifi-ap-thread.c:237`.
* A pre-shared key has no effect, although `docs/3_Usage.md:32` ("used if you want to set the
  pre-SharedKey (PSK) directly"), `docs/1_Architecture.md:14` and the comment at
  `wifi-ap-data.c:234` say that it has. The one of the configuration file is stored as the
  passphrase (`src/wifiAp.c:1445`); the one of `setPreSharedKey` is looked at only if the
  passphrase is empty, which it never is once the configuration was accepted. This is a defect,
  not a promise, so no run has it as an invariant; theorem `PreSharedKeyHasNoEffect` shows that
  no sequence of calls gets around it.
* `wifi_setup.sh:102`: the `exit` after a failed `kill -9` of hostapd ends only the subshell it is
  in. The script exits 0, `stop` reports `stopped` and hostapd serves: `StatusTruth` and
  `PromiseKept` are false as soon as `kill_hostapd` is in `Fallible`.
* `restart` never replies to its client, whether it did nothing, failed or succeeded.
* `restart`, and `start` after a `stop` that failed, launch a second event thread and overwrite
  the only pointer to the first (`src/wifiAp.c:523`): nothing ends that one, and the next `stop`
  reports `stopped` with it still there. `StopEndsItsThread` is what remains true.
* `toCidr` stops at the first byte that is not 128, 192, ..., 255: a mask such as 255.0.255.0
  is not refused and counts as 8 bits.
* `set_string_copy` takes no lock: two calls on one name free the same string twice, and the
  string of the first is lost (`wifi-ap-data.c:50`). `PreviousFreed` is false with two setters.
* `setInterfaceName` on a started access point, even with the name it has, frees the string
  the event thread compares with (`src/wifiAp.c:524`): stations may no longer be reported. That
  is why `OneInterface` excludes it.
* A counter of clients starts at 0 with its thread: stations that came before `iw event` was
  launched are missing from it (`atPopen`), and it may become negative.

### Bounds

* `Obj`, `Thread`: a start needs one of each. An element of `Obj` is an allocation and is not
  used twice, so that their number bounds the starts of one life of the process; with three, a
  stopped, a failed and a running generation exist. Two suffice for the concurrent runs: two
  overlapping starts, or a start after a stop, whose object may have the address of the former
  one. `RoomToStart` is the guard.
* `UntilFault` is a constraint of `concurrent`: a state in which freed memory has been used is
  checked and has no successors. Both properties say nothing of what comes after (`fault = {}`
  is in them).
* `MaxBoot`: two restarts let a process meet what a process left that itself met the
  remains of an earlier one.
* `Cfg`: one good set, one the address test refuses, one the radio test refuses: the three
  classes the control flow tells apart.
* `Channel`: 3 (modes B, G, AD), 36 (mode A) and 70000, which does not fit in 16 bits;
  `Std`: two legal masks and one of each kind that is refused (no mode, two modes, AC
  without A, H without D); `Length`: one length all setters accept, and one they refuse
  (but `setPreSharedKey`, which accepts an empty key). The tests compare with these ranges only, so
  that other values fall in the same classes; the theorems hold for all.
* `Request` of `MCWifiApAddress`: a good range, one swapped with the access point inside and
  one with it outside, the masks of 15, 24 and 32 bits and one that is no mask, a name in
  place of an address, a text that is not UTF-8, one that is too long: each class the tests
  tell apart. `Torn`: a wrong address and a text that is none. `MaxCall = 1`: one accepted
  call overlaps any step of any number of starts; refused calls change nothing and are not
  steps. The theorems hold for any requests and any number of calls.
* `WifiApEvents`: two threads, because the second meets what the first left (zombies, the
  handle, a failed stop). `OneThread`: once two are there at once nothing new happens
  outside of them, which bounds states the properties say nothing about. `MaxStation = 1`,
  `MaxLine = 2`: a station joins and leaves while a line of another interface is in the
  pipe, before or after the launch of `iw event`. `MaxLaunch = 2`: a dump before the event
  thread, or one or two after it.
* `MCWifiApNames`: `MaxCall = 2`: the second call may get the address the first one freed,
  while a start has loaded it or the event thread keeps it. Two interfaces and a name that is
  none.
* Two callers: the races need two. The theorems hold for any number.

### Fairness

`FairSpec` assumes weak fairness of each caller's verb steps and library steps (the
binder's workers are scheduled), of each event thread's reaction to a cancellation (a pthread
blocked in `fgets` acts on a pending one) and of the end of its clean-up. Its destructor
(`RunDestructors`) has no fairness: its `pclose` (`src/wifiAp.c:191`) returns only when `iw event`
ends, which run `unset_event` shows may be never. That is why `VerbsEnd` lets a verb stay in
`pthread_join` for a thread in its clean-up; `StopEnds` of `WifiApEvents` is about when that
ends. Nothing makes a client ask, and nothing makes `iw event` end: `MainFuncReturns` has no
fairness, so that `VerbsEnd` does not lean on it.

In `WifiApEvents` the verbs' steps, the threads' reaction to a cancellation, their destructors
and the end of a station dump are weakly fair. A thread need not read lines, and `iw event`
need not end: that is why `StopEnds` needs its hypothesis. The hypothesis is a history of
the whole run (`[]`), because a dump launched in the middle of the loop of
`WIFI_UNSET_EVENT` is as bad as one launched before it.

## 5. The proofs

`WifiApThreadProofs` and `WifiApProofs`, for any callers, objects, pthreads, parameters,
failures, boots and any politeness. Assumptions: `ThreadAssumption`,
`ProcessAssumption`, `PlatformAssumption`, `VerbAssumption`, which only say that the
constants are sets of the right kind and that `None` is not in them.

* `TypeCorrect`: `Spec => []TypeOK`.
* `ListIsSound`: `Spec => []ListSound`. Neither property is inductive. `Inv` adds `LibInv`:
  until freed memory is used, the pointer of an activation record is set while it is used and
  never one to an object not yet allocated (or `CreateThread` could revive the object another
  call is about to free); an object about to be freed, by `JoinThread` or by the pthread, is
  not the one the list leads to: it is unlinked first. Several callers may free the same
  object, and the second of them may free the one that got its address and is listed: that
  second `free` is itself the use of freed memory up to which the theorem speaks. What it says
  is that no look-up, which all later steps depend on, is the first thing to go wrong.
* `LeakIsFinalAlways`: `"ESRCH" \notin CancelExited` implies `Spec => []LeakIsFinal`. The
  strengthening `LeakInv` adds that a caller at the entry of `cancelThread` has the
  right id unless freed memory was read.

`WifiApDataProofs`, for any callers, channels, masks and lengths,
under `DataAssumption` (the constants are sets of the right kind).

* `DataTypeCorrect`, `ConfigAccepted`, `StartFindsSsidAndKey`: `DataTypeOK`,
  `GoodConfigAccepted` and `StartHasSsidAndKey` hold always. `DataInv` adds to them that
  nothing runs before the file is read (`Quiescent`), what each field holds once its key
  was accepted (`Configured`: SSID and passphrase are not empty, the mask has one hardware
  mode), and why a file was refused so far (`Refusal`). `Configured` is what the setters
  keep and what the start's tests rest on.
* `AgreedStarts`: `AgreedChannelStarts` holds if one client at most calls setters
  (`OneSetter`). `SetChannelInv` says what a call of `setChannel` stored at each of its
  steps, `AgreedInRange` what an accepted channel satisfies. With two clients that call
  setters the property is false: one call's bounds may meet the other's mask.

Each step lemma has one case per action of `Next`; the library's are proved once over
`libVars` and used by `WifiApProofs` for every caller.

* `PreSharedKeyHasNoEffect`: `PskBranchDead`, the branch of `GenerateHostApConfFile` that the
  documents describe is never taken. `Configured` says that the passphrase is not empty, and
  `ChosenKey` looks at it first.

`WifiApStatusProofs`, under `OneOperator`: one caller operates the access point, any others set
parameters; a start at init only if there are no others, because the model lets any caller
stand for the thread of `binding_ctl`; neither of the two failures that pass for a success: a
shell killed by a signal (`WEXITSTATUS` alone is 0) and a hostapd that outlives its kill
(`wifi_setup.sh:102`). With either of them both theorems are false. The binder may die and come back any number of times.

* `StatusIsTrue`: `Spec => []StatusTruth`. The strengthening says, for each `pc` of the
  operating client, which daemons may run and which marker files exist.
* `KeepsPromise`: `Spec => PromiseKept`. The initial state maps to `AccessPoint`'s, and each
  step of `WifiAp` to a step of it or to a stutter; the same strengthening says which.
  A death of the binder is a death of the abstract process, with the daemons as they are.

`WifiApAddressProofs`, for any requests, torn reads, leftovers and failures, under
`AddressAssumption`.

* `AddressTypes`, `OneCallRange`, `TestedRangeUsed`, `MaskOfInterface`: the four properties of
  the run, from one inductive invariant, `AddressInv`: what `setIpRange` has already copied,
  and, as long as no call was accepted since the start began, that what the start has read
  so far is what the fields hold, and that the files and the interface have it from the
  step on that writes them. `toCidr(Mask(n)) = n` and the bounds of `toCidr` are lemmas.

`WifiApEventsProofs`, for any threads, interfaces and stations, under `EventsAssumption`.

* `EventTypes`: `Spec => []EventsTypeOK`; that the loop of `WIFI_UNSET_EVENT` does not count
  below zero needs that the number of listed processes is finite.
* `PipeNeverMisused`: `Spec => []PipeSafe`. `EventsInv` adds `Started` (a turn of the
  loop is left when one is taken) and `PipeAlone`: while no two threads were there at once,
  one uses the pipe, the handle leads to the pipe it reads, and the handle leads to a closed
  pipe only between the `pclose` and the assignment after it.
* `CounterFollows`: `CounterFollowsStations` if no other interface has a name that contains the
  one of the access point (`Matching = {Own}`; otherwise it is false). What a pipe holds is
  counted with `SelectSeq`, a recursive definition; the lemmas of *Counting lines* replace it by
  the cardinality of a set of indexes, which needs no induction, and say what an appended and
  a removed line change. `CounterInv` adds that a thread that did not launch its `iw event` yet
  has an empty pipe and a counter at 0.
* `PcloseNeverBlocks`: `Spec => []PcloseReturns`. `AgeInv` says that a thread launches one
  `iw event` and that the one `IwThreadPipePtr` reads is the newest of them; `KilledInv`, that
  once the loop of `WIFI_UNSET_EVENT` is over it runs only if a station dump is newer.

`WifiApMemoryProofs`, under `OneAtATime` (one client operates the access point; it may be
started by `binding_ctl` first) and `LibraryKind` (that client does not ask `stop` twice,
`pthread_cancel` tells nothing of a thread that exited, `pthread_create` works), for any
objects, pthreads, parameters and number of lives of the binder. `race` and `stop_twice` show
that the first two are needed.

* `LibraryIsSafe`, `StopCanEndTheThread`: `LibrarySafe` and `Stoppable`, whatever command or
  file fails. (`serial` checks them without killed shells, failed `fopen`, a hostapd that outlives
  its kill and deaths of the binder; the theorems have all four.) `MemoryInv` says for each `pc` of the client, each position inside a function of
  the library and each position of the pthreads which object is listed, which pthread it has,
  who joins it, and how many destructors are left. The delicate part is that several pthreads
  may exist (after a failed stop or a restart): each has an object of its own (`OwnsObject`),
  so that none unlinks or frees another's.
* `StopWaitsForAnEnd`: `JoinedThreadEnds`. `EndsInv` says that from the return of `cancelThread` to
  the join the handle in the object of `wifiApThreadPtr` is one whose thread is cancelled or
  past its main function; no thread goes back there. It is the safety part of `VerbsEnd`.
* `StopEndedItsThread`: `StopEndsItsThread`, with `restart`, any failures but that of
  `pthread_create`, and any number of lives of the binder. `EndedInv` says that from the return of
  `JoinThread` on, and while the status is `stopped` and no later start has launched its thread,
  no pthread that runs belongs to `wifiApThreadPtr`; `MemoryInv` is what tells that the joined
  pthread is the one of that object.
* `MarkersCover`: `MarkersCoverDaemons`, if the clean-up of `WIFIAP_HOSTAPD_STOP` works (both
  daemons die when killed, no shell is killed: `CleanUpWorks`), whatever else fails. `CoverInv` adds that the binder does not die inside the script (`Crash`), and that
  `dnsmasq.wlan.conf` exists from the launch of dnsmasq on.
* `OnlyBadParametersFail`: `FailsOnlyOnBadParameters` for one client and no failures. `CauseInv`
  says for each `pc` that no daemon is in the way of the next launch and that `hostapd.conf` is
  there for hostapd; `CoverInv` (a start cleans up what runs) and `MemoryInv` (`stop` joins the
  event thread) are needed for it.

`WifiApNamesProofs`, for any callers, addresses and texts, under `NamesAssumption`.

* `NamesTypes`: `Spec => []NamesTypeOK`.
* `NamesStayLive`, `FormerStringsFreed`: `NameLive` (and that the process does not end in a double
  `free`) and `PreviousFreed`, as long as no two callers are in a setter of one name
  (`OneCallPerName`, a hypothesis on the behaviour; a single client satisfies it, and
  `set_string_copy` does nothing to bring it about). `HeapInv` says that each string has one owner:
  one of the three names, or one running call, before its store the new string, after it the
  former one. Two calls on one name would own one string twice.
* `OneInterfaceUsed`: `OneInterface`, under the same hypothesis. `StartInv` follows what each step
  of the start has used, as long as `interfaceName` was not replaced.

Only model-checked: `VerbsEnd` and `StopEnds`, because liveness under fairness is outside the
prover's reach. What they rest on besides fairness is proved: `LibrarySafe` (nobody waits for
`Mutex` for ever), `Stoppable` and `JoinedThreadEnds` for the first, `PcloseReturns` for the
second.

What a violated property says is true under a condition, and for four of the five the condition
is a hypothesis of a theorem, which tells that nothing else breaks it:

* `JoinedIdUnused` (`WifiApMemoryProofs`): `JoinedIdNeverUsed`, for one client that does not ask
  `stop` twice.
* `ChannelOfTheMode` (`WifiApDataProofs`): `ChannelMatchesMode`, as long as `setIeeeStandard` does
  not change the hardware mode of the configuration (`ModeKept`), whatever else any number of
  clients set or start at once. `ModeInv` says that bounds, channel, running calls and
  `hostapd.conf` all belong to that mode.
* `ScriptIsKilled` (`WifiApEventsProofs`): `ScriptKilled`, as long as one event thread is there and
  no station dump is newer than an `iw event` that runs.
* `StatusIsTrue`: `StatusTruth`, under `OneOperator` (`race` has two clients).

The fifth, `CancelReturns`, is a liveness property; under the assumptions of `LibraryIsSafe`
`Mutex` is never kept.

## 6. Not modelled

* Queries and subscription, except for the process `getAPnumberClients` leaves behind: they
  read one variable, count the lines of one command, or forward to the framework.
* Conversion of arguments and replies: no state of their own.
* Network Manager and firewalld: results only logged.
* Text of the configuration files, command lines, thread names: formatting.
* `test/`, packaging, `wifi_setup_test.sh`: not part of the program.
* The setters of country code, `discoverable` and the number of clients: one store each, which
  no other code tests. `utf8_Append` builds
  lines of `hostapd.conf` (`wifi-ap-config.c:205-220`), which is formatting.
* The length of the names, and what a command does with one that is no interface, beyond
  failing.
* `WIFI_SET_EVENT` and `WIFI_CHECK_HWSTATUS` of the script: no code calls them.
* Calls of `getAPnumberClients` that overlap and share its static `FILE *`; a pipe whose writer
  blocks because nobody reads it.
