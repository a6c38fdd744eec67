# ESP32 digital key: TLA+ models and proofs

A verification development for the digital key system in `src/`: a vehicle
(ESP32 firmware), a registry of vehicles and keys (`dk-server`) and a phone-side
gateway (`dk-web`). The models are translated from the code; line numbers in
comments and in `PROJECT.json` refer to it. Two kinds of evidence are kept
apart throughout: what TLC checks on small instances and what TLAPS proves for
every value of the constants.

## 1. The system

### Parts, their state, their operations

| Part | Source | State | Operations | What makes it correct |
|---|---|---|---|---|
| Key store | `dk_keystore.c` | `s_keys[8]`, `s_key_count`; NVS items "count" and "keys" | `AddKey`, `ApproveKey`, `DeleteKey`, `GetPubkey`, `IsOwner`, `EraseAll`, `save_keys`, `load_keys` | an id is in one entry only; a boot brings back nothing but what the table held; a factory reset is final |
| Key provisioning | `dk_cloud.c` | the response, loop indices, a local table of 8 server ids | registration of the device key, `sync_keys` every 2 s | after a pass the table holds approved keys of the server only; a listed key is not removed; a revoked key has no session; repeated passes repair anything |
| BLE authentication | `dk_auth.c` | `s_conns[3]` (state, key id, challenge, RSSI window), device key | connect, disconnect, challenge, `VerifyResponse`, `DisconnectByKey`, `DisconnectAll` | a session is authenticated only with a key that is in the table |
| GATT service | `dk_service.c` | none of its own | access callbacks, key management by the owner | owner commands only from an authenticated owner |
| Proximity, lock, LED | `dk_proximity.c`, `dk_lock.c`, `dk_led.c` | per slot a ring of 5 samples, zone and hold count; lock; colour | 200 ms poll, `DkLock_Command` | unlocks only for a steady immediate session, locks when it leaves; LED shows the lock |
| Reset button | `dk_button.c` | tick counter, done flag | 100 ms poll, `factory_reset` | LED right after every press; the reset erases |
| BLE stack | `ble_stack.c` | connection slots, advertising | advertise, connect, disconnect events | advertising runs whenever a slot is free |
| WiFi | `dk_wifi.c` | retry count | reconnect with backoff | the station comes back |
| dk-server | `reg_app.py`, `store.py` | `vehicles.json` | add/delete vehicles and keys, write-once public keys, provisioning | ids are never minted twice; a public key is never replaced |
| dk-web | `websocket.py`, `ble.py`, `crypto.py` | browsers, scan task, BLE client, vehicle cache, key files | scan, register the key, connect, authenticate, verify the device, key management | while somebody looks on, one scan runs and the vehicle ends up connected; a key serves one computer; a vehicle that is not verified is not kept |
| Command line | `main.py` | the key files of its computer | authenticate, watch the status, approve, delete | as a station of its own, like dk-web |
| Accounts, HTTP front ends, browser pages, tooling | `auth.py`, `app.py`, `static/`, `dkidf`, ... | files, cookies | sequential | not modelled |

### Interactions

* The dealer mints a key id at dk-server; dk-web generates the key pair and
  registers the public key (write-once); the cloud task polls
  `GET /api/provision`, adds and approves new keys, deletes those that are gone.
* The phone reads a challenge over BLE and writes its response; the BLE host
  task verifies it with a public key that it copies out of the key store.
* The RSSI poll (timer task) reads the sessions that the BLE host task writes,
  and commands the lock. The button (same timer task) terminates every session
  and erases the key store.
* Three FreeRTOS tasks - cloud, BLE host, timer - call the key store. It has no
  lock.
* In dk-web everything shares one asyncio loop: browser endpoints start and
  cancel the scan task, which suspends in the middle of a pass. A pass and the
  commands of the browsers use one BLE link, hence one session of the vehicle.
* The computers of one account each have key files of their own; a command line
  uses those of the dk-web on its computer.

### What is hard

Interleaved saves of a table without a lock, whose arguments are evaluated before
the write takes its lock; power loss between two NVS writes;
failing writes that nobody reports; a walk over a table that others shorten; a
verdict that is applied long after the key was read; terminations that are
requested now and happen later; a `uint8_t` index that wraps; counters that act
at one value only; two sessions and one lock; two drivers of one LED; the
cancellation of an asyncio task that is not yet over; caches; a file rewritten in
place; a pass and a command that answer each other's challenges; two computers
that register one key. `PROJECT.json`
lists them as hazards with the properties that cover them, and says why where
none does.

## 2. Modules

```
DkKeystore          pure operators on the table (no state)
  KeyRegistry       what the store promises: a list and one stored copy
  KeystoreNvs       RAM table + NVS + the tasks that call it
    KeystoreRefinement      KeystoreNvs as a KeyRegistry            MCKeystoreNvs
      KeystoreRefinementProofs   ... proved
    KeystoreNvsProofs       theorems about KeystoreNvs
    CloudSync       + dk-server + cloud task + sessions + reset     MCCloudSync
      CloudSyncProofs       theorems about CloudSync (on KeystoreRefinementProofs)
MedianFilter        exchange sort, median, zones (no state)
  MedianFilterProofs        the sort finds the median
  PassiveEntry      poll, lock, LED, button, sessions               MCPassiveEntry
    PassiveEntryProofs      theorems about PassiveEntry (on MedianFilterProofs)
BleLink             BLE connections: events, slots, advertising     MCBleLink
  BleLinkProofs             theorems about BleLink
WebScan             dk-web: browsers, scan task, cache, link        MCWebScan
  WebScanProofs             type correctness of WebScan
WebAuth             dk-web and command lines: keys, sessions        MCWebAuth
  WebAuthProofs             theorems about WebAuth
```

**DkKeystore.** A table is a sequence of `[key_id, pending]` of length at most
`DK_MAX_KEYS`. Public keys are left out: the code looks entries up by id only.
`ZeroId` is the id of an entry that was never written (`memset`). `LoadKeys(count,
blob)` is the boot: the entries beyond the blob are zero, and a blob that is
longer than `count` says is refused whole by `nvs_get_blob`, so that `count`
zero entries remain.

**KeystoreNvs.** `s_keys`, `nvs`, and per task the progress of its `save_keys`
(`saving`). A call is `CallAddKey`, `CallApproveKey` or `CallDeleteKey` - the change
of the table or a refusal - and then the steps of `save_keys`, or `SaveOpenFails`;
other tasks step in between. Each of the two writes takes two steps: `Evaluate`
reads `s_key_count`, which is the value of the first write and gives the length of
the second (`arg`), and `SaveCount` or `SaveBlob` writes. The evaluation comes before
NVS takes its lock, so that the other task may delete a key and save the shorter
table, both completely, between the two. The entries themselves are copied under
the lock, hence in the step of the write (`FirstPlaces`: beyond the table the array
is zero). `EraseNvs`/`EraseRam` are the two halves of `DkKeystore_EraseAll`; an
erasure that fails may have erased one of the items. `Reboot` is a
power loss at any point followed by `DkKeystore_Init`, whose reading may fail.
With `NvsMayFail` each write may fail silently, as in the code, which ignores
the results. `stale` and `late` are not in the code: the one names the items whose
last write failed or was overtaken by the reset, the other those whose last write
had an argument that was outdated by then.

**KeyRegistry** is the store of `dk_keystore.h` without tasks, calls and NVS
items: a list, a stored copy of it, and how far the copy can be trusted: as a
*whole*, in its *entries* (each place of it has the entry of the list or none), or
in *nothing*. A boot brings back the copy (`Boot`) or, when it cannot be read, entries
without content (`BlindBoot`). **KeystoreRefinement** maps KeystoreNvs to it: the
list is `s_keys`, the copy is what `load_keys` would make of the two items. It is
trusted as a whole if nothing is in progress and no item is stale or late, and in
its entries if nothing is in progress and the blob is not stale. Every step of an
interleaved save is then `Store`.

**CloudSync** extends KeystoreNvs by the registry (`srv`, `vehicle`, `dev_key`),
the cloud task as a program counter `pc` over `sync_keys` (`fetch`, `add`,
`added`, `check`, `kick`, `remove`, `poll`), the sessions (`sess`, `term`,
`verifying`) and the factory reset in three steps. `WriteResponse` reads the
public key, `FinishVerify` applies the verdict later. A verdict is
nondeterministic only where the code's depends on data left out: a response to
a used-up challenge or for an unknown key always fails. `SrvCrashInSave` is the
fault model of `store.py`: `save_vehicles` truncates `vehicles.json` and writes it
again, so that a crash leaves a file that no handler can parse (`torn`); requests
then fail, and the polls change nothing.

**MedianFilter.** The exchange sort of `median_of_5` as a recursive function of
what its two loops look at (`Loop`: the copy and the two indices), and `IsMedian`,
an independent definition of what it has to return. `MedianFilterProofs` proves
the one for the other. For TLC, samples of two RSSI values are enough: the sort
exchanges at places that do not depend on the values, and such a network sorts
every input if it sorts the two-valued ones.

**PassiveEntry.** `rssi_poll_cb` handles one connection in two steps, `ReadRssi`
and `ApplySample` (`poll` is the handle it looks at, `reading` what the radio
said), because BLE events of another task come between them: the sample goes to
the slot to which the pointer leads by then, which may serve another connection.
poll and button are callbacks of one timer task and exclude each other (guards
on `poll`). Ring buffer, wrapping index, `zone_hold_count`, `DkLock_Command` and
the LED are as in the code. `last` and `run` are history variables: the true
last samples of a session and how often in a row it was evaluated as immediate.

**BleLink.** The controller (external) makes and ends links, and `events` is what
the host task has still to be told, in order: the vehicle learns of a connection
some time after it happened. `OnConnect`, `OnDisconnect`, `OnAdvEnd` are the cases
of `gap_event_handler` together with the callbacks of `main.c`; they change the
counter `s_active_connections`, the slots `s_conns` and, through
`StartAdvertising`, advertising. `StackReset` and `OnStackSync` are NimBLE's
reset and what follows. A slot holds what a client leaves in it: its
subscription and the device challenge. `FactoryReset` and `TerminateSlot` are the
loop of `DkAuth_DisconnectAll` on the timer task, one slot at a time, since slots
change hands meanwhile. `wrote` is a history variable.

**WebScan.** A step is what a coroutine does between awaits whose outcome
matters; a cancelled task makes no further step until its `CancelledError`
arrives (`CancelArrives`). `Open`, `Start`, `Leave`, `StopReturns` are the stages
of `websocket_endpoint` and `_stop_auto_scan`; `Wake` ... `DeviceNotVerified`
those of `_auto_scan_loop` and `_connect_and_auth`; `Fetch`/`Expire` the cache.
`BroadcastRaises` is the RuntimeError that a dict raises when it changes during
the iteration in `broadcast`. `ShowVehicles` is the display, which fills the cache
that the scan reads.

**WebAuth** looks inside one link. A station owns a BLE client: a dk-web, or a
command line, each on a computer with key files (`pem`). A process is the pass of
a dk-web or a command; the pass and the command of a dk-web act on one session.
`Find` ... `DeviceNotVerified` are `_pre_register_pubkey` and
`_connect_and_auth`; `ReadChallenge`, `Accepted`, `Refused`, `ReadState` the exchange
that passes and commands share; `StartCommand`, `Manage` `_key_mgmt_command`;
`StartCli`, `ManageCli`, `LeaveCli` the commands of `main.py`. `FirstKey` is
`load_or_create_key` without an id. A key pair is known by the computer that made
it, so that `pub[k]` and the entries of the vehicle's table name a computer.
The poll of the vehicle is one step here; its details are in CloudSync. `Abort`
is a pass that is cancelled or raises, at any of its awaits. `proven` and `mark` are
history variables.

## 3. Runs

Symmetry is used only in runs without liveness.

| Run | Checks | Bounds, and why they suffice |
|---|---|---|
| KeystoreFaults | `TypeOK`, `NoDuplicateIds`, `DurableAtRest`, `ImplementsRegistry` | three ids for a table of two, so that it fills up and an id waits outside; two power losses, so that a damaged table is damaged again; every NVS call may fail |
| SyncSafety | `SyncTypeOK`, `PassLeavesOnlyServerKeys`, `PassApprovesKeys`, `RevokesOnlyWithdrawn`, `RevokedSessionEnds` | a table of two, two keys and two owner commands at any point of a pass, enough for a walk of two entries that shrinks on either side of the index; one connection, whose session may change its key while the revocation is on its way; a crash of dk-server. Neither power losses nor failing writes, with which `PassApprovesKeys` is false (PendingForever). The fairness is only what ends a session (`TerminationSpec`) |
| SyncRepair | `PassLeavesOnlyServerKeys`, `IdsConverge`, `DeviceKeyConverges` | a table of one for which two keys compete, NVS failures, one power loss, one reset, one vehicle registered anew. In a table of one a walk cannot miss an entry below its index: for `PassLeavesOnlyServerKeys` the walk over two is in SyncSafety, this run adds resets, power losses and failures |
| PassiveLock | `PassiveTypeOK`, `LedShowsLock`, `OnlySteadyImmediateUnlocks` | two connections in two zones; a window of one, so that the two can change zone in few steps (the firmware's window is in PassiveWindow); button held past a shortened long press |
| PassiveWindow | `EvaluatesLastSamples`, `OnlySteadyImmediateUnlocks`, `UnlocksWhenNear`, `LocksWhenAway` | the firmware's window of 5 on one connection, with sessions that authenticate before or after it is full; the index wraps at 11, which leaves the same remainder by 5 as 256 |
| BleLink | `BleTypeOK`, `SlotsFollowLinks`, `AdvertisesWhenFree`, `NothingInherited`, `ResetEndsConnections` | three handles for two slots, so that slots and handles change partners; a link is made or advertising ends while fewer than two events wait, so that events queue up; one reset, of the stack or by the button |
| WebScan | `WebTypeOK`, `VehicleGetsConnected` | two browsers that open twice in all, one lost link, failing requests without bound |
| WebAuth | `WebAuthTypeOK`, `OneHolder`, `UnverifiedOnlyIfAborted`, `ReportedAuthHappened`, `UndisturbedPassAuthenticates` | two computers with a dk-web each, a command line on the first, a minted key next to one that a computer makes up, one command and one aborted pass, links that drop without bound. With one dk-web, two minted keys, two commands and two aborted passes the properties hold as well (260,000 states) |

Each passing property has a seeded fault (an operator `Mut...` next to the
definition it replaces) that violates it: an index that skips, a dropped
approval, a skipped save, a missing duplicate check, a slot that is not cleared,
and so on.

Four runs end in a violation; each is a disagreement between the code and what
its documents or comments say.

| Run | Property | What happens |
|---|---|---|
| ResetRacesSave | `ErasedForGood` | a save under way during a factory reset writes the erased table back to flash; the next boot has the keys again |
| PendingForever | `PassApprovesKeys` | after a power loss between add and approve, a key stays pending: each later pass sees a duplicate and does not approve it |
| StaleSession | `NoSessionOfRevokedKey` | the key is revoked while a response is verified; the session becomes authenticated with a key that is no longer stored |
| ScanLost | `ScanServesClients` | a browser that arrives while the last one stops the scan finds a task that is "not done", starts none, and nothing scans for it |

Met while modelling and true of the models, without a run of their own:

* A link that drops while the vehicle is unlocked leaves it unlocked: the poll
  looks at existing connections only (`dk_auth.c:204`), and `OnDisconnect` does
  not touch the lock.
* Advertising is started once per event. When the host refuses to start it for
  a reason other than a full controller (`ble_stack.c:70`), nothing tries again
  before the next event; BleLink leaves such a refusal out.
* Power lost between the two writes of a save that deletes: the boot refuses the
  longer blob and keeps zero entries (`dk_keystore.c:23-24`, `:44`). The sync
  repairs the ids, which is what `IdsConverge` shows.
* The same without any failure, by the saves of two tasks: `save_keys` reads
  `s_key_count` as an argument, before NVS takes its lock (`dk_keystore.c:23-24`).
  If the BLE task deletes a key and saves in between, the cloud task then writes
  the old count next to the shorter blob, and a boot has an entry of zeros; or it
  writes a blob of the old length next to the new count, and a boot refuses it
  and has zero entries only. With `late` left out of the mapping of
  `KeystoreRefinement`, `ImplementsRegistry` fails on behaviours like these.
  `DurableAtRest` says what remains: what a boot finds in a place is never
  another key and never an older state of the key. The next polls repair the rest
  (`IdsConverge`).
* `production-comparison.md:86-90` calls the deletion of keys on the ESP32
  unfinished; `sync_keys` deletes them (`dk_cloud.c:217-236`).
* More provisioned keys than `DK_MAX_KEYS`: a key beyond the eighth can be added
  and deleted in the same pass, and a stored key that has moved behind the eighth
  place is removed (`dk_cloud.c:195`). `RevokesOnlyWithdrawn` is about passes
  whose response fits the table.
* A poll that has read the RSSI while its link goes away stores it for the next
  connection of the slot (`dk_proximity.c:74-84`). `EvaluatesLastSamples` shows
  that at most one sample of a window is foreign, and
  `OnlySteadyImmediateUnlocks` that no connection unlocks without one of its own.
* Samples from before the authentication count: the poll stores them for every
  connection (`dk_proximity.c:81-86`) and only the evaluation waits for it
  (`:43`). A phone that authenticates when its window is full may unlock at
  the second evaluation after that, with most samples older than the session.
* A refused pass is not tried again while the link is up: if the device itself
  verifies, `_connect_and_auth` leaves the link, and `_auto_scan_loop` waits for it
  to end (`websocket.py:277`); `architecture.md` section 3 speaks of a retry.
* A pass that is cancelled or raises at `bind` or later leaves a link to a device
  that was not verified; `UnverifiedOnlyIfAborted` shows that nothing else does.
* A command on the link of a pass can use up its challenge, leave its session
  failed or make it the session of another key (`websocket.py:654`).
* A command before the first pass makes a key file with a random id, which may
  sort first and then is the one that every later command signs with
  (`crypto.py:40-47`).
* A second computer of an account makes a key pair of its own for the same id;
  its registration is refused (`store.py:107`), and it can never authenticate.
* A key that the owner deletes over BLE comes back with the next poll while
  dk-server lists it, and its session stays authenticated throughout.
* `expires_at` is stored by dk-server and read by nobody.
* With two sessions, `check_auto_lock` locks on behalf of one that never was
  immediate (`dk_proximity.c:65`).
* For some polls after the index wraps, `DkProximity_GetZone` reports far and the
  poll evaluates nothing (`dk_proximity.c:84`, `:109`); `EvaluatesLastSamples`
  shows that nothing wrong is evaluated.
* `DK_ZONE_HOLD_TICKS` is 1, its comment says ten; the zone comments in
  `dk_proximity.h` name other thresholds than the constants.
* A session that alternates between far and near restarts its count each time
  and is never locked out; `LocksWhenAway` is about a phone that stays.
* A second stage of the race of ScanLost: a task created after the old one is
  done but before `_stop_auto_scan` sets the variable to None is forgotten, and
  the next start makes a second one. `VehicleGetsConnected` therefore assumes a
  single task (`OneScanTask`).

## 4. Fairness

* *CloudSync*: weak fairness for each firmware task - FreeRTOS runs every ready
  task, and none of the modelled ones blocks for ever. Strong fairness only for
  the registration of the device key: it is tried at boot and whenever a
  response says that the server has none, and of repeated HTTP requests one
  succeeds. A requested termination is eventually reported (NimBLE supervision
  timeout). No fairness for dealer, phone, owner or button. `RevokedSessionEnds` needs
  less, and SyncSafety checks it under less: the request for termination, the
  tasks of the BLE host and the report.
* *PassiveEntry*: weak fairness of the poll (a periodic timer); strong fairness
  that a connection is sampled, because reading its RSSI may fail now and then
  but not for ever. None for phone or button.
* *BleLink*: weak fairness of the host task and of the timer task, as above; a
  link that was told to terminate ends. None for clients, controller or resets.
* *WebAuth*: weak fairness for each pass: a request over a link is answered or
  fails. None for commands (a status monitor stays as long as the user wants),
  for polls, dealer or browsers.
* *WebScan*: weak fairness for every coroutine (asyncio is fair, and every await
  has a timeout or an end), for the cancellation and for the five seconds of the
  cache. Strong fairness for the good outcome of scan, connection, request and
  verification, if tried again and again - an assumption about radio and
  network. It is stated for "some task", hence holds of a single one.

## 5. Proofs

Every safety invariant and every action property of a passing run is proved, for
all values of the constants that satisfy the named assumptions of the modules.
The inductive invariants were checked by TLC on the instances of the runs before
they were proved.

### KeystoreNvs (`KeystoreNvsProofs`, `KeystoreRefinementProofs`)

For any set of ids, with and without failures:

1. `TypeCorrect`: `Spec => []TypeOK`. `TypeOK` is inductive. Lemmas say what
   `AddKey`, `ApproveAt`, `DeleteAt`, `FirstPlaces` and `LoadKeys` return for a table; a
   table never outgrows the array because `CanAdd` checks it.
2. `IdsStayUnique`: `Spec => []NoDuplicateIds`. With `TypeOK` it is inductive: the
   stored blob is always the front of a table that was in RAM at some time, and
   what a boot makes of it, whatever the stored count, has no new minted id.
3. `SavesAreDurable`: `Spec => []DurableAtRest`. Not inductive: `DurableAtRest`
   says nothing while a reset is under way. `SaveInv` adds
   * `NvsErased` - between the halves of a reset, what is not stale is empty;
   * `CountSaved` - if no task is before or in its write of the count and the
     item is neither stale nor late, the stored count is the length of the table;
   * `ExactAtRest` - at rest, with no item stale or late, a boot finds the table.

   The last two are for 4. The crux is that a blob has the *current* entries, those
   of the table when it is written, though perhaps not the current *length*: a
   wrong length or count makes a boot lose entries or pad them with zeros, and
   can bring no old one back (`LoadKeysPart`). At rest no table is newer than the
   one of the last write.
4. `StoreImplementsRegistry`: `Spec => ImplementsRegistry`. Initial states map to
   initial states (`InitRefines`). A step that changes the list is one of the
   registry's own (`ChangedRefines`: a call, `AddKey`, `ApproveKey` or `DeleteKey`,
   leaves the stored copy alone and takes the trust in it away); every step of a
   save is `Store` (`StoreRefines`); a refused call is a stutter; a boot is `Boot` or
   `BlindBoot`. The proof rests on `TypeOK` and `SaveInv`, of which `ExactAtRest` and
   `DurableAtRest` say what trust the copy deserves: that is why refinement comes
   after the invariants.

### CloudSync (`CloudSyncProofs`)

For any keys, connections, commands, crashes and power losses:

5. `SyncTypeCorrect`: `CloudSpec => []SyncTypeOK`.
6. `CloudUsesKeystore`: `CloudSpec => Spec` of KeystoreNvs. Whatever the cloud task, the
   owner and the reset do to the store is a step of KeystoreNvs, so that 1 to 4 are
   theorems of the whole firmware: `SyncImplementsRegistry` says so of the refinement
   and of `DurableAtRest`.
7. `PassRevokes`: `CloudSpec => []PassLeavesOnlyServerKeys`. The invariant is that of a
   backward walk: what lies above the index is listed (`Walked`); the entry under the
   index is the key to be removed, if the owner has not removed it already, or a
   listed one that moved down in its place (`Revoking`). That one task only adds
   keys is what the argument depends on: other tasks only take entries away
   (`OnlyLosses`: place `j` then holds what was at `j` or at `j + 1`).
8. `RevocationIsJustified`: `CloudSpec => RevokesOnlyWithdrawn`, an action property, from
   `KnowledgeInv`: whatever is in RAM, in flash or in a response was minted and has
   its public key, which dk-server never takes back while it lists the key (`Past`);
   hence a listed key of the table is in the response of the pass (`PassInv`). A
   crash of dk-server does not break this, because a torn file gives no response
   at all.
9. `PassApproves`: until the first power loss and with an NVS that does not fail,
   `PassApprovesKeys` holds. A pending entry is the one that the task has just added
   (`PendingIsNew`), and `ApproveKey` finds it by id wherever deletions have moved it.
   Both hypotheses are needed: PendingForever is the counterexample with a power
   loss, and the run that checks the property, SyncSafety, has neither power loss
   nor failing writes.

### Passive entry (`MedianFilterProofs`, `PassiveEntryProofs`)

10. `MedianIsMedian`: for every odd window and every content of the buffer,
    `MedianOf(buf)` is a median of `buf`. Nothing is assumed of the recursion: that
    a function with the equation of `Sort` exists is proved first (`SortDef`, by
    unfolding it a number of times that suffices), then that it rearranges the
    samples and leaves them in order (`SortSorts`). The library's induction
    theorems take an operator, which the provers cannot instantiate; both proofs
    use the induction over *sets* of numbers that follows from the well-foundedness
    of `<` (`SetInduction`). `Rank` counts the comparisons still to come.

For any number of connections, window, modulus of the index, thresholds, hold
time and length of a press:

11. `PassiveTypeCorrect`: `Spec => []PassiveTypeOK`, with the addition that the true
    last samples are a sequence. `x % Window` stays inside the ring buffer because a
    window has a place, which is an assumption on the constant.
12. `LedIsRight`: `Spec => []LedShowsLock`. What makes it inductive: a counter of
    presses below the limit, or a reset that is done. Lock and LED change
    together (`ActSetsBoth`, `SampleSetsBoth`), also in a factory reset, and a release
    before the limit shows the lock again.
13. `LastSamplesDecide`: `Spec => []EvaluatesLastSamples`. `WindowInv` relates the ring
    buffer to the true history: the places of the last `Window` indices hold the last
    samples (`HoldsLast`; a wrapped index begins again at zero, and nothing is
    evaluated until it has counted a window); a sample of a former session can only
    be the first (`OwnAfterFirst`), because a reading that was requested before the
    session began comes before all of its own (`ForeignIsFirst`). `PlacesDiffer` shows
    that `Window` consecutive indices have different remainders, `MedianRearranged` that
    a median does not depend on where the ring begins.
14. `OnlySteadyUnlocks`: `Spec => OnlySteadyImmediateUnlocks`, an action property, from
    `RunInv`: the evaluations in a row exceed the hold count of an immediate slot. That
    the connection has an immediate sample of its own, which may be older than its
    authentication, follows from `WindowInv` and 10: if
    all samples but the first were lower, so would be the median (`ImmediateMedian`);
    and with a window of one, the second evaluation is of a sample of its own. The
    hypothesis `HoldTicks < RunCap` only says that the history variable can count as
    far as the property speaks of.

### BleLink (`BleLinkProofs`)

For any number of handles, slots, waiting events and resets. What the host does not
know yet is in `events`; `EventsLead` says that the sets of connections it will
believe in, as it handles one waiting event after the other, lead from the taken
slots to the links of the controller, each of them within `MaxConnections`. With it
come `OneSlotEach`, `CountedRight` (the counter is the number of taken slots) and
`RoomToAdvertise`.

15. `BleTypeCorrect`: `Spec => []BleTypeOK`. That the counter stays in range is
    `CountedRight`.
16. `SlotsFollow`: `Spec => []SlotsFollowLinks`: without waiting events, the first and
    the last of the sets are the same.
17. `NoConnectionUnserved`: `DkAuth_OnConnect` always finds a free slot. Stated for the
    theorem only: the next set of the sequence has room.
18. `AdvertisingResumes`: `Spec => []AdvertisesWhenFree`. The step that empties the queue
    starts advertising, unless the counter, which is right by then (16), says that
    the vehicle is full.
19. `SessionsInheritNothing`: `Spec => []NothingInherited`. A slot is cleared when it is taken
    (a disconnection leaves its contents), and each handle has one slot.

### dk-web (`WebScanProofs`, `WebAuthProofs`)

For any number of browsers, tasks, stations, computers, keys, commands and aborts:

20. `WebTypeCorrect`: `Spec => []WebTypeOK`. A cancellation is under way to a running task
    only (which is why `Stoppable` has its guard), and a query has one cached record.
21. `WebAuthTypeCorrect`: `Spec => []WebAuthTypeOK`. `TypeInv` splits by part of the
    state, with one lemma for each (`ServerKept`, `TableKept`, `SessionKept`, `ProcKept`,
    `HistoryKept`); `Placed` adds which labels a pass and which a command can be at.
22. `KeysHaveOneHolder`: `Spec => []OneHolder`. `HolderInv`: the entries of the table
    and the authenticated sessions name the computer whose public key dk-server
    has. It is kept because dk-server never replaces one (`PubStays`) and only an
    accepted response authenticates (`OnlyAccepted`).
23. `UnverifiedOnlyAfterAbort`: `Spec => []UnverifiedOnlyIfAborted`. `LinkInv` adds that
    a pass that has not connected yet has no link.
24. `ReportsAreTrue`: `Spec => ReportedAuthHappened`, an action property, from
    `ProvenInv`: a pass that is about to read the state has proven its key.

### Model-checked only

Liveness under fairness (`IdsConverge`, `DeviceKeyConverges`, `RevokedSessionEnds`,
`UnlocksWhenNear`, `LocksWhenAway`, `ResetEndsConnections`, `VehicleGetsConnected`,
`UndisturbedPassAuthenticates`) stays with TLC, as TLAPS has no support for `ENABLED`;
so do the counterexamples of the four runs that end in a violation.

## 6. Not modelled, and why

* WiFi: one sequential event handler; CloudSync assumes that requests succeed
  again and again. Its backoff sleeps inside the handler and holds up the event
  loop (`dk_wifi.c:28`), which no state of the models depends on.
* Pairing: disabled in the code (`ble_stack.c:290`); its events are only logged.
* Cryptography: signatures verify or do not; keys are not guessed.
* The inside of NVS: a write of one item is one step, and an erasure leaves both
  items, one or none.
* A `ble_gap_terminate` that fails: the results are ignored (`dk_auth.c:246`, `:260`),
  and the link would stay.
* Torn reads of the key array by another core, and the reads of one slot by
  `DisconnectByKey` one after the other (`dk_auth.c:258`): a change of the table and
  the choice of the sessions to end are single steps. The pointer of the RSSI poll
  into a slot that another task reuses is modelled (PassiveEntry).
* Generation and storage of the device's own key pair (`dk_auth.c`), and the driver
  of the LED strip.
* Account, session and role checks of the HTTP front ends, the event log and the
  patching of vehicle records, `scan` of the command line, the browser pages, build
  tooling: sequential, stateless or display only.
* Responses longer than `MAX_RESPONSE_SIZE`: no model has the size of a message.

## 7. Plan

Done, in this order: key store and its proofs, key provisioning, passive entry,
BLE connections, automatic scan; the abstract registry and the proof that the key
store implements it, the crash of dk-server while it writes its file, the race of
the RSSI poll with BLE events, the inside of a link, and the proofs of every safety
property. What is left:

1. `DisconnectByKey` slot by slot, composed with the slots of BleLink: a slot that
   changes hands between the reads of its handle and its key.
2. Theorems that say under which condition the property of a violated run holds,
   as `PassApproves` does for PendingForever: `ErasedForGood` while no save is under way
   when the reset begins, `NoSessionOfRevokedKey` while no response is verified.
3. `DkWifi`: the backoff in the event handler.
