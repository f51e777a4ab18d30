# PandoraDB (lazarus_data_store): formal model

PandoraDB is an object store over HTTP.  Objects live in *object containers*; a
container is a RocksDB column family in each of the eight data partitions, plus
one key of a separate metadata partition.  This directory holds TLA+ models of
the program, the TLC configurations that check them and theorems checked by
TLAPS.  All source paths below are under `src/src/core/`.

## 1. Inventory

| component | state | operations | who runs it |
|---|---|---|---|
| `storage/management/container_management_service` | none | validate a create or remove request (existence, limit), enqueue it | HTTP threads |
| `storage/management/container_operation_serializer` | a queue and one thread | create: families, metadata key, approvals, index; remove: metadata key, deletion mark | its thread |
| `storage/index/container_index`, `container_bucket` | buckets name -> `shared_ptr<container>`, a counter | insert, remove, get, snapshot of a bucket | all threads |
| `common/concurrent_flat_map` | shards of a hash map, a reader-writer lock each | insert, get, exists, erase, get_all, get_size | all threads |
| `storage/models/container` | name, engine reference per partition, deletion mark | mark, read, destructor closes the references | last owner |
| `storage/io/storage_engine` | RocksDB handle, `approved_references_` | object and column family operations behind the fence | all threads |
| `storage/io/data_partition*`, `collocation_resolver` | engine, path, index of the partition | list families, boot, route a key | start-up |
| `storage/index/container_loader`, `container_registry` | references found per name | rebuild the index from metadata and disk, mark orphans | start-up |
| `storage/gc/garbage_collector`, `orphaned_container_scavenger` | iteration | scan buckets, drop what is marked, erase it from the index | its thread |
| `storage/management/object_management_service`, object request handlers | none | check the container, cache lookup, route to a dispatcher | HTTP threads |
| `storage/io/write_io_dispatcher` | queue, one thread per partition | write or delete, then cache, then answer | its thread |
| `storage/io/read_io_dispatcher`, `read_io_executor` | thread pool per partition | read, answer, then cache | pool threads |
| `storage/cache/frontline_cache`, `cache_shard`, `cache_accessor` | LRU shards | put, get | HTTP, read and write threads |
| `storage/io/threading_context*` | dispatchers of a partition | lookup | all |
| `startup/pandora_db`, `system_init` | owns everything, the stop source | start-up, signal handler, destruction | main thread |
| `network/server`, endpoints | none | HTTP | drogon |
| `schemas`, `request_validations`, `status`, `logger`, configuration, Python SDK, scripts | none | parsing, formatting, generated code | - |

What is hard: a container exists in four places (families, metadata key,
approved references, index entry) that change in separate steps; three kinds of
threads change them; the process may die between any two steps and rebuilds the
index from the disk, which it may die in the middle of; an engine call may fail in the middle of a loop over the
partitions; a handle is freed by whichever thread drops the last reference, and
its address may be the next handle's; at the end the data store is taken apart
member by member while some of its threads still run.
`PROJECT.json` lists each hazard at its line.

What makes each part correct:

* serializer: a request takes effect at one instant, what is answered is what
  happened, a crash undoes nothing that was answered;
* index: it serves the containers of the metadata, and its counter is its size;
* collector: it drops only dead containers, erases what it dropped, and gets to
  every one of them;
* container and fence: a handle outlives its users and nothing else does, and the
  table of approvals follows the handles;
* concurrent map: every operation is atomic, the copy of the whole map as well,
  and threads never wait for each other in a circle;
* loader: no crash leaves a disk it refuses, and it serves whole containers only;
* shutdown: every join ends, and the engines go after everybody who calls them;
* object path and cache: a get answers the last acknowledged write;
* shard: its byte count is the sum of its entries and within the maximum.

## 2. Modules

| module | what it is |
|---|---|
| `ContainerLifecycle` | containers: requests, serializer thread, collector thread, references held by object requests, crash and start-up, engine failures |
| `ContainerStore` | what `ContainerLifecycle` promises, three variables |
| `ContainerNames` | the life of a container's name as the other components see it; `ContainerLifecycle` and `StartUp` implement it, `ObjectPath` takes its moves |
| `StartUp` | the start-up step by step on whatever earlier sessions left on the disk, with the internal containers |
| `ObjectPath` | requests on the objects of one container: HTTP thread, cache, writer thread, read pool, while the container is removed and created again |
| `CacheShard` | one LRU shard of the frontline cache |
| `FrontlineCache` | what a shard promises; `ObjectPath` uses it as its cache, `CacheShard` implements it |
| `ConcurrentFlatMap` | the sharded map, lock by lock |
| `AtomicMap` | what the map promises |
| `EngineReferences` | handles of one engine and the table that fences them; extends `ConcurrentFlatMap`, whose operations its threads call |
| `Shutdown` | the threads of the process, the signal handler, and the destruction of the data store |
| `MCContainerLifecycle`, `MCStartUp`, `MCObjectPath`, `MCCacheShard`, `MCEngineReferences` | constants and symmetry for TLC |
| `ContainerLifecycleProofs`, `ContainerMemoryProofs`, `StartUpProofs`, `ObjectPathProofs`, `CacheShardProofs`, `ConcurrentFlatMapProofs`, `EngineReferencesProofs`, `ShutdownProofs` | theorems, by TLAPS |

How they fit together.  `ContainerLifecycle` takes a start-up as one step and
`StartUp` a session's operation as one: the first has the interleavings of the
threads, the second those of a start-up with crashes, and the internal
containers.  Where they meet, two properties hold them together: the steps of
`StartUp` amount to the one step of `ContainerLifecycle`
(`StartServesTheDisk`), and in both a name has the life `ContainerNames` gives
it (`ImplementsNames`), which is all that `ObjectPath` knows of containers:
its `MarkAsDeleted`, `DropContainer`, `CreateContainer` and `Restart` are the
moves of that module.  `ContainerLifecycle` treats an approval as a set membership and
the index as a function; `EngineReferences` and `ConcurrentFlatMap` show what
lies under both.  `Shutdown` keeps of every thread only which members of the
data store it reads at each point of its loop.

A definition that begins with the comment "Mutant:" is no part of a
specification: it is the next definition with a plausible error in it, and the
property the error breaks is checked against it.

### ContainerLifecycle

An object of class `container` is a record of its name and an address, so that
two containers of one name, the one waiting for its last user and its
successor, are different; an address can be used again once the destructor has
run.  `columnFamilies[p]` and `metadata` are the disk and survive a crash.
`handles` and `approved` are the column family handles and the set behind the
fence; a handle of a dropped family stays usable and is `"dropped"`, which the
engine refuses to drop again.  `index` and `objects` are the table and the
deletion marks.  `serializer` and `gc` hold the program counter and the locals
of the two threads, one action per step that another thread, a failure or a
crash can separate from the next.

| actions | code |
|---|---|
| `ValidateRequest`, `EnqueueRequest` | `container_management_service`, `container_request_handler::run` |
| `BeginCreation`, `CreateInstance`, `FailCreateInstance`, `PutMetadata`, `ApproveReferences`, `InsertIntoIndex`, `CountContainer` | `handle_container_creation` in order |
| `BeginRemoval`, `DeleteMetadata`, `MarkAsDeleted` | `handle_container_removal` in order |
| `SendResponse` | end of `container_operation_serial_proxy` |
| `GCSnapshotBucket`, `GCInspect`, `GCDropInstance`, `GCFailDrop`, `GCNullReference`, `GCEraseFromIndex`, `GCUncount`, `GCFinishBucket` | `garbage_collector`, `orphaned_container_scavenger` |
| `AcquireContainer`, `ReleaseContainer`, `DestroyContainer` | `object_request_handler::run`, end of an IO task, `~container` |
| `Crash`, `Start` | death of the process; `pandora_db::bootstrap_storage_state` with the loader |

Abstractions:

* The existence check and the limit check of a request are one action; the
  counter is never read for anything else, and the two values that matter, a
  stale status and a stale counter at the serializer, are both reachable.
* A request refused by its validation is answered at once and leaves no trace.
* The approvals of one creation are one action: nobody reads the set for these
  handles before the container is indexed.
* Lookup and deletion check of an object request are one action: an object that
  is not marked is still indexed.  The short references that existence checks
  take are left out; they only move the destructor to another thread.
* A start-up is one action: nothing else runs before it ends.  `StartUp` has
  its steps, and the internal containers (`default`, `metadata_default`,
  `metadata_containers`) that are left out here; `MaxContainers` is what they
  leave of `max_number_containers_`.
* The locals of both threads are reset when they are not in use: a program
  counter without a container has `NoContainer`.
* RocksDB is external: an operation takes effect or fails with an error, writes
  survive the death of the process (not of the machine: writes are not synced),
  a family cannot be created twice or dropped twice.

Named bounds: `Addresses`, `Clients`, `Users`, `MaxFailures`, `MaxCrashes`.

### ContainerStore

The set of existing containers, the requests that have had no effect yet and
those with an outcome.  A creation commits when its key is put into the
metadata and a removal when it is deleted; a response of success belongs to
exactly those.  `LoseRequests` is the crash: it never touches the containers.
The refinement mapping (`Store` in `ContainerLifecycle`) reads the outcome off
the program counter of the serializer.

### ContainerNames

What a name stands for: nothing, a container that is served, or one that awaits
the collector.  `Create`, `Remove` and `Collect` are the moves of a running
process, `Abandon` is a creation the process did not survive, which the next
start-up indexes as an orphan.  A step may move several names, for a crash may
interrupt a creation and a start-up finds the families of all of them.  The
refinement mappings (`StateOf`) read a running process' index, and of a process
that is down what its next start-up would load: a crash between the metadata
key of a removal and the mark completes the removal, one between the key of a
creation and the index completes the creation.  In `ObjectPath`, which sees no
keys, such a crash is a move and a `Restart`, and an abandoned creation is a
`Restart` that moves the name.

### StartUp

`metadataFamilies`, `metadata` and `families` are the disk: the column families
of the metadata partition, the keys of `metadata_containers`, the families of a
structured partition.  `mapping` is `metadata_partition_references`, `registry`
the `container_registry`, `approved` and `index` what they are called in the
code.  `stage` is the point the process has reached.

| actions | code |
|---|---|
| `Launch` | the process is started |
| `BootMetadataPartition`, `BootStructuredPartition`, `FailBoot` | `data_partition`: list the families, open the engine with them, approve |
| `BeginLoad`, `CreateMetadataFamily`, `RegisterDefault` | `load_container_index`: a first start is one that finds one family on the metadata partition |
| `LoadContainerIndex`, `FailLoad` | integrity validation, orphans, validation of the references, insertion into the index |
| `CreateContainer`, `AbandonCreation`, `RemoveContainer` | the serializer in a running session, as one step that may stop anywhere |
| `CollectContainer`, `CollectMetadataContainers` | the collector |
| `Crash` | death of the process at any of these steps |

The names clients may use in requests are `Requests`, and the run lets them name
the internal containers too: nothing in the code tells these apart.  Removing
`metadata_containers` destroys what the store knows of its containers, and the
next container request dereferences a null `shared_ptr`; the properties are
about histories where nobody does (`MetadataKept`), and hold when any other
internal container is named.  `acknowledged`, `removed` and `engineFailed` are
history variables.  The life of a name (`ImplementsNames`) has no such exception:
what loses its key that way awaits the collector after the next start-up.  Named bounds: `MaxFailures`, `MaxCrashes`.

### ObjectPath

`container` and `generation` are what an object request can see of the
container: its state in the index and which creation of the name it is; the
steps between the states are `ContainerLifecycle`'s.  `store[g]` is the column
family of generation `g` over the partitions, `cache` the frontline cache under
the container's name, `request` the `object_io_task` (or the request on its HTTP
thread) in each slot.  `acknowledged` is a history variable, and so is the
generation of a cache entry: the program keeps neither.

| actions | code |
|---|---|
| `BeginGet`, `BeginWrite` | `object_request_handler::run`, and for writes the enqueueing in `orchestrate_concurrent_write_request` |
| `LookUpCache` | `get_object_request_handler::execute_operation`: a hit is answered, a miss posted |
| `ReadObject`, `FillCache` | `read_io_dispatcher::dispatch_read_io_task` before and after its answer |
| `ExecuteWrite`, `CacheWrite`, `AnswerWrite` | the three parts of `write_io_dispatcher::execute_write_io_task`; `Busy` is its loop, one task at a time per partition |
| `EvictOldest` | a put of another object in the same shard |
| `MarkAsDeleted`, `DropContainer`, `CreateContainer` | serializer and collector, as far as object requests see them |
| `Restart` | death of the process and the start-up that follows |

Abstractions:

* Gets and removes carry no data.  The schema would parse an `object_data`
  field of any request (`object_request.cc:42`) and the service looks at it for
  insertions only (`object_management_service.cc:129`), but clients (the Python
  one in `sdk/`) send it with insertions only.  `CachedDataIsCurrent` and
  `AcknowledgedIsReturned`, and their theorems, hold only under this condition:
  with a get or a remove that carries data of its own, that data would end in
  the cache.
* A put into the frontline cache is one step, the check of the container
  included: an entry put after the container is marked has the same effect as
  one put just before, and one put after the name was created again the same as
  one whose check came after that.
* An eviction may happen at any time, because other objects fill the shard at
  any time; `CacheShard` shows that nothing else happens to an entry.
* The answer of a get is not a variable: what a lookup would answer now is
  `ReturnedByGet`, a function of the state.
* The order of tasks in a queue is left open: the queue of `moodycamel` only
  orders the tasks of one producer, and every HTTP thread is one.
* RocksDB is external: it refuses writes to a dropped family and still reads it
  through an open handle.  The family a request uses is open while the request
  runs (`HeldReferencesAreFenced` of `ContainerLifecycle`).

Named bounds: `Slots`, `MaxGenerations`, `MaxFailures`, `MaxCrashes`.

### CacheShard and FrontlineCache

`lru`, `mapped` and `currentSize` are the list, the keys of the map and
`current_cache_shard_size_bytes_`; an iterator of the map is the node of that
key, which `MapAgreesWithList` shows to be well defined.  `holder` is the put
that has the mutex.  `OverwriteFront`, `EraseOlder`, `EvictOldest` (one round of
the loop) and `InsertAtFront` are the steps of a put, `Get` is a hit.  The count
is unsigned: it wraps at `Modulus`, sixteen in the run, which stands for 2^64.
The mutex hides the steps of a put from other threads, and its properties hold
at each of them; the abstract cache sees an erasure or an eviction as the loss
of an entry and the last step of a put as its effect.

`FrontlineCache` has a map from keys to contents, one put at a time and `Evict`
of any key.  `ObjectPath` instantiates it (`Shard`) with the keys of one
container; in `CacheShard` a key is a container name with an object.

### ConcurrentFlatMap and AtomicMap

`table` is the content of all shards, `shared` and `exclusive` the holders of
each lock, `call` the operation of a thread with the locals it needs: the next
shard to lock or to visit, and the entries it has seen.  `Begin` and `Return`
are the call and its return; `LockShardOfKey`, `Execute` and `Unlock` an
operation on one key; `LockNextShard` and `VisitNextShard` the two loops of
`get_all` and `get_size`.  `std::shared_mutex` is external: it is granted in any
order, so a writer may starve, and nothing is said about progress.

`AtomicMap` invokes, applies and returns.  The refinement mapping lets an
operation on one key take effect at `Execute` and one on the whole map with the
last of its locks, though it reads the shards later.

### EngineReferences

The keys are addresses of column family handles.  `handle` is the heap, `owned`
the handles of indexed containers, `job` what a thread is doing with a handle.

| actions | code |
|---|---|
| `CreateHandle`, `ApproveReference`, `IndexContainer` | the serializer: `create_container`, `register_approved_engine_references`, insertion into the index |
| `BeginClose`, `PassFence`, `DestroyHandle`, `EraseReference`, `FinishClose` | `close_container_storage_engine_reference` on the thread that destroys a container |
| `Observe` | the fence of a request, a copy of the whole map |
| `RunCall` | steps inside the map |

The allocator may give any free address.  `close_container_storage_engine_reference`
frees the handle before it erases the address from the table, so another
thread's new handle can get an address that is about to be erased: it then
loses its approval, and every request to that container is refused.  `reused`
is a history variable that marks exactly these handles;
`OwnedReferencesAreApproved` exempts them, and without the exemption TLC finds
the loss.

### Shutdown

`main` is the main thread, `alive` how many members of `pandora_db` are left (it
destroys them from the last declared to the first), `context[p]` how much of a
partition's threading context.  The threads keep a program counter that says
which members they are reading, and the queues only their length.

| actions | code |
|---|---|
| `BootStorage`, `StartCollector`, `StartDispatchers`, `RunServer` | `start_data_store` |
| `DestroyContext`, `DestroyMember`, `ReturnFromMain` | the destructor of `pandora_db`, with the joins in it |
| `ReceiveSignal`, `QuitServer`, `RequestStop` | `signal_handler` |
| `AcceptRequest` | HTTP threads hand a request to a queue |
| `CollectorStep`, `SerializerStep`, `WriterStep`, `ReaderStep` | the loops of the threads |
| `EndInterval` | the collector's sleep runs to its end (`alertable_sleeper`) |
| `Die` | a thread has read a member that is gone |

External, modelled from its use: drogon's `run()` returns after `quit()` and its
HTTP threads have ended by then; `quit()` does nothing unless the loop is
running; the destructor of a thread pool drops what is posted and waits for what
is executing.  One reader stands for the threads of a read pool, which share
nothing but their queue.

`container_index_`, `frontline_cache_` and `cache_accessor_` are declared last
and so destroyed first, while dispatchers that read them are not joined yet
(`pandora_db.hh:114`), and a read's `read_io_executor_` goes before the pool that
calls it (`read_io_dispatcher.hh:88`).  What happens then is undefined: `Dangling`
says a thread is reading a member that is gone, from then on it may die or hang,
and no property is claimed.  That it happens, TLC shows when asked for
`~ Dangling`: the collector begins an iteration over the destroyed index.  Named bounds: `MaxRequests`, `MaxSignals`.

## 3. Runs

| run | question | result |
|---|---|---|
| `many_names` | two clients, three names, a limit of one, two partitions, one object request, one engine failure anywhere, two crashes; 276 360 states up to symmetry | the two threads never see each other's half-done work: index and metadata agree up to one step, a freed name has no residue, the counter lags by one step, no start-up is stopped; the limit is passed, by less than the requests in flight and the failures; `ContainerStore` and `ContainerNames` are implemented |
| `one_name` | two clients on one name, two addresses, three partitions, two buckets of which the name is in the second, one object request, one failure, two crashes, fairness; 95 594 states | held references stay fenced and open, handles have an owner, the collector erases what it dropped and is refused a drop only after a crash or a failure; every request is answered or lost to a crash; what a removal or an interrupted creation left is dropped and closed |
| `startup` | first and later start-ups with two crashes and one engine error at any step, requests naming any container, the internal ones included, fairness; 355 063 states | no disk stops a start-up, no acknowledged container is lost, no partial one served, the store comes up again and again; what it serves then is what is on the disk, and no removed container comes back |
| `objects` | two requests at a time on one object, two values and one the cache refuses, two generations, one failure, one crash, fairness; 130 872 states | data in the cache is data in the engine but for three stated exceptions; acknowledged insertions stay, and a get returns them unless the cache has empty data or refused them; every request ends |
| `shard` | three objects, data of zero, one, three and five bytes in a shard of four; 12 859 states | list and map agree, the count drifts at one step only, the shard fits its maximum while it has not, the abstract cache is implemented |
| `references` | the serializer, two threads that close handles, one that looks up and copies, two addresses in two shards; 249 070 states | the map is an atomic map, copies are consistent, nobody waits in a circle; approvals follow the handles but for reused addresses |
| `shutdown` | two partitions, two requests, two signals at any moment, fairness; 111 903 states | the engines outlive their users; nobody joins a thread that is not told to leave; writes are served until a stop; a signal to a serving process ends it without waiting for the collector's interval |
| `failed_drop` | a removed container is cleaned up in its session | violated by one transient failure |
| `crash_in_drop` | orphans are cleaned from the disk | violated: a restart loop |
| `first_startup` | the default containers are registered | violated by a crash in the first start-up |
| `stale_get` | a get after an acknowledged insertion returns it | violated: empty data from the cache |
| `shard_bytes` | a shard stays within its maximum size | violated after an overwrite |

Why the bounds are enough.

* `many_names`: two clients give every race of two requests with each other and
  with the collector; three names under a limit of one let the limit be passed
  by a running and a waiting creation and leave a name to try again.  One
  address per name suffices where no property tells an old object of a name
  from its successor; `one_name` has two, which is what a removed object with a
  user and its successor need.  Symmetry over names, addresses and clients is
  used in this run, which checks no liveness.
* Two partitions separate the first from the last step of the loops; `one_name`
  has three because the prefix a crash leaves can then be neither none, one nor
  all.  Two crashes let the second fall into the repair of the first; one
  failure covers each call failing, as no step waits for two.
* `startup`: two clients' containers, so that one can be whole while the other
  is an orphan; two partitions, for an orphan on some of them.
* `objects`: one key is enough: keys share nothing but the writer thread, which
  the proofs cover for any number of keys and partitions, and evictions, which
  happen at any time anyway; two generations give an entry and a request their
  predecessor, and two slots every pair of a read and a write or of two writes.
* `shard`: one put can need no, one or two evictions, data can be empty or
  refused, and the drifting count can wrap.
* `references`: a copy of the whole map needs two shards to be torn, an address
  to be reused needs a close and a creation, and two closes need a third thread;
  the proofs cover every number of each.
* `shutdown`: two partitions give a context that is gone while another one is
  still served; a second signal falls between the two calls of the first.

`TypeOK` is an invariant of the runs `many_names`, where it ties the locals of
the threads to their program counters, and `shard`, where it holds the count in
its width; in the other modules it is proved (`TypeCorrect`) and no run
repeats it.

Deadlock is checked in every run but `shutdown`, whose process is meant to end;
a process that serves and gets no more requests and signals has no step left
either.  That it does not stop earlier is `SignalEndsTheProcess`.

### Disagreements found

* `failed_drop`: the retry of a drop starts from the first partition, where the
  family is already dropped and the engine refuses
  (`orphaned_container_scavenger.cc:98`).
* `crash_in_drop`: families are dropped from the first partition on, so a crash
  there leaves an orphan that is null on the first partition.
  `container_loader.cc:508` allows null references of orphans and `~container`
  passes them over, but the collector hands them to the engine, and
  `storage_engine.cc:393` logs the identifier of the handle it has just rejected
  as null: the process dies after every restart before it drops anything.
* `first_startup`: `load_container_index` takes one family on the metadata
  partition for a first start.  A crash between the creation of the second one
  and the put of its first key (`container_loader.cc:212`), or a put that fails,
  leaves a store that never registers its default container; it is indexed as an
  orphan and the collector tries to drop RocksDB's default family for ever.
* `stale_get`: `read_io_dispatcher.cc:103` fills the cache from the get's own
  request, which has no data, so the next get is a hit with nothing in it.
  `StrongConsistency` would not hold without this either: a put over the limit
  leaves the older value (`cache_shard.cc:42`), and entries of a removed
  container survive it under its name (`frontline_cache.cc:44`).  A successful
  remove also puts its empty data into the cache (`write_io_dispatcher.cc:149`).
* `shard_bytes`: `cache_shard.cc:68` replaces the data of the front entry and
  leaves the byte count as it was.

Things that hold with an exception the properties name:

* the limit of containers is read on the HTTP thread and never again
  (`container_management_service.cc:139`), so it can be passed;
  `OvershootIsBounded` says by how much;
* what a creation that failed on a later partition made stays until the next
  start-up, and its name cannot be created again in this session
  (`container_operation_serializer.cc:329`; `FreedNameHasNoResidue` and
  `HandlesAreOwned` speak of sessions without an engine failure);
* an address that is given out again while it is being closed loses its approval:
  the fence then refuses all requests to the new container
  (`storage_engine.cc:314`; `OwnedReferencesAreApproved` exempts what is `reused`);
* a signal before the event loop runs stops the threads but not the server,
  whose writes are then queued for nobody until another signal comes
  (`system_init.cc:281`; `WritesAreServedUntilStop` ends with the stop, and
  `SignalEndsTheProcess` begins with a server that runs);
* the index, the cache and the executor of the reads are destroyed before the
  threads that use them are joined (`pandora_db.hh:114`,
  `read_io_dispatcher.hh:88`; `PartitionsOutliveTheirUsers` is about the engines
  only, and the liveness properties of `Shutdown` end where a thread is
  `Dangling`);
* removing `metadata_containers` by name destroys the store (`MetadataKept`).

### Fairness

`ContainerLifecycle`: weak fairness of the serializer and the collector thread
while the process is up (they are loops without locks held across iterations,
and the collector's sleep is bounded), of the call that enqueues a validated
request (it follows in the same function), of the end of an object request, and
of the destructor (it runs in the step that drops the last reference).
`Start` is fair: whoever operates the store starts it again.  Clients are not
fair: nobody has to send a request, and crashes and failures never have to
happen.

`StartUp`: weak fairness of the start-up, the launch included; no step of a
session is fair.

`ObjectPath`: weak fairness of each request's HTTP and pool thread and of each
writer thread as a whole.  Which task a writer takes next is not fair: the queue
promises nothing across producers.  Therefore `RequestsDrain` says that requests
end unless clients keep sending new ones.

`Shutdown`: weak fairness of the main thread, the signal handler and every
worker thread, as long as none of them has met a member that is gone.
`EndInterval` is not fair: the interval of the collector's sleep is a minute by
default and can be configured to weeks, so that the end of the process must not
depend on it.  What ends the sleep is the stop request, which
`condition_variable_any::wait_for` takes with its token
(`alertable_sleeper.cc:31`); the error that `SignalEndsTheProcess` is checked
with is a sleep that does not hear it.

`CacheShard`, `ConcurrentFlatMap` and `EngineReferences` state no fairness.

## 4. Proofs

All theorems hold for every value of the constants under the assumptions their
modules name.

`ContainerLifecycleProofs` (at least one partition and one bucket, a bucket for
every name, finitely many names, natural bounds, `NoContainer` not an object):

* `TypeCorrect`: `Spec => []TypeOK`.  `TypeOK` is inductive because
  `SerializerStates` and `CollectorStates` tie the locals of a thread to its
  program counter, and a thread that is not idle has a request at the head of
  the queue.
* `DurableInvariant`: `Spec => []DurableInv`, from which
  `WellDefinedTransactionCorrect` and `CollectorCorrect` follow.  That the
  metadata only names complete containers is not inductive: the key is put
  after the loop over the partitions, so `CreationKeepsItsName` carries which
  families exist at each point of it; and the collector must not drop a family
  the creation has just made, so its object is not the one of the name being
  created (`CreationKeepsItsName`: the name is free in the index;
  `CollectorKeepsItsObjects`: the collector's objects are indexed), and it is
  not in the metadata (`DeletedHasLeftMetadata`).  `ThreadsAreIdleWhenDown`
  lets a start-up begin with clean threads.

`ContainerMemoryProofs` (in addition: finitely many clients, and at least one)
rests on `DurableInvariant` and proves every other invariant of the model and
its refinement:

* `MemoryInvariant`: `Spec => []MemoryInv`, with `IndexCorrect`
  (`IndexAgreesWithMetadata`) and `FenceCorrect` (`HeldReferencesAreFenced`).
  The two changes of the serializer thread are several steps apart, so
  `ChangeIsUnderway` remembers what it has done to the metadata and what it
  still finds in the index; `CreationHasItsHandles` says which handles the new
  object has at each point of the loop, so that it is complete when it is
  indexed; `ReferencedObjectsExist` keeps destructors from what is indexed or
  held.
* `ResidueInvariant`: `Spec => []ResidueInv`, with `ResidueCorrect`
  (`FreedNameHasNoResidue`) and `OwnershipCorrect` (`HandlesAreOwned`).  Its
  conjuncts say what the loops over partitions have not reached yet
  (`NothingIsAheadOfCreation`) or have behind them (`NothingIsBehindCollector`),
  and that a destructor, which closes only approved handles, leaves none
  (`HandlesAreApproved`).
* `CounterCorrect`: `CounterMatchesIndex` is inductive next to `DurableInv`.
* `LimitCorrect`: `OvershootIsBounded` is not inductive, as it counts indexed
  containers only.  `GrowthIsBounded` counts every name that is indexed or on the
  disk together with the clients whose creation has not reached the disk yet: the
  sum grows only where a request passes the limit, and then the client joins it.  What no client is
  responsible for are leftovers of failed creations, at most one per failure
  (`LeftoversAreFailures`), which a start-up indexes.
* `StoreCorrect`: `Spec => ImplementsStore`.  A creation takes effect when its
  key is put into the metadata and a removal when the key leaves it; a
  crash loses the requests that have not.  `ClientsAreBusyOnce` makes the answer
  of a client the answer to its one request, `HandlerFitsRequest` keeps the
  serializer thread in the branch of the request it serves.
* `DropsCorrect`: `Spec => []DropsAreAccepted`.  The drop to come says nothing of
  the next, so `DropInv` speaks of every container that awaits the collector:
  it is approved wherever it has a handle (`DeletedIsApproved`), it has one
  everywhere but after a crash (`DeathsAreCrashes` leaves nothing else to die
  of), and what is dropped already lies behind the collector in the iteration
  it is in (`DroppedIsBehind`).
* `NamesCorrect`: `Spec => ImplementsNames`.  Most steps move one name or none.
  A crash is the hard one: it takes every name from what the index says of it to
  what is on the disk, and the lemma `DeathSettles` shows that this is a move
  of `ContainerNames` or none.  For the removal in progress that needs
  `RemovalHasItsFamilies`: were its families gone, the container would vanish
  without having been removed.

`StartUpProofs` (at least one partition, the internal names distinct and no
client's, natural bounds):

* `TypeCorrect`, and `StartUpInvariant`: `Spec => []StartUpInv`, which contains
  `OnlyEngineErrorsStopStartUp` (`StartUpCorrect`),
  `AcknowledgedContainersSurvive` (`DurabilityCorrect`) and
  `ServedContainersAreWhole` (`ServiceCorrect`).  The argument is about the disk:
  `MetadataIsWhole` and `DefaultIsFirst` hold whatever step a session ends with,
  because a name enters the metadata after its last family and leaves it before
  the first one goes.  `LoaderAgreesWithDisk` and `MappingIsApproved` say that
  what a start-up has read so far is that disk, so that the lemma
  `FoundIsLoadable` can conclude that its validation succeeds.
  `InternalNamesAreTaken` is what keeps a client's container from the names of
  the internal ones: these are always indexed.
* `DiskIsServed`: `Spec => StartServesTheDisk`.  `LoaderAgreesWithDisk` has half
  of it, that what is found is approved; `ApprovedIsFound` adds that nothing
  else is, while a start-up goes on.
* `NamesCorrect`: `Spec => ImplementsNames`.  `BootKeepsDisk` says that a
  start-up that has not come to its end changes no client's container,
  `LoadedIsOnDisk` that its last step serves what is on the disk, and
  `SessionKeepsNames` that no operation of a session, wherever it stops, makes
  one of the two forbidden moves, from served to absent and from deleted to served.

`ObjectPathProofs` (at least one partition and one generation, a partition for
every key, natural bounds, distinct `Empty` and `None`; the set of slots may be
infinite):

* `TypeCorrect`: `Spec => []TypeOK`.
* `PathInvariant`: `Spec => []PathInv`, from which `CacheCorrect`
  (`CachedDataIsCurrent`) and `AcknowledgementCorrect` (`AcknowledgedIsStored`)
  follow.  Neither is inductive.  The put of a write is only right because the
  engine still holds what that write stored (`EffectIsStored`), and that needs
  that no other task of the partition executes in between
  (`WriterIsExclusive`).  Entries of a container must still be excused when a
  removal made the property vacuous, so `CachedDataIsExcused` speaks of every
  state of the container, and `NothingIsAhead` says that no request or entry is
  of a generation still to come.  `AcknowledgedIsSettled` adds that while an
  insertion is acknowledged no write of its key is in flight.
* `CacheInvariant`: `Spec => []CacheInv`, with `GetCorrect`
  (`AcknowledgedIsReturned`).  The stored value alone does not bound what the
  cache holds, since a get that missed earlier may still fill it.
  `InsertionStaysCached` follows the data from the put of the insertion to its
  answer and `AcknowledgedStaysCached` from there on: other data of the key
  would need a write of its own, which `WriterIsExclusive` and
  `AcknowledgedIsSettled` exclude, and what a get brings is empty.

`CacheShardProofs` (sizes are natural numbers, and the count is wide enough for a
full shard and an object; an object may be larger than a shard, as the
configuration does not exclude it):

* `ShardInvariant`: `Spec => []ShardInv`, with `TypeCorrect` and `MapCorrect`
  (`MapAgreesWithList`), for lists of any length: lemmas about lists with one
  node for each key say which keys a removal loses and an insertion adds, and
  what every other key still finds.
* `CacheCorrect`: `Spec => ImplementsFrontlineCache`, from the same lemmas: each
  step changes what one key finds, to the new content or to nothing, and a get
  changes nothing.
* `SizeInvariant`: `Spec => []SizeInv`, with `ShardFits`
  (`FitsWhileAccountIsExact`) and `OverwritesAloneMiscount`
  (`OnlyOverwritesMiscount`).  A sum over a list would need induction; the bytes
  are therefore a set, with as many elements for a node as it has bytes, and
  `TotalSize` is its cardinality, so that a step adds or removes one node's
  elements (`InsertBytes`, `EraseBytes`, `EvictBytes`).  A count above the
  maximum is only left behind by a single object (`CountIsBounded`); between
  the erasure of an older node and its insertion it need not hold.  The count
  wraps, so the theorem about miscounting is about remainders
  (`RemainderOfDifference`).

`ConcurrentFlatMapProofs` (keys exist, at least one shard, every key in one):

* `SnapshotCorrect`, `MapCorrect`: a visit is consistent and the map implements
  `AtomicMap`.  The invariant `MapInv` says that locks exclude each other and
  that every thread holds those its program counter implies; so nobody writes
  during a visit, and what the visit will have seen in the end is already
  determined when it gets its last lock, which is where the refinement lets it
  take effect.
* `WaitsCorrect`: the locks of a waiting thread are of shards before the one it
  waits for (`HeldLocksAreBehind`), so that no circle can close.

`EngineReferencesProofs` (as above, and observers do not modify):

* `EngineInvariant`, with `TypeCorrect`, `ApprovalCorrect`
  (`OwnedReferencesAreApproved`), `FenceCorrect` (`ApprovedReferencesAreOpen`).
  `CallsBelongToJobs` ties a thread's call of the map to what it does with its
  handle, `HandlesHaveOneOwner` keeps two threads from closing one handle,
  `ApprovalsAreFollowed` finds for each stale approval the erasure that is still
  to come, and `ReuseIsKnown` that none is coming for a handle that is not
  `reused`.
* `EngineUsesMap`: the engine's steps are the map's, so that
  `SnapshotCorrectHere`, `WaitsCorrectHere` and `TableCorrect` are inherited.

`ShutdownProofs` (at least one partition, natural bounds):

* `ShutdownInvariant`, with `TypeCorrect` and `EnginesGoLast`
  (`PartitionsOutliveTheirUsers`).  `ThreadsAreJoined` and `ContextsAreJoined`
  say what a destroyed owner of threads guarantees, `DestructionComesLast` that
  nothing is destroyed while requests still arrive.
* `JoinsCorrect`: `Spec => []JoinsAreAnnounced`.  `HandlersGoOn` ties the end of the
  event loop to a handler on its way to the stop, and the other way to the end
  of `main`, a start-up that failed, to the threads it had not started yet.

There is one lemma per group of actions, with one step per action.

Only model-checked:

* every liveness property (`RequestsAreAnswered`, `CrashedCreationsAreReclaimed`,
  `RemovalsReachTheDisk`, `HandlesAreClosed`, `RequestsDrain`,
  `StartUpIsNeverWedged`, `WritesAreServedUntilStop`, `SignalEndsTheProcess`):
  the prover does not treat fairness and `ENABLED`;
* what the runs that expect a violation show.

## 5. Not modelled

* HTTP parsing, the checks of sizes and names, the mapping to status codes,
  logging, the Python SDK and the scripts keep no state the properties could be
  about.  Routing, parsing and threads of the server are drogon's.
* Configuration is constant after the first step of the process and appears as
  CONSTANTS.  The conversion of the shard size from MiB (`system_init.cc:122`)
  multiplies in 32 bits before it widens; `CacheShard` takes the result as a
  parameter.
* An object request that names an internal container reaches a partition table
  that has no such partition (`container.cc:144`); `ObjectPath` has clients'
  containers only.
* The LRU order of a shard is modelled, how the frontline cache picks a shard is
  not: shards share nothing.
* `shutdown_orchestrator` and `inflight_operations_tracker` are empty files.
* RocksDB beyond what is said above: write-ahead log, compaction, and loss of
  unsynced writes when the machine dies.

## 6. Plan

The modules of the plan are written and checked, and every invariant, every
action property and every refinement the runs check is proved.  What is left,
in this order:

1. An `AtomicMap` in place of the plain table of `ContainerLifecycle`'s index, so
   that its snapshot of a bucket is `ConcurrentFlatMap`'s by substitution.
2. The approvals of `ContainerLifecycle` are set operations by owner, those of
   `EngineReferences` by address: an abstract fence that both implement, with the
   reused addresses as its exception.
3. The safety parts of the liveness properties as invariants with proofs: where a
   waiting request is, and which step comes next for it.
