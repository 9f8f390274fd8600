# Verification of the S3 Tables controller

The repository is an ACK service controller: a Kubernetes operator that keeps S3 Tables
resources (table buckets, namespaces, tables) as custom resources say. This directory holds
TLA+ models of its own logic, the TLC configurations that check them and TLAPS proofs about them.

    tlc -config TableBucket.cfg MCTableBucket.tla         # one run; the cfg names the run
    tlapm TableBucketProofs.tla                           # one module of proofs

## 1. The system

The program is a set of *resource managers*, one package per kind under `src/pkg/resource/`.
They are called by the reconciler of the ACK runtime (`github.com/aws-controllers-k8s/runtime`
v0.65.0, not in the repository), which takes a custom resource from a work queue and makes one
*pass* over it:

    ManagerFor -> EnsureTags -> ReadOne -+-> (NotFound) MarkManaged, Create, ReadOne, patch spec -+
                                         +-> (differs)  Update ----------------------------------+-> LateInitialize -> patch spec -> patch status
                                         +-> (equal) --------------------------------------------+
    deleted resource: ReadOne -> Delete -> MarkUnmanaged

| component | state it keeps | operations | what is hard |
|---|---|---|---|
| TableBucket manager (`table_bucket/sdk.go`, `hooks.go`, `manager.go`, `delta.go`) | none between passes; within a pass the desired and the latest object. The memory of the system is the custom resource (spec, ARN and conditions in its status, finalizer) and the bucket in the service | `sdkFind` + `setBucketConfigurations` (six requests), `sdkCreate`, `customUpdateTableBucket` (up to six requests), `LateInitialize`, `sdkDelete`, `updateConditions` | every request can fail, lose its answer or be interleaved with users, other clients and a crash; create carries only a part of the spec; several fields are defaulted by AWS |
| Tags (`table_bucket/tags.go`, hooks in `manager.go`) | none | `EnsureTags`, `FilterSystemTags`, `mirrorAWSTags`, `syncTags` | three owners of one map: the user, the controller's flags, AWS (`aws:` keys) |
| Manager factory (`*/manager_factory.go`) | `rmCache` under an `RWMutex`, shared by all workers | `ManagerFor` | concurrent workers |
| Table manager (`table/sdk.go`, `hooks.go`) | as TableBucket, with the version token in the status | read by ARN or by name triplet, create, rename, update metadata location, tags, delete | optimistic concurrency by version tokens; two dependent updates in one pass |
| Namespace manager (`namespace/sdk.go`) | as TableBucket | read by name, create, delete; no update | a namespace made by somebody else |
| References (`*/references.go`) | none; resolved values live in the pass's copy | `ResolveReferences`, `ClearResolvedReferences` | the referenced resource changes after it was looked up; three kinds with a worker each are created and deleted in any order |
| API types (`apis/v1alpha1`) | the custom resources | deep copies, scheme | none (generated) |
| Process (`cmd/controller/main.go`, `registry.go`) | flags | start-up | none of its own |

What makes each correct:

* *TableBucket*: Synced is reported only when the bucket satisfies the spec; a resource left alone
  converges and then stays quiet; nothing the user did not declare is changed; the finalizer is
  there before the bucket and goes after it; conditions do not contradict each other.
* *Tags*: AWS's tags are never touched or stored; a kept tag is never missing; the difference
  that is sent leads to the desired tags.
* *Factory*: no unsynchronized map access, no hang, the manager of the right account, region and role.
* *Table*: a request that goes by name hits only the table that was read, as it was read; a refused
  one is repaired by a later pass; no rename and no new location is lost; a resource stays with its
  table; metadata, which no update changes, is what the user declared when the table was made.
* *Namespace*: Synced is reported only when the namespace exists in the one bucket the spec names.
* *References*: a namespace is created only in a bucket that is Synced; it gets through once the
  bucket is there; a deleted one does not wait for a bucket that never comes. Of bucket, namespace
  and table, deleted in any order, none outlives the resource of its bucket, and a deletion that
  does not complete waits for a reason that can be named.
* *All three managers*: whatever requests a pass takes, the finalizer is put on before anything is
  made and taken off after what the resource knows is gone; nothing is destroyed before the user
  asks for it; a resource stays with its object.

`PROJECT.json` lists the hazards of the code with their lines, also those no property covers, with the reason.

## 2. Modules

| module | models | lines of code it stands for |
|---|---|---|
| `Tags` | tag maps and all operations on them, pure | `table_bucket/tags.go`, tag hooks of `manager.go`, `syncTags` |
| `Conditions` | `updateConditions`, `terminalAWSError`, `onError`, `onSuccess`, pure | `table_bucket/sdk.go` 290-406, `manager.go` 395-432 |
| `Pass` | what a worker of any manager has: queue flag, next call, memory, and how a call fails or a pass ends | `onError` as every manager calls it, the runtime |
| `TableBucket` | one custom resource, its worker, its bucket, users, other clients, crashes | the rest of `table_bucket/` |
| `MCTableBucket` | small instances of it | |
| `Table`, `MCTable` | one custom resource, its worker, all tables of the namespace, users, other clients, crashes | `table/sdk.go`, `hooks.go`, `delta.go`, `manager.go` |
| `Namespace`, `MCNamespace` | one custom resource, its worker, its namespace in each of the buckets, the buckets and their resources, users, other clients, crashes | `namespace/sdk.go`, `references.go`, `manager.go` |
| `Hierarchy` | a TableBucket, a Namespace and a Table that refer to each other, a worker for each, and the KMS key of the bucket | `*/references.go`, and of each manager what decides whether a request is made |
| `ManagerFactory`, `MCManagerFactory` | `ManagerFor` of any number of workers | `manager_factory.go` |
| `ReconciledResource` | abstract: what every resource manager promises | implemented by `TableBucket`, `Namespace`, `Table`, and by each kind of `Hierarchy` |
| `AtomicFactory` | abstract: a map from target to manager without locks | implemented by `ManagerFactory` |
| `TagsProofs`, `TableBucketProofs`, `TableProofs`, `NamespaceProofs`, `HierarchyProofs`, `ManagerFactoryProofs` | theorems about the module of that name | |
| `TableBucketPassProofs` | theorems about TableBucket that need to know what an undisturbed pass knows: the promise, the conditions, Synced, what is written | |
| `ReconciledResourceProofs` | what the promise is good for | |

`Tags` and `Conditions` belong to one package but the code is generated: `table` has the same
`tags.go`, and all three packages the same `updateConditions` and `manager_factory.go`.

### TableBucket

State: `cr` is the custom resource in the cluster (phase, finalizer, whether the status holds the
ARN, spec, conditions); `bucket` is what the service holds under the resource's name; `mem` is
what a pass holds in memory and a crash loses (`desired`, `latest`, `seen`, the ARN it learned,
the conditions it will save, its outcome and `why` it reads); `pc` names the next request;
`queued` says whether the work queue holds the resource. `faults`, `edits` and `outside` count
interference against the bounds `MaxFaults`, `MaxEdits`, `MaxOutside`. `dirty` and `settled` are
history, read by properties (and `dirty` by `settled`) only.

One action is one request together with the code up to the next request:

| action | code |
|---|---|
| `BeginSync` | the runtime resets conditions, `EnsureTags`; `requiredFieldsMissingFromReadOneInput` decides whether a read is made at all |
| `GetTableBucket`, `SetBucketConfigurations` | `sdkFind`; then one step per request of `setBucketConfigurations`, in order |
| `ReadForSync` | end of `ReadOne` (`mirrorAWSTags`, `onSuccess`) and `newResourceDelta` |
| `SetResourceManaged`, `SdkCreate`, `ReadAfterCreate` | finalizer patch (`MarkManaged`), `sdkCreate`, the read that follows and the spec patch |
| `SyncEncryption` .. `SyncMaintenance`, `UpdateReturns` | `customUpdateTableBucket`; `syncTags` is two requests, two steps |
| `LateInitialize` | second read's end, `lateInitializeFromReadOneOutput`, spec patch |
| `PatchStatus` | `ensureConditions` and the one status patch of a pass |
| `BeginDelete`, `ReadForDelete`, `SdkDelete`, `MarkUnmanaged` | the deletion path |
| `Crash`, `UserEdit`, `UserDelete`, `Outside` | environment |

Every request may succeed, be refused (`BadRequestException`, which is terminal, or any other
error), or, if it mutates, take effect and lose its answer. `NotFoundException` and
`ConflictException` follow from the state of the bucket and need no fault. The runtime's part is
taken from how the code here is called: `Sync` resets the conditions and saves them at the end; an error goes
back into the queue, a success after the resync period (`helm/values.yaml`, 10 hours), a *terminal*
error not at all until the spec changes or the process restarts; spec patches are merge patches of
what differs between two objects in memory, without system tags and without a version check.

Abstractions. Encryption is one value (algorithm and key together), maintenance is the one job
type the controller handles with one of its two day fields (both are treated alike), an empty
policy is an absent one, messages and timestamps are left out. A spec a user applies holds no
`aws:` key (the service refuses them). `MaxInt32` is a parameter; the widths matter only relative to it.

### Table

State: `cr`, `mem`, `pc`, `queued` and the counters are as in TableBucket; the status holds an ARN
now (`cr.arn`). `tables` is every table ever made in the namespace: a table's position is its ARN, which is never
used again, and a dropped one stays as `Dropped`. Each has a name, a metadata location, tags, one number of
its Iceberg metadata and the mark `mine` (made by a `CreateTable` of this resource), which the
controller cannot see. `declared` is history: every number the spec has ever declared, with Nil for no metadata. `mem.arn` is the ARN in the status the pass works on, `mem.found` the table
it read, `mem.token` whether the version token of that read is still the one the service holds.

| action | code |
|---|---|
| `GetTable`, `SetResourceTags` | `sdkFind`: by the ARN of the status if there is one, by the name otherwise; then the tags of the ARN read |
| `ReadForSync` | end of `ReadOne`, `newResourceDelta`, and the runtime's refusal of a table that exists although the resource has no finalizer |
| `SdkCreate` | `newCreateRequestPayload` with its checks of int64 numbers, `CreateTable`, and the requeue error when a metadata location is wanted |
| `RenameTable`, `UpdateMetadataLocation`, `SyncTagsUntag`, `SyncTagsTag`, `UpdateReturns` | `customUpdateTable` in its order, stopping at the first error |
| `SdkDelete` | `DeleteTable` by the name and with the token of the read |
| `Outside` | other clients: commit a location, rename, tag, drop, create a table of any free name |

How the service answers (`Verdict`): a name nobody has is `NotFoundException`, a token that is not the
one of the table with that name is `ConflictException`. Every new location renews the token;
whether a rename does is left open (both are explored).

Abstractions. One number stands for the six int64 fields of the metadata, which are all converted
alike; the other create-only fields never differ and are left out, and so are namespace and bucket,
which are fixed. The metadata may be left out; an edit may also remove it, or set it where there was
none, since the API server compares it with the metadata before only when there are two (`Admitted`). The table
keeps what it was made with, so `MetadataAsDeclared` asks for something the user declared at some time.
A nil metadata location differs from every other (`HasNilDifference`), so a
table whose location the user leaves to the engine runs the update in every pass. `RenameDue`,
`LocationDue`, `UntagDue` and `TagDue` say when each of the four requests of an update is made, and `SettledIsQuiet` that
none is due, which for a location is the nil check of `updateMetadataLocation`. When a rename and a location are asked for together, the first pass renames and
then fails with `NotFoundException`, because the second request goes by the old name; the next pass
sends the location. `Converges` shows that this is all that happens.

### Namespace

State: `cr` (its spec is the reference and the ARN of a bucket, either or neither or both, and `named`, whether it has a name),
`namespaces` (in each bucket nothing, a namespace this resource made, or another's of the same
name), `buckets` (for each the TableBucket resource as a reference sees it, and whether the
bucket exists) and the worker's `pc` and `mem` as before; `mem.arn` is the bucket ARN in the pass's copy.

| action | code |
|---|---|
| `ResolveReferences` | `validateReferenceFields`, `resolveReferenceForTableBucketARN` and `getReferencedResourceState_TableBucket`, with one read of the API server. A sync ends when it fails; a delete goes on with what the copy holds (the runtime ignores the error there) |
| `GetNamespace` | `requiredFieldsMissingFromReadOneInput`, `sdkFind`, `onSuccess`. The observed object is a copy of the desired one, so `newResourceDelta` is empty and `sdkUpdate` is never called |
| `SdkCreate`, `SdkDelete`, `SetResourceManaged`, `MarkUnmanaged`, `PatchStatus` | as in the other managers |
| `UserEdit` | the API server compares an ARN with the one before when both are set, and never a reference (`Admitted`); so an ARN is removed or set, a reference changes freely, and the name is removed or set likewise. Another name in place of one removed earlier, which it admits as well, is not modelled |
| `Outside` | the TableBucket's own worker reports a condition, the bucket is deleted when empty, its resource is applied or released; another client makes or deletes a namespace |

There is one namespace name, which a spec has or lacks. Without it `requiredFieldsMissingFromReadOneInput` answers NotFound,
also for a namespace that exists, and `CreateNamespace` is not sent (`Sendable`); a namespace whose resource has lost
its name is left behind when the resource is deleted, and `DeletionCompletes` says that the deletion at least gets
through. A reference without a name behaves like one to a resource that is absent.

### Hierarchy

State, by kind: `cr` (phase, finalizer, whether the status has the ARN, conditions), `held` (the
objects in the service), `queued`, `pc` and `mem`; `mem.next` is the reference the pass resolves
next, and the ones before it are resolved in its copy. The action of a kind is that of its manager
with the requests about a single object folded into `ReadOne`, `SdkCreate` and `SdkDelete`; what
is kept of the manager is what depends on other resources:

| definition | code |
|---|---|
| `References` | the order in `ResolveReferences` of the three packages: the first failure ends it |
| `Usable` | `getReferencedResourceState_*`: there, not Terminal, Synced, and with the field that is wanted (`Status.ACKResourceMetadata.ARN`; for a Namespace its own `Spec.Name`) |
| `Unresolved` | a sync ends; a delete goes on with what the copy holds |
| `RequiredFieldsMissing` | `requiredFieldsMissingFromReadOneInput` of each kind: a bucket without its ARN and a namespace without a bucket count as absent, a table never does. The third reason of the code, a namespace without a name, is in `Namespace`; here the resources are not edited and their names are set |
| `Malformed`, `Unsendable` | a table without an ARN is read, and every table deleted, by names of which one may be missing |
| `Call` in `SdkCreate`, `SdkDelete` | the service makes nothing in a container that is not there, and deletes no container that is not empty |

The resources are not edited and their objects not changed; the other modules have that.

### The promise

`ReconciledResource` knows the phase of a custom resource, whether it has the finalizer
(`guarded`), the objects it has made and that exist (`mine`), the one it names (`known`) and a count of
interference (`acts`). Its actions are `Manage`, `Make`, `Learn`, `Destroy`, `Release` and what users and other
clients do. The three managers state `KeepsPromise == Promise!Spec` under these mappings:

| | `TableBucket` | `Namespace` | `Table` |
|---|---|---|---|
| `mine` | the bucket, if made by this resource | the buckets that hold a namespace made by it | the tables it made that exist |
| `known` | the bucket, if the status holds the ARN | `spec.tableBucketARN`, if there is a name and no reference | the ARN in the status |
| `acts` | `edits + outside` | `edits + outside` | `edits + outside` |

In `Hierarchy`, which changes no resource and no object of a resource, `mine` is the kind's object if it is held, `known` the
object if the status has its ARN, and `acts` counts the changes of the key (`Promise(k)` in `HierarchyProofs`).

The rest of the mapping is `phase <- cr.phase` and `guarded <- cr.finalizer`. Every step the
controller takes between two of these actions is a stutter. Since `acts` grows with each
interference and stays otherwise, no step of the controller can hide behind `Interfere`.

### ManagerFactory

One action per statement of `ManagerFor` that touches shared state, with the `RWMutex` of `sync`:
readers share, a writer is alone, a waiting writer keeps new readers out. A manager is identified by
what it was made for and by the call that made it. `IsAtomic` is the specification of
`AtomicFactory` under a mapping that takes the map as it is and lets a call take effect where it reads
an entry under the read lock or stores one under the write lock.

## 3. Runs

| run | instance | what it shows |
|---|---|---|
| `TableBucket` | keys `k`, `ctl` (a controller tag), `aws`; values `""`, `v`; two encryptions, two storage classes, a policy, days 1 and 4 with `MaxInt32` = 2; four user specs, with partial maintenance, a nil tag value and the controller's key; 2 faults, 1 edit, 1 outside change, fair | `SyncedMeansApplied`, `SettledIsQuiet`, `ConditionsAgree`, `AwsTagsNeverInSpec`, `AwsTagsUntouched`, `KeptTagNeverMissing`, `WritesAreDeclared`, `LateInitKeepsDeclared`, `KeepsPromise`, `Converges`, `DeletionCompletes` |
| `TableBucketOrphan`, `TableBucketDropped` | maintenance specs only | violations, see 5 |
| `TableNames` | names `a`, `b`; a declared location or none; field ids 1 and 3 with `MaxInt32` = 1, and a spec without metadata; 2 faults, 1 edit, 2 outside acts | `SyncedMeansApplied`, `SettledIsQuiet`, `SecondTableNeedsFault`, `MetadataAsDeclared`, `ActsOnWhatWasRead`, `StaysWithItsTable`, `HandsOffUnmanaged`, `KeepsPromise` |
| `TableLive` | names and locations as above, or tags: none, a value, `""`, nil; 2 faults, 1 edit, 1 outside act, fair | `TagsKept`, `Converges`, `DeletionCompletes` |
| `TableRenamed` | two names, 1 fault, 1 edit | violation, see 5 |
| `Namespace` | 2 buckets; all 12 specs with a name and 2 without one; 2 faults, 1 edit, 2 outside acts, fair | `SyncedMeansExists`, `CreatedInReadyBucket`, `KeepsPromise`, `Converges`, `DeletionCompletes` |
| `NamespaceOrphan`, `NamespaceMoved` | 2 buckets; 1 fault or 1 edit | violations, see 5 |
| `Hierarchy` | one resource of each kind; 1 fault, 1 change of the key's condition, fair | `NothingOutlivesBucket`, `NoTableOrphan`, `Converges`, `DeletionCompletes` |
| `ManagerFactory` | 3 workers, 2 calls each, 2 roles, fair | `NoConcurrentMapWrite`, `AtMostOnePerWorker`, `IsAtomic`, `EveryCallReturns` |
| `ManagerFactoryOne` | 2 workers, 1 call | violation, see 5 |

Five of the runs also check a type invariant. That the finalizer guards what exists and that an
object whose ARN is known is never orphaned are not checked one by one: `KeepsPromise` implies
both (`PromiseSuffices`), and `IsAtomic` implies that a caller gets a manager for its own target.
`ConditionsAgree` is checked for TableBucket and proved for TableBucket and Table, whose conditions
are made by the same code.

Bounds. A pass is at most 23 steps for a bucket, 10 for a table and 8 for a namespace (`EveryPassAdvances`, proved) and
keeps nothing but `cr` and what is in the service, so what
counts is the number of interferences, not of passes, which are unbounded in every run. One fault
reaches every lost answer and every half-done update; two reach a lost answer of the create followed by
a second failure, the shortest way to an object that is known, exists and would be released. One edit during a pass makes the worker's objects stale; one outside change
does the same to what it read. For a table two outside acts are needed: one renames the table that
was read and the other gives its old name to another. For a namespace two suffice to delete a bucket
and its resource, or to take Synced from it and give it back. Two values per part separate "as declared", "as AWS defaults" and
"changed by another"; day 4 with `MaxInt32` 2 is a value that does not fit. In `Hierarchy` the
workers themselves interfere with each other, at any step and without a bound; one fault makes any look-up fail or
loses any answer, and one change of the key makes the bucket, and what depends on it, lose its references. Three workers are the least number with a
reader, a writer and a waiting writer. No run uses symmetry, which is not sound for the liveness properties and not needed for the others.

`CHECK_DEADLOCK FALSE` everywhere: a resource that is gone, or that a terminal error left out of
the queue, and workers that have used up their calls have nothing left to do.

Fairness. `WF_vars(Reconcile)`: a resource in the queue is taken by a worker, and a request
returns in the end (the AWS and Kubernetes clients time out). Nothing is assumed of users, other clients or
crashes, and a resource *out* of the queue is not served: `Converges` and `DeletionCompletes`
therefore except the resource a terminal error has parked. `Table`'s `Converges` also excepts what
the code does not try to repair (`Unobstructed`): a status that names a table which is gone, a name
that another table has, metadata that does not fit. In `Hierarchy` the fairness is per kind, since each kind is a
controller with a queue and workers of its own; nothing there wakes a worker when another resource
becomes Synced, and none is assumed to. `DeletionCompletes` of `Hierarchy` names what a
deleted resource may wait for (`WaitsFor`): its contents, or, for a table, a reference that does not resolve. The
two waits can close into a circle, a namespace deleted while it was not Synced and its table;
the property excludes every other reason. `WF_vars(ManagerFor(w))` is the
scheduling of goroutines and the mutex's promise that a waiter is granted in the end.

## 4. Proofs

All theorems hold for every value of the constants that satisfies the named assumptions
(`TagAssumption`, `TableBucketAssumption`, `TableAssumption`, `NamespaceAssumption`, `HierarchyAssumption`,
`FactoryAssumption`): any keys, values, specs, names, buckets, bounds and workers. The assumptions say that
the special values differ from the ordinary ones, that controller tags are system keys outside
`aws:`, and that user specs hold no `aws:` key; each is evaluated by the runs. Every invariant
`IInv` below was checked by TLC before it was proved. In each module there is one lemma per action, and
lemmas for the shared ends of a step (a call that fails, a pass that ends).

* `TagsProofs`. `SyncTagsReachesDesired`: untag, then tag with the computed difference turns the
  observed tags into the desired ones. `MirroredDiffSparesAws`: after mirroring the difference holds no `aws:` key.
* `TableBucketProofs`. The inductive invariant is
  `IInv == PassTypeOK /\ StepOK /\ TagsOK /\ FinalizerGuardsBucket /\ NoOrphanWithKnownArn /\ AwsTagsNeverInSpec`.
  The three guards are not inductive alone: `FinalizerGuardsBucket` needs that a worker about to
  create has the finalizer in place, which no deletion can remove (`StepOK`, `pc = "create"`);
  `NoOrphanWithKnownArn` needs that a worker about to drop the finalizer of a resource with an ARN
  has seen the bucket gone (`StepOK`, `pc = "release"`). `TagsOK` says what tags the desired object
  holds: none of AWS before the read, exactly the observed ones while updating. With it the two
  action properties `AwsTagsUntouched` and `KeptTagNeverMissing` follow, since only `SyncTagsUntag`
  and `SyncTagsTag` write tags (lemma `TagWrites`). `TypeOK` adds the queue flag, which nothing else depends on.
* `TableBucketPassProofs` adds to `IInv` what a pass knows, in five invariants.
  `DeletePassOK` and `SyncPassOK`: why a pass runs, at the steps that only one kind of pass comes to. `CondOK`: no condition is
  true before a call fails and one after, Synced left to the end; it gives `ConditionsAgree`. `FreshOK` speaks of a pass
  that nobody disturbed (`dirty` is false): the desired object is the spec with AWS's tags
  (`DesiredOK`), what was read is what is there (`SeenOK`), each part of the bucket is as it was read until its
  request is through and as desired after (`UpdateOK`), and from the create or the update on the
  bucket satisfies the spec or the object is marked not synced (`DoneOK`). Its last line says what is there
  when such a pass saves a success, and so what holds while `settled`: `SettledOK`, the bucket is
  as declared and a read finds no difference (`Quiet`). `SettledOK` is needed beside it because passes follow that start from a settled
  resource, and `FreshOK` alone says nothing about what they may do. The two give `SyncedMeansApplied` and `SettledIsQuiet`; with
  `SpecWrites` and `PartWrites`, which list the steps that change the spec and the bucket, also
  `LateInitKeepsDeclared` and `WritesAreDeclared`.
* `TableProofs`. `IInv == PassTypeOK /\ ReasonOK /\ ArnOK /\ TokenOK /\ FieldOK`. `ReasonOK`: what a
  pass is for, and that it has the finalizer where it creates or updates. `ArnOK`: the table a pass goes by is the one the status
  names, unless that one is no more. `TokenOK`: a token that is still current vouches for the location read.
  `FieldOK`: what the spec and the pass's copy of it declare is in `declared`, and a table is made with the number of the copy. Lemma `ControllerEffect` says what
  any step of the controller does to the tables: it appends one, or it changes the one the service's
  verdict hit. From these follow `MetadataAsDeclared` and the action properties
  `HandsOffUnmanaged`, `ActsOnWhatWasRead` and `StaysWithItsTable`. `TagsKept` needs a second
  invariant beside it (`TagOK`): no key of AWS's is in the spec, nor in the difference while updating.
  The second half of the module does for Table what `TableBucketPassProofs` does for the bucket. `CondOK` gives `ConditionsAgree`.
  `FreshOK` follows an undisturbed pass from the read to the save: at each request of the update the
  table has the new name, location or tags so far and is otherwise as read (`UpdateOK`). Two things differ from the
  bucket. The table a pass reads may be another than the one the status names, so lemma `SettledPass` first
  shows that a pass over a settled resource goes by the table of the status. And a location that
  the spec leaves out counts as a difference for ever (`SettledOK` allows that one), but makes
  none of the four requests due (`SettledSendsNothing`). The two give `SyncedMeansApplied` and `SettledIsQuiet`.
* `NamespaceProofs`. `IInv == PassTypeOK /\ StepOK /\ FreshOK /\ SettledOK`. `StepOK` holds whoever acts in between: a sync
  reads and creates in the one bucket of its copy of the spec, or in none. `FreshOK` says what a pass knows
  that nobody disturbed: at its reads and its create the reference still leads to its bucket, and when it ends well
  the namespace is there. It gives `SyncedMeansExists` and `CreatedInReadyBucket`.
* `HierarchyProofs`. `IInv == Types /\ Workers /\ BetweenOK`. `Workers` says of each worker alone
  that the finalizer stands while the object exists, with the two exceptions the code has (a namespace
  whose bucket is not found, a bucket whose ARN was never saved). `BetweenOK` relates the workers: what is held is in
  something held, and a namespace is in a bucket whose ARN is saved. The second is what
  `NothingOutlivesBucket` turns on: the one way to release a bucket that exists is an ARN never saved, and then nobody could resolve
  a reference to it. The code has that from the order of its writes only: the ARN is saved by
  the same patch that first says Synced.
* `ReconciledResourceProofs`. `PromiseSuffices`: whoever keeps the promise keeps the finalizer while
  something it made exists, and is not gone while what it names exists.
* `PromiseKept` in `TableBucketPassProofs`, `NamespaceProofs` and `TableProofs`: the three
  managers implement `ReconciledResource`. The initial states map to initial states, and each
  step maps to an abstract action or to a stutter, under `IInv`.
* `ManagerFactoryProofs`. The invariant says which lock each worker holds at each step and that
  every cached manager was made for its key; mutual exclusion, the right manager and the bound on
  duplicates follow. `Atomicity`: `ManagerFor` implements `AtomicFactory`.

Other theorems go beyond what the runs check, or say more of it than an instance with a few interferences can:

* *Every pass ends* (`EveryPassAdvances` in `TableBucketPassProofs`, `NamespaceProofs`, `TableProofs` and `HierarchyProofs`). `Rank` is the number of
  steps a pass may still take: 22 at most for a bucket, 7 for a namespace, 9 for a table, 9 for any kind
  of `Hierarchy`. Each step lowers it, and what others do meanwhile does not raise it, so no pass repeats a
  step or goes back to one. This is the safety half of `Converges` and `DeletionCompletes`: under the
  fairness of `Reconcile`, what can fail to end is only the sequence of passes, never a pass.
* *No hang of the factory* (`DeadlockFree`). While a call is under way, some call can take its next
  step: there is no circular wait for the mutex, with any number of workers and calls. It is the safety half of `EveryCallReturns`.
  The invariant `WaitingFollowsSteps` says that a worker waits for the write lock at one step only, where it holds none.
* *What it takes to lose something.* The runs of section 5 show that a bucket or a namespace can be orphaned and a second table
  or namespace made; these theorems say that it does not happen by itself. `OrphansNeedFaults` (`KnownBucket`: without a fault,
  a bucket that exists has its ARN in the status or in the hands of a pass that is about to save it). `SecondTablesNeedFaults`
  (`KnownTable`, the same for tables). `OneBucketUnlessEdited` (`UneditedOK`: without an edit every namespace of this resource is in the
  bucket the spec names, whatever fails). `OrphansNeedInterference` (`CalmOK`: in a world where nothing fails, is edited or changes, every step of a pass
  has the bucket's ARN that its namespace needs).
* *The promise in company* (`PromisesKept` in `HierarchyProofs`). Each manager also keeps it while the others make and delete what it depends on.

Only model-checked: the liveness properties `Converges`, `DeletionCompletes` and `EveryCallReturns`, since liveness
under fairness and `ENABLED` are beyond TLAPS. Every safety property of the passing runs is proved. No module
declares a RECURSIVE operator, so every module can be proved about.

## 5. Where text and code disagree

1. `NoOrphan` of TableBucket (`descriptor.go:109`): the ARN is saved only at the end of the pass, so a
   crash, a lost answer or a failed status patch leaves a bucket whose resource has no ARN. Deleting
   the resource then drops the finalizer without a request and leaves the bucket; not deleting it
   means a conflict in every later pass. Without a fault it does not happen (`OrphansNeedFaults`).
2. `DroppedMaintenanceIsDisabled` (`hooks.go:349`): a dropped maintenance configuration is adopted
   from the bucket, not disabled; another comment (`hooks.go:274`) and `test_table_bucket.py` agree with the code.
3. `OneManagerPerId` (`manager_factory.go:59`): the cache is not looked at again under the write
   lock, so two workers can make a manager each.
4. `NameChangeRenames` (`table/sdk.go:81`): until the ARN is saved a table is read by the name in the
   spec, so after a lost answer of `CreateTable` a changed name makes a second table. Without a fault
   there is never a second one (`SecondTablesNeedFaults`).
5. `NoOrphan` of Namespace (`namespace/descriptor.go:109`): the bucket found through a reference is
   never stored; when it cannot be found again the last pass takes the namespace for absent.
   It takes a fault, an edit or a change at the bucket (`OrphansNeedInterference`).
6. `BucketIsImmutable` (`namespace.go:32`): the rule covers the ARN and not the reference, and an
   edited reference makes a second namespace. Only an edit does (`OneBucketUnlessEdited`).

## 6. Not modelled

* Adoption of existing resources (`SetIdentifiers`, `PopulateResourceFromAnnotation`, `MarkAdopted`), and the
  retain policy: the repository has the small functions, but when they
  are called and what a failure leaves is decided by the runtime, whose code is not in the repository. The
  part of the runtime that is modelled is the part the code here shows by how it is called.
  One thing is taken over from it without such evidence: `ensureConditions` sets Synced to false on any error.
* The check of references across Kubernetes namespaces (`ValidateCrossNamespaceReference`), which is
  the runtime's as well. A reference it refuses behaves like one to a resource that is absent.
* In `Hierarchy`: updates, edits and other clients, the second read of a bucket for late
  initialization, names that are removed, and references that change. What an edited reference of a table does is
  a hazard no property covers; that of a namespace is in `Namespace`.
* The six numbers of a table's metadata but one and its other create-only fields, the messages of conditions,
  timestamps, the job types of maintenance the controller ignores.
* Generated deep copies (values here are never shared), scheme registration, start-up, manifests.

## 7. Plan

1. `Hierarchy` with references that are edited, which needs a bound on the buckets and namespaces that are named.
2. Adoption and the retain policy, once the runtime's code is at hand to read.
