# Omnipath (UnifyAir AMF): a TLA+ verification development

TLA+ specifications of Omnipath, the 5G access and mobility management function
(AMF) of UnifyAir core, written from its Rust source. TLC checks them on small
instances; TLAPS proves, for every instance, each safety property and refinement
that the passing runs check.
`PROJECT.json` maps each definition to the lines it models and lists the
components, runs, mutants, findings, hazards and theorems.

Paths below are relative to `src/lightning-nf/omnipath/app/src/` unless they
start with `src/`.

## The system and its parts

A gNB connects over SCTP. The accept loop enters the connection in the
association table and spawns a task, which negotiates NG Setup (at most three
attempts), registers the gNB under its global RAN node id and spawns the message
loop. The loop spawns one task per message. An InitialUeMessage makes a UE
context, adds it to the gNB's context manager and runs the NAS handler on it
through the context's queue, which serialises everything done to that UE.

Around this, the process loads and validates its configuration, builds the
application context from it, registers its profile at the NRF, serves gNBs until a
signal arrives and deregisters. NG Setup answers from the same context, converted
from SBI to NGAP values, so what a gNB is told and what the NRF is told have one
origin. The NRF client also caches access tokens.

| Part | Source | Specification |
|---|---|---|
| Context queue | `ngap/manager/context_queue.rs` | `ContextQueue`; abstractly `SerialExecutor` |
| Context manager | `ngap/manager/context_manager.rs` | `ContextManager`, and its read operations in `InitialUe` |
| InitialUeMessage handler, routing, responses, per-message tasks | `ngap/core/initial_ue_message.rs`, `ngap/core/ngap_route.rs`, `ngap/engine/interfaces.rs`, `ngap/engine/utils.rs` | `InitialUe` |
| RAN connections, NG Setup, association table | `ngap/engine/controller.rs`, `ngap/core/ng_setup.rs`, `ngap/network/` | `NgapController`; the content of NG Setup in `NfService` |
| Token store, `NrfClient::get_token` | `src/utils/client/src/token_store.rs`, `nrf_client.rs` | `TokenStore` |
| NF lifecycle, NRF registration | `lib.rs`, `src/lightning-cli/src/nf_type.rs`, `src/utils/client/src/nrf_client.rs` | `NfLifecycle`; abstractly `NfMembership` |
| Application context, configuration, NF profile | `context/app_context.rs`, `config/mod.rs`, `builder/sbi/nrf.rs` | `AppConfig` |
| Value conversions (PLMN, TAC, S-NSSAI, GUAMI) | `utils/convert/` | `Conversions` |
| The running process with a gNB | all of the last three rows and `ngap/core/ng_setup.rs` | `NfService` |
| NAS registration state machine | `nas/` | not modelled: `handle_nas` is empty |
| Header serialisation, typed SBI clients | `src/utils/client/src/` | not modelled: no shared state, no caller |
| Integration tests and capture tools | `src/tests/` | not modelled: not part of the AMF |

## How code becomes actions

* An action is what a task does between two suspension points, or between two
  operations on state that other tasks share. `scc::HashMap` operations and
  atomics are atomic; a `tokio::sync::Mutex` is a sequence, its holder first and
  its waiters behind, because tokio grants it first in, first out.
* A panic ends the spawned task it happens in and nothing else.
* Payloads are left out. A context is named by the call or message that made it.
* Operators marked "Mutant" are plausible bugs. They stand before the definition
  they alter and no specification uses them; substituting one must make TLC
  report the property `PROJECT.json` pairs it with.

## The modules

**`ContextQueue`.** `pc` is where each caller of `schedule_and_wait` is, `lock`
the queue's mutex, `queue` the `VecDeque`, `processor_active` the flag, `proc` and
`fut` the processor tasks and what they await, `writer` the context's write
guard, `result` the oneshot channels. `Push` is `push_future`; `LockQueue`,
`GoIdle` and `PopFront` are `process_queue`; `WriteOwned`, `Complete` and `Panic`
are the wrapped closure. The mutex stays locked while a future runs, as in the
code. Callers may be dropped before or after the push.

**`SerialExecutor`** is what the queue promises: submitted operations run one at
a time, in order, each at most once. `ContextQueue` is shown to implement it
twice: with the `VecDeque` as the pending sequence (`AcceptedInOrder`), and with
the callers still waiting for the mutex appended (`ArrivalOrder`). In the second
mapping `CallersOf` takes the processor, of which there is at most one, out of the
mutex's wait list; a caller that is dropped while it waits withdraws.

**`NgapController`.** Per connection: the stream (`sock`), the task (`pc`),
`attempt`, the announced id (`ran`) and the pending answer (`reply`). Shared:
`gnb_contexts`, `associations`, `associations_set`. `SetupRequest` is the whole NG
Setup handler; the registry check in it and the insertion in `Register` are
separate actions, as they are separated by awaits in the code. Messages read by a
running loop change nothing here and are the subject of `InitialUe`.

**`InitialUe`.** One gNB. A message's task goes through the check, the counter,
the add, the look-up and the NAS handler, one action each; tasks continue after
`Disconnect`. `response` is the PDU a task has yet to write and `sent` what
reached the stream: bytes that are no PDU and PDUs without a handler get an error
indication (`ReceiveUndecodable`, `ReceiveUnrouted`), and the result of the handler
goes through `LogAndConvertToPdu`, which makes no PDU of an `EmptyResponse`. The
handlers are shown to be clients of `ContextManager` (`HandlersAreClients`): a task
is a client that calls `add_context` once, and its context is dropped when that
call panics.

**`ContextManager`.** Clients that each make one `add_context` or `change_id`
call; `change_id` is its three map operations, between which its future may be
dropped (`DropChange`). Nothing in the AMF calls `change_id` yet, so this module is
about the manager's own promises.

**`TokenStore`.** Clients call `get_token`, that is `get` and, without a token,
`set`. Reading the updating state (`Read`) and creating the `Notified` future
(`Notified`) are separate actions: on the multi-threaded runtime another worker
may run in between. One key is modelled; keys do not interact.

**`Conversions`** has the functions of `utils/convert` in both directions. A
decimal string is a sequence of digits, a hexadecimal one a sequence of characters
that keep their case, a bit string a number. The rules in the comment of
`mcc_mnc_plmnid.rs` are written down separately (`ReferencePlmn`, `Readable`) as what
the conversions are compared with.

**`AppConfig`** is the path of the configuration: resolving host names
(`ParseConfig`), validation (`Validated`), the application context (`NewContext`), the
profile (`BuildNfProfile`) and the requests that carry it (`PrepareRequest`). It has
no state.

**`NfLifecycle`.** `pc` is the main task of `NfApp::run`, `work` the branch of its
`select!` that registers and serves, `signal_task` the other; `app` and `global` are
the application context and its global copy, `nf_config` what the NRF client
remembers; `requests`, `response` and `nrf` are the network and the NRF. A request
may be refused, lost, answered late or unreadably, and may arrive after its caller
was dropped by the `select!`. The NRF may keep the id it is asked for or assign
another, and may ask for OAuth. That `start` ends once the token is cancelled
(`StartEnds`) is what `CancelEndsAccepting` shows of the accept loop in
`NgapController`. Where the loop is held up instead, the signal task's end takes the
other branch (`SelectSignal`), so shutdown does not depend on it.

**`NfMembership`** is what all this promises about the NF's membership in the core
network: it joins at most once (`Join`), the client is told as whom (`Learn`), only a
client that was told leaves (`Leave`), and an end that reports no failed
deregistration is the end of the membership (`End`). `NfLifecycle` is shown to
implement it with what the NRF holds as `member`, what the client remembers as
`known` and the way the process ended as `process` (`JoinsOnceAndLeaves`); requests,
answers and the signal task are invisible there.

**`NfService`** extends `NfLifecycle` with a gNB that sends an NG Setup request while
the AMF serves; its handler may run while the main task deregisters.
`MCNfService` has the configuration files and the requests of the run.

`MCContextManager` adds the symmetry sets for its run.

## Runs

| Run | Instance | Shows |
|---|---|---|
| `queue` | 4 calls, 1 may panic, all droppable | one processor, nothing stranded, no future lost, write lock uncontended, no circular wait, both refinements; until a closure panics every call returns, and enqueued futures run |
| `queue_panic` | 2 calls, 1 panicking | **violation**: the call behind a panicking one hangs |
| `controller` | 2 connections, 2 address pairs, 2 ids | registry and association table consistent; entries removed by their owner only; the end of the stream ends the task, within four of its steps; cancellation ends the accept loop, unless a connection stays in the backlog for ever |
| `controller_duplicate` | 2 connections, 1 id | **violation**: a duplicate registration panics |
| `initial_ue_safety` | 3 messages, 2 ids | own context, distinct AMF ids, no replacement; the handlers are clients of `ContextManager`; only messages without a handler are answered; every task ends |
| `initial_ue_duplicate` | 2 messages, 1 id | **violation**: `add_context` panics |
| `manager_safety` | 5 clients, 3 ids | a context is never in two places; it is lost only by a `change_id` that is dropped halfway, or fails and finds its old id taken |
| `token` | 3 clients, 2 looks | no abandoned update, entries are ready and hold what the NRF granted; only who starts to wait after the end of an update is stranded; timely waiters are woken |
| `token_overlap` | 2 clients | **violation**: overlapping updates |
| `token_wakeup` | 2 clients | **violation**: lost wakeup |
| `service` | a good file and one per defect, 2 instance ids, 1 gNB with 1 or 2 TAIs | whatever may be left at the NRF is reported; the NF joins once and nothing revives its membership (refinement); the deregistration names the registration; a served gNB has a registered AMF, and an accepted one an AMF that is registered or has asked to leave; the profile is valid; NG Setup accepts configured TAIs only, blames exactly the malformed requests and tells what the profile says; a signal ends the process, within nine steps of its two tasks, unless its deregistration is never answered |
| `service_tac` | the same files and requests | **violation**: a gNB that announces a configured TAI is refused because the configuration writes its TAC in upper case |

The runs check the type invariant where it says more than types: that attempts
and looks stay within their limits (`controller`, `token`), and that at most one
request of a kind is under way (`service`). Elsewhere it is proved only.

Each violation is a finding in `PROJECT.json` that quotes the doc or comment the
code departs from.

**Bounds.** The races are between two tasks over one key; most instances add a
third or fourth so that a bystander exists and a second race can follow the
first. For RAN connections two are enough for a race and for a reconnection, and
the safety properties are proved for any number. Three set-up attempts are kept as
in the code. `ReadLimit` is 9 in the code and 2 in the run `token`, so that giving
up is reached; the violation runs use 9.
In `service` the TACs and slice differentiators come in both cases, MNCs with two
and three digits, one TAI has a NID, the set id needs more than eight bits, and the
announced PLMNs include an unusual filler, swapped digits and non-digits. Requests have one or two
items, which is enough for a good one before or behind a bad one; the theorems are
for any length.
Deadlock is not checked: in every module the system rests when no call, message
or connection is left.

**Fairness** is weak fairness of a task's own steps: the runtime polls what is
ready. Callers, peers, operators and the NRF owe nothing.

* `queue`: closures are assumed to end. The only one, the NAS handler, does.
* `EofEndsConnection`: only the steps possible after the end of the stream are fair;
  no PDU has to arrive.
* `CancelEndsAccepting`: the accept loop is polled, but accepting need not succeed. An
  error that leaves the connection in the backlog (`EMFILE`) may recur at every poll,
  and the property names this as the one thing that holds the loop up.
* `TasksEnd`: the message tasks are polled; that the NAS handler they wait for runs is
  what the run `queue` shows of the context queue.
* `TimelyWaiterIsWoken` and `SignalEndsProcess`: the tasks are polled and no request has
  to end, since the HTTP client has no timeout. The properties say what this costs. A
  waiter is kept only by a token request that never ends. A registration that is not
  answered does not delay shutdown, as the `select!` drops it; a token or
  deregistration request that is never answered keeps the process for ever, and
  nothing else does.
* `token_wakeup` (a violation) assumes that requests do end, so that the lost wake-up is
  what it shows.

## Proofs

All are for every value of the constants, from the named assumptions on the
constants only. For most modules these say that the "nothing" value is not a member
of the sets. `LifecycleAssumption` adds that the AMF's own id is one the NRF can hold
and that files have the fields the deserialiser requires (`ConfigFile`);
`RequestsAssumption` that NG Setup requests are non-empty sequences of three-octet
TACs and PLMN identities, as the decoder guarantees.

| Module | Theorems | Inductive invariant |
|---|---|---|
| `ContextQueueProofs` | `TypeCorrect`, `SingleProcessor`, `NothingStranded`, `WriteLockUncontended`, `FuturesAreKept`, `DeadlockFree`, `QueueIsSerialExecutor` and `QueueKeepsArrivalOrder` (refinements) | see below |
| `NgapControllerProofs` | `TypeCorrect`, `RegistryConsistent`, `AssociationsConsistent`, `RegistrationIsOwned`, `EofCountsDown` (action properties) | adds that a task past NG Setup knows its id, that an accepted connection has its address, and that a connection not yet made has no stream |
| `InitialUeProofs` | `TypeCorrect`, `OwnContext`, `UniqueAmfUeIds`, `SilentHandler`, `ContextNeverReplaced` (action property), `HandlersUseManager` (refinement) | adds that the map holds exactly the contexts whose task has passed the add, that ids handed out are distinct and below the counter, and that a message not yet read has no id and no answer |
| `ContextManagerProofs` | `TypeCorrect`, `NeverDuplicated`, `LossHasCause` (action property) | adds that `change_id` holds a queue exactly between its map operations and that a context not yet added is nowhere |
| `TokenStoreProofs` | `TypeCorrect`, `NeverLeftUpdating`, `ReturnedEntriesReady`, `OnlyLateWaiters` (action property) | adds that the request's outcome is known before it is stored, that a ready token in the map was granted to who stored it (`ReadyWasGranted`), and that who waits is registered with an update that has begun (`WaitersKnowUpdater`) |
| `NfLifecycleProofs` | `TypeCorrect`, `NoSilentOrphan`, `DeregistrationFits`, `ServedIsRegistered`, `RegisteredIsValid`, `ShutdownCountsDown` (action property), `MembershipKept` (refinement) | see below |
| `ConversionsProofs` | `PlmnEncoding`, `PlmnRoundTrip`, `HexStringOfDecoded`, `DecodedOfHexString` | none: arithmetic on octet halves, for all values |
| `NfServiceProofs` | `ServiceImplementsProcess`, `ServiceKeepsMembership` (refinements), `AnswerFits`, `AcceptanceIsByTai`, `AcceptingIsMember`, `SameIdentity`, `SlicesSurvive` | the lifecycle's, plus `SetupInv`: an answer was computed from the context the AMF still has, and `MemberServes`: who has a gNB's request knows its registration, which lasts until the deregistration is sent |

**The queue.** The three safety invariants are inductive only together, and with
`FuturesInPlace` (a call not yet pushed is nowhere in the machinery; the write guard
belongs to a running processor) and `PanicIsFinal` (no processor lives after a panic;
without it `GoIdle` could clear the flag a dead processor left set). On top of that,
`WaitList` says who is on the mutex's wait list, each once: the callers that lock and
the processor from its lock to its end. `FuturesKept` follows a future from the push
to its result. Deadlock freedom comes from `WaitList`: the head of the list is a
caller that can push, or the one live processor, which waits for nothing but the
write guard, and that is free unless it holds it itself.

For the order of arrival the pending sequence is the `VecDeque` followed by the
waiting callers. A push moves the first of these to the end of the `VecDeque`
(`ConcatMove`), a processor that joins or leaves the list does not disturb it
(`ProcessorJoins`, `ProcessorReleases`), and a dropped caller is taken out of the middle
(`CallerLeaves`, `ConcatWithout`). The mapping removes the processor at its place
instead of filtering, so no induction over the list is needed.

**The handlers.** Every step of `InitialUe` leaves the manager's variables alone or is
one `AddContext`; the shape of the map and the ids of panicked tasks are what the
mapping needs of the invariant.

**Running out of steps.** `EofRunsOut` and `ShutdownRunsOut` are the safety half of
`EofEndsConnection` and `SignalEndsProcess`: a measure (`StepsLeft`, `ShutdownSteps`)
that each step of the tasks lowers and no other step raises. They are proved for any
number of connections and any behaviour of the network; that the steps are
taken is left to fairness and to TLC.

**The lifecycle.** That nothing is left at the NRF unreported is not inductive: the
last step only looks at the answer to the deregistration. The invariant follows the
registration instead. While its request may still arrive, the client knows no id
(`KnownAgree`); an answer that says "registered" means the request is gone and the NRF
holds what it says (`AnswerIsTrue`); a client that knows an id agrees with the NRF, as
long as the NRF holds anything; and a deregistration succeeds only when it named
that id (`GoneMeansGone`). A client that knows no id sends the nil id, which is never
held, so its deregistration fails and is reported. `ContextFirst` carries the
validated configuration through the context into the request and the NRF.

The membership needs one thing more (`AskedOnce`): while the registration is under
way the NRF holds nothing, and while it is awaited the client knows nothing. Then
storing it is a `Join`, its answer a `Learn`, and a deregistration that the NRF accepts
names an id the client knows, a `Leave`. A gNB's task only reads the context, so
`ServiceImplementsProcess` carries all of this over to `NfService`.

**NG Setup.** The theorems of `NfServiceProofs` rest on those of `ConversionsProofs`:
a PLMN identity is converted exactly where its halves are digits, and what is
converted is an encoding of the result; a TAC survives up to case. `AcceptanceIsByTai`
is the exact condition of acceptance: a configured TAI in lower case is announced and
nothing malformed. It shows that the case of the TAC is all that separates the code
from `SupportedIsAccepted`, which the run `service_tac` refutes.

Only model-checked: the liveness properties (`EveryCallReturns`,
`AcceptedAreServed`, `EofEndsConnection`, `CancelEndsAccepting`, `TasksEnd`, `TimelyWaiterIsWoken`, `SignalEndsProcess`).
Reasoning about fairness is beyond the prover; `DeadlockFree`, `EofCountsDown`,
`OnlyLateWaiters` and `ShutdownCountsDown` are the parts of it that are not about
fairness.

## Not modelled, and known limits

* The byte level of SCTP and ASN.1: a read gives a PDU, the end or an error.
* Nothing removes an association when its connection has ended, although the doc of
  `read_data` asks the caller to clean up: a gNB that reconnects from the same address
  pair is refused (`AddTnlaAssociation`), and addresses accumulate.
* A closure that schedules on its own context would deadlock; none does.
* A dropped `set` would leave its key updating; no caller drops one.
* A TAI configured with a NID matches no gNB: the handler builds TAIs without one and
  compares whole TAIs. The model does the same; the requests it is given are those
  of public networks, so no property counts this as right or wrong.
* An endless stream of connections would keep the biased accept loop from
  noticing cancellation; the model has finitely many connections.
* A failed token is kept and never requested again.
* `change_id` does not change what the context's own `id()` returns, and a
  `with_context` in the middle of one reports a missing context. It has no caller.
* An empty `ngapIpList` passes validation and panics in `initialize`; the model takes
  that step (`InitializeFails`) and no property forbids it.
* The 5G-S-TMSI (`utils/models/fiveg_s_tmsi.rs`) overlaps set id and pointer when it
  is converted, and is stored but never read; it is listed as a hazard.
* The code sends no heart beats, and the NRF of the model does not expire
  registrations.
* The NAS state machine (`nas/`): `handle_nas` has an empty body, so no event reaches
  it, and its builders are `todo!()`. `InitialUe` ends where `handle_nas` is called.
* `search_nf_instance`, the typed SBI clients, `send_data`,
  `remove_tnla_association` and `NgapResponseHandler` have no caller or no
  implementation. The header serialiser is stateless and works on characters.
* Reading the configuration file, command-line parsing and logging are I/O.
