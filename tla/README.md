# Verification of microservice-package-manager

TLA+ models of the Rust program in `src/`, the TLC configurations that check
them, and the theorems about them that TLAPS proves. Paths below are relative to
the directory that holds `src/`; the program's own sources are `src/src/*`.

## The system

One binary runs in three modes (`main.rs`):

* **controller** (`websocket/server.rs`): listens on port 2000 and relays. Every
  accepted connection gets a tokio task; a `broadcast` channel of 16 slots joins
  the tasks. A task gives the channel what its peer writes, and writes to its
  peer what the channel carries, *including the peer's own texts*.
* **worker** (`websocket/client.rs`, `start_client`): connects once, then loops
  over two sources: texts from the controller, and lines of its standard input,
  which it sends as they are. A text is tried as an answer (logged), then as a
  request (a handler is run and an answer sent); anything else panics.
* **command line** (`main.rs`, `send_message`): `stage`, `start`, `stop`, `list`
  and `create_bridge` send one request and end with the first text that comes
  back. `package`, `keypair`, `sign`, `verify` and `create-referral-manifest`
  work on local files, `remote-execute` and `remote-upload` use SSH.

Nothing names the recipient of a text on the wire: every peer hears everything,
and whoever reads a request decides for itself.

### Components

| component | source | state | operations | what makes it correct | status |
|---|---|---|---|---|---|
| Controller relay | `websocket/server.rs` | listener, tasks, ring, receivers, sockets | accept, handshake, subscribe, read, receive, send, end | one order of texts, no gap or repetition for a peer, nobody waits on another peer | modelled |
| Worker loop | `websocket/client.rs` | loop position, text being written | read, handle, answer, type, end | every request answered once and in order, answers never answered | modelled |
| Command-line client | `main.rs`, `websocket/client.rs` | loop position | connect, send, receive, close; the local sub commands | ends although it has no timeout | modelled |
| Request handlers | `workflow/handler.rs`, `config/read.rs` | files of a host | package, stage, list, start, stop, bridge | answers say what is true of the host | modelled |
| Service processes | `command/process.rs` | running services | spawn, wait, list processes | a worker waits for its service | modelled |
| Bridges | `network/namespace.rs` | links of a host | create bridge | OK means a bridge that is ready and one's own | modelled |
| Veth pairs, namespaces | `network/namespace.rs` | links of a host | five functions without a caller | - | not modelled |
| Signing | `package/signature.rs`, `package/create.rs` | `.ssh/`, `generated/*/signature` | create keypair, sign, verify, create referral | trusted means signed, signed means trusted; a referral leads to complete blobs | modelled |
| Packaging | `package/create.rs`, `workflow/handler.rs` | `generated/`, `artifacts/`, registry | archive, blobs, index, upload, push | index and blobs agree, what is published can be pulled | modelled |
| SSH | `remote/process.rs` | none | run a command, copy a file | - | not modelled |
| API types | `api/schema.rs` | none | parse and print | - | the messages and manifests the models speak of |
| Icons | `common/utils.rs` | none | print | - | not modelled |

### What is hard about it

* **Order and loss through the ring.** A text passes a socket, a task, a ring
  that overwrites, another task's hand and another socket. A peer that lags by
  more than the ring is cut off, and so is what it had written and nobody read.
* **Everybody hears everything.** Answers come back to all workers, including
  the one that wrote them. That this does not turn into a storm rests on the
  order of two parse attempts.
* **The worker is one loop.** While a handler runs, it neither reads nor types;
  `start` runs until the service exits. While it writes an answer it does not
  read: with full sockets the worker and its task wait for each other.
* **Panics and kills.** Malformed lines, unknown services and missing binaries
  end every worker that reads them. A spawned service outlives its worker.
* **No timeouts, no retries.** A client waits for the first text, of anybody.
* **Files without locks.** `package`, `stage`, `keypair`, `sign`, `verify` and
  `create-referral-manifest` share directories. Every one of them truncates files
  and then fills them, reads a file twice, or writes under a name that others use;
  any of them may run at the same time as another and die anywhere.
* **Errors that are passed over.** A failed upload is a line in the log, and the
  manifest that needs it is pushed. A netlink request that fails leaves what the
  earlier ones did.

`PROJECT.json` lists the hazards one by one, each at its line, with the
properties that would catch it.

## Modules

    BroadcastOrder        what the relay promises, without tasks or a ring
      ^ refinement
    Controller            the relay, with peers that do anything
      ^ refinement              ControllerProofs: theorems
    ControlPlane          workers and clients at the other end
                                ControlPlaneProofs: theorems
                                StagingProofs: theorem about stagings

    Release               versions are released, hosts get released versions
      ^ refinement
    Delivery              runs of package and of stage, files and registry
                                DeliveryProofs: theorems

    Signing               keypair, sign, verify, create-referral-manifest
                                SigningProofs: theorems

    Network               the netlink requests of create_bridge
                                NetworkProofs: theorems

    MCController, MCControlPlane, MCDelivery, MCSigning, MCNetwork
                          instances for TLC

ControlPlane has each handler as one step of its worker; Delivery and Network
open the handlers that touch files and links, and let several of them
interleave, which is what happens with several workers on a host, or with sub
commands beside them. Signing is the first thing `package` does for a service,
and three commands of their own.

**Controller.** Each direction of a connection is an immutable queue and a
counter: `sent`/`taken` towards the server, `inbox`/`read` towards the peer, each
holding at most `SockCap` unread texts. `log` is everything ever given to the
channel; the ring is its last `Capacity` texts, and `next[c]` the position of a
task's receiver. The actions are the points at which a task can be interleaved:
`Connect` (accept and spawn), `Upgrade` (handshake), `Subscribe`, `ServerRead`
(first branch of the select), `Take` (second branch: the text is now `held` by
the task), `Deliver` (its `send` completes), and the ways to end: `PeerGone`,
`Lag`, `DeliverFails`, `HandshakeFails`, `ServerExit`. A text is abstracted to
who wrote it and its rank there: the relay never looks inside.

**ControlPlane.** The same variables, with `Relay == INSTANCE Controller`, and
for every connection a program: `mode` is its place in its loop, `said` the
contents of what it wrote. Each worker action is one command's branch of
`start_client` with the handler it calls; `outgoing` is the answer being
written. `child`, `installed` and `bridges` are what handlers leave on a host.
`installed` are the services that are whole where `start` looks for them: a
staging adds those it unpacked, and takes the one away in whose archive it died,
since unpacking replaces a binary before the new one is complete
(`handler.rs:312`). `away` says that a `start` has moved the current directory of
a worker (`process.rs:9`): from then on a request with a relative working
directory (`absolute` is FALSE) means another place. A restarted worker is another
element of `Workers` with the same host. The field `re` of an answer, which says
what is answered, exists in the model only, and so does `before[c]`, who had ended
when `c` began.

**Delivery.** One service on its way from build to host. A run of `package` is a
process with a current directory and a working directory, which may differ:
`create.rs` uses the first, `handler.rs` the second. `tmp[d]` is the file behind
`generated/name.tar.gz`, `layers[d]` which file is behind which blob name, and
`data` what is in a file, so that a blob whose contents are not what its name
says can be expressed (it happens when two runs share the archive). The steps are
those of the code at which another run can tell the difference: create the
archive, fill it, hash it (opened by name again), rename it, empty and fill the
config blob (`config[d]`, one name for all manifests of a directory, so that every
run rewrites the blob of the earlier ones in place), write manifest, index and .pkg, list the blobs, upload each, read index and manifest again, push.
A run of `stage` reads the tag, gets the layer, replaces the binary and fills it.
`Fails` ends any run between steps and `FailsWriting` within a write.
`released` and `before` are history; no action depends on them, except that
`WriteArchive` asks `before` whether another run can be writing to its file
(`Shared`), which leaves a mixture. `Release` is the abstract specification:
`installed` is mapped to what each host's binary was unpacked from.

**Signing.** Files of `.ssh/` that the commands read (`private`, `public`,
`signature`) are created empty (`Torn`) in one step and filled in another; the
others are written in one step that may leave them `Torn` by a death. `key`,
`content` and `sig` are what a process has read: it goes on with them whatever
becomes of the files. Signatures are kept by base name (`Name`), so two artifacts
can share one. `before[p]` records who had ended when `p` began; it lets
properties say that two commands took turns, and no action reads it.

**Network.** One action per netlink request, `Fails` for the error of any of
them, and `Delete` for the operator of the host. A link is named after the
request that added it, as the kernel gives an index to one link only; the second
request looks the link up by name again (`GetLink`).

Definitions named in the `mutants` of `PROJECT.json` (`ServerReadOvertakes`,
`StartDetached`, ...) are not part of any specification: each is a variation of
the action below it that some property must reject.

### Abstractions

* In ControlPlane, handlers are atomic: while one runs the worker does nothing
  else, and no other process reads the files of its host, except another worker
  there. A kill in the middle of a staging is the `Panics` outcome, with any
  prefix installed and the next binary possibly half replaced. What others see in
  between is the subject of Delivery.
* In ControlPlane, a host has one working directory, which full paths name, and
  so do relative ones for a worker that is where it was launched. What a worker
  that is away stages goes to another directory, about which nothing is said; a
  start there may or may not find a binary.
* No operator types a line that parses as an answer (`Typed`): a worker would log
  it, as it does every answer, and do nothing else.
* Delivery has one service; `package` and `stage` go through the configuration
  one service after the other, with separate directories for each. Signing a
  service's binary before packing it is in Signing: Delivery never reads keys,
  and neither does the code it models. Two archives are never equal (a tar
  records times). The config blob is in its directory only, and so are the
  manifests: a run uploads them too, but nobody pulls them. The registry
  is external: it takes a blob if its contents have its digest and a manifest
  always.
* In Signing, no two runs generate the same key, and a signature is the pair of
  key and content: what SHA-256 and RSA are trusted for.
* A link deleted by the operator never comes back; one added later under its name
  is another link.
* Non-text frames are left out: the code drops them (`server.rs:20`).
* A closed peer ends its task either after everything it wrote was read, or, if
  it left texts unread, by a reset at any time (`Broken`).
* The configuration file is the same on all hosts, and may be unreadable at any
  moment (`StartFails`, `Stage` with a KO), as it is when its path is relative
  and a `start` moved the worker.

## Runs

| run | instance | what it shows |
|---|---|---|
| `relay` | 2 peers, ring 1, sockets 1, 2 texts each | types, `InboxIsWindow`, `PositionsAccount`, `SendersInOrder`, `PeersAgree`, `ImplementsOrder` (refinement), `ReadersAreServed` (liveness) |
| `plane_safety` | 2 workers of one host, at once or in turn, 1 typed text of any kind, 2 services | `AnswersInOrder`, `AnswersFollowRequests`, `StartedMeansExited` |
| `plane_stage` | 2 workers of one host, at once or in turn, 1 typed text each: stagings by full or relative path and a start, 2 services | `StagedMeansInstalled` where stagings are cut short and a start moves the worker |
| `plane_worker` | 1 worker, 4 typed start requests | `AnswersInOrder` over several requests, `WedgesLast` (action property), `RequestsAreAnswered` (liveness) |
| `plane_client` | 1 worker, 1 client, 1 typed request | `ImplementsRelay` (refinement), `ClientsEnd` (liveness) |
| `signing` | 3 commands (symmetric), 2 artifacts of one base name, 2 contents (symmetric), with and without an older pair | `TrustedMeansSigned`, `SignedIsTrusted`, `PairsMatch`, `ReferralsAreWhole`, `ReferralsAreSigned` |
| `network` | 3 requests, 2 names, 2 addresses (all symmetric) | `OKMeansReady`, `OneSucceeds`, `AbandonedStays` (action property) |
| `delivery` | 2 runs of package, 2 of stage, 2 directories (all symmetric), 1 host | `IndexIsWhole`, `TagsHaveLayers`, `DeliveredInTurn`, `StagedMeansWhole`, `ImplementsRelease` (refinement) |
| `plane_target`, `plane_list`, `plane_stop` | smallest that shows it | the first three findings below, each a violation of what the documentation says |
| `delivery_workdir` | as `delivery`, 1 run of stage | the fourth finding |

**Bounds.** A ring of one slot and sockets of one text make lag, blocked sends
and full sockets happen within a few texts; with the code's 16 slots they need
more texts and no other steps. Two peers that hear each
other and themselves are the fewest that can disagree about an order, and two
texts of each the fewest that could be relayed in the wrong one, a third text
being enough to overrun the ring. `MaxSends` bounds the texts of a peer, `MaxTyped` the
lines of an operator. Four typed texts on sockets of one text are the fewest
with which a worker and its task block each other, so that `RequestsAreAnswered`
is checked where that exception (`Wedged`) really occurs, and `WedgesLast` shows
that it is for good: no write has a timeout. In `plane_safety` the
texts are typed by an operator rather than sent by clients, since the relay does
not tell them apart; `plane_client` has the client's program. In
`plane_stage` each of two workers of a host may type a text, and both may hear
both: two stagings are the fewest with which one completes, another one tears its
binary, and a worker ends during one before another begins; a start and a staging
the fewest with which a worker moves before it stages by the full path; a second
service is what can be missing when the first could be started. `MaxSends` is 2 there: a third
text of a worker, an answer, stays unwritten, and counts as what it says. What
`MeansHome` leaves out, a relative path after a start, takes a third kind of text;
that it is the only exception is part of the proof.

Three commands are the fewest with a key pair, a signing and a verification, and
also with two that interfere while a third looks on; the older pair stands for
any number of earlier key generations. Two artifacts of one base name are the
fewest that share a signature. Two packagers and two directories give every way
in which runs share a directory, follow one another, or build and publish in
different ones; two stagers on one host both follow and overlap each other.
Three requests allow one to be half made, deleted and made again while a third
is under way. All of these properties but the liveness ones are also proved for any number. Symmetry
is used with invariants and action properties only. Deadlock is not
checked: processes end, and a system whose processes all ended has stopped.

**Fairness.** Every server task, every connected worker and every client goes on
as long as it can (weak fairness of `ServerStep`, `ConnLoop`, `WorkerLoop`,
`CliLoop`): tokio polls each ready task, and each process is scheduled. Nothing
is assumed of the environment: no process has to start, no operator to type, no
service to exit, no peer to read. `ReadersAreServed` and `RequestsAreAnswered`
therefore state such conditions themselves. The traffic of a run is finite, so
these do not depend on which ready branch `select!` picks.

### Findings

* `plane_target`: `start` (like stage, stop and create_bridge) is carried out by
  every worker, though `schema.rs:189` describes `node` as "Deploy to a specific
  node (hostname of server) or all servers".
* `plane_list`: `list` ends with the first text that comes back, which may be its
  own request; `schema.rs:221` says "List all current registered nodes".
* `plane_stop`: a stop relayed after a start never takes effect. The worker reads
  nothing while the service runs, and `stop_service` kills nothing;
  `README.md:4` promises "start, stop,  kill, restart".
* `delivery_workdir`: the image is built in `generated/` of the current directory
  (`create.rs:18`) and looked for in `generated/` of the working directory
  (`handler.rs:98`), though `schema.rs:59` calls it "The base working directory
  to store generated artifacts". With both different a run may end well and
  publish what an earlier run left there.

Three more differences were met on the way and have no run, because a property
would only restate a missing call: staging never verifies a signature
(`schema.rs:77` says it verifies that binaries are signed; `verify_artifact` has
no caller but the `verify` command); staging from a package unpacks the image into
`staging/` and never the binary into `microservices/`, where `start` looks
(`schema.rs:90` calls the working directory of stage "The base working directory
to hold the untarred binary files"); and `sign` reports success after an error
(`main.rs:141`).

What the properties leave open is as telling as what they state. `PairsMatch`,
`IndexIsWhole`, `TagsHaveLayers` and `DeliveredInTurn` have premises (runs that
took turns, uploads that were not passed over) because they are false without
them: TLC finds the overlapping runs, or the lost upload, at once when a premise
is dropped. `IndexIsWhole` excepts one thing that a lone run does: while it
rewrites the config blob, or after it died there, the image that an earlier run
left has a config that is cut short. `StagedMeansInstalled` lets a completed staging be
undone by a worker that had not ended before this one began and that is in the
middle of a staging, or ended in one; and it does not promise anything of a
relative path to a worker that was moved by a start.

No property covers what is lost when a task ends: `SendersInOrder` is about the
texts a task took, and the liveness properties except tasks that ended, since
nothing acknowledges a text.

## Proofs

The theorems hold for every number of processes, every ring and socket size and
every bound, from the `ASSUME`s of the modules.

ControllerProofs:

* `TypeCorrect`: the type invariant of the relay.
* `PositionsCorrect`, `InboxCorrect`: `InboxIsWindow` is not inductive, since
  `Deliver` writes what the task holds. The inductive invariant `Handed` adds
  `PositionsAccount`: a relaying task's receiver stands right after what was
  handed over, a sending task's one text later, and what it holds is the text at
  that position. `UnmovedKeeps` disposes of every connection a step leaves alone.
* `SendersCorrect`: only `ServerRead` touches the log or what was read.
* `PeersAgreeCorrect`: from the previous two, since a text has one place.
* `ImplementsOrderCorrect`: Subscribe is Join, ServerRead is Publish, Deliver is
  Hear (this needs `Handed`), the ends of tasks are CutOff, the rest stutters.

ControlPlaneProofs:

* `ImplementsRelayCorrect`: each action of a program contains one action of its
  end of the connection, or leaves the relay alone. Through it `RelayAlways`
  brings the invariants of ControllerProofs over, which all that follows uses,
  and `PlaneImplementsOrder` the refinement: workers, clients and controller
  composed implement BroadcastOrder.
* `StartedMeansExitedCorrect`: inductive with the types of `mode` and `child`.
* `TypeCorrect`: needs the relay's invariants, since the type of an answer is
  that of the text it answers, which has to be one that was relayed.
* `AnswersFollowCorrect`, `AnswersInOrderCorrect`: neither is inductive. `AInv` says of each worker what it has answered (`Asked`: texts of
  its inbox up to `Dealt`, each once, the last pending while it replies), what those
  answers are about (`Truthful`: requests), that clients say no answers, and that in the log what is
  answered comes first (`Relayed`). A text that was said stays (`ContentStays`),
  and a worker's step leaves it still, hears or sends (`WorkerMoves`). For the
  order, `Turns` adds that answers follow the inbox and that only the last text
  read may lack one, while the worker is `Owing` it: about to write it, or dead.
* `WedgesLastCorrect`: from `Afoot` (a worker past its idle wait has its
  connection), so that neither side of a wedge can see the other end.

StagingProofs: `StagedInstalledCorrect`, over the invariants of ControlPlaneProofs.
`SInv` says that whoever had ended when a worker began has ended for good (`Past`),
that a worker is away only after it read a start (`Moved`), and that a worker that
wrote, or is about to write, that a staging was carried out in its own directory has
the host `Stocked`: every service is there, or a worker that had not ended before
died in a staging (`CutShort`, which nothing undoes). A step takes a service away
only by a staging that is thereby cut short (`StageStep`), and its worker, alive
until then, is none of those who had ended before.

NetworkProofs (`Inv`: `UniqueNames`, `LinkAdded`, `Progress`): `TypeCorrect`;
`ReadyCorrect` (a request past its address has it on the link); `OneSucceedsCorrect` (a request that goes on works on the link it added,
unless that was deleted); `AbandonedCorrect` (from the type invariant, per action).

DeliveryProofs: `TypeCorrect`; `ReleaseCorrect` (what a stage is to install was
released); `StagedCorrect` (`Installing`: who wrote the binary last, and who may have torn
it); `IndexCorrect` and `TagsCorrect`, whose inductive invariants (`Located`,
`CleanInTurn`, `Published`) say of a directory in which runs took
turns that at most one is at work, that it owns the archive, that finished layers
are named after their contents, and that what is listed for upload or was lost
covers what the tag will lead to; `Configured` says that a config blob that is not
whole is the work of a run later than the index, at work on it or dead; `DeliveredCorrect` (`Delivers`: while a run of
package is the latest anywhere, the files of its directory and what it has read are
its own, `Built`; what a stage that follows it reads under the tag is its build,
`Carried`; what the last stage of a host wrote is still there, `Left`).

SigningProofs: `TypeCorrect` with what each step knows of the data of its process;
`TrustedCorrect` (every signature on disk was made by a run of sign: `Stored`,
`History`); `PairsCorrect` (`Paired`: while one run is at work everyone before
ended well); `ReferralsSignedCorrect` (`TornBy`, `Referred`: a torn signature
has an author); `ReferralsWholeCorrect` (`Whole`: the blobs an index leads to, and
the runs that may spoil them); `SignedCorrect`, whose property looks back from a
verification to a signing. `Trusting` brings it down to the present: once the pairs
are settled (`Settled`: the runs of keypair all ended well, apart, and before the
signing), whoever signs holds the key on disk (`HoldsKey`), whoever verifies later
reads that key (`ReadsKey`), and the last signing for a name left its own signature there (`StoredLast`).

Only model-checked: the liveness properties (`ReadersAreServed`,
`RequestsAreAnswered`, `ClientsEnd`), since fairness and ENABLED are out of the
prover's reach. Every invariant, action property and refinement of the passing
runs has a theorem. `AnswersInOrder` speaks of positions in the inbox and among
the texts written, and not of sequences filtered with SelectSeq, about which the
provers know nothing.

## Not modelled

* SSH (`remote/process.rs`): one blocking session per command, no state, nothing
  to interleave with.
* The veth and namespace functions of `network/namespace.rs`: nothing calls them,
  so there is no order of calls to model.
* Icons, logging, argument parsing, and the JSON and YAML of `api/schema.rs`
  beyond the fields the models speak of: wording and serialisation.
* The staging directory: `start` never looks there. Another run of stage that
  downloads the same layer at the same moment, or left it incomplete, can only
  make the unpacking fail, which `Fails` in Delivery allows.
* Where a worker that was moved by a start is: ControlPlane knows that it is away,
  and Delivery that its current directory may be any (`cwd`).
* The connection between signatures and layers: the program makes none.
