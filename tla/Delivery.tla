------------------------------- MODULE Delivery --------------------------------
(***************************************************************************)
(* The way of one service from a developer to the hosts: runs of package   *)
(* (workflow/handler.rs, package/create.rs) build an OCI image in a        *)
(* directory, put it into a .pkg and push it to a registry; runs of stage  *)
(* pull it and unpack the binary where start looks for it.  Every run is a *)
(* process of its own: a sub command, or a worker's handler.  Several may  *)
(* run at once, in one directory and on one host, and die between any two  *)
(* steps.  The registry is external.                                       *)
(*                                                                         *)
(* A run's archive is named after the run, since no two are alike (a tar   *)
(* records times), and so is a manifest, which is a function of its layer. *)
(* A digest is a name for contents: blobs have the name of what was hashed,*)
(* which need not be what is in them.                                      *)
(***************************************************************************)
EXTENDS FiniteSets

CONSTANTS
  Packagers, Stagers, Dirs, Hosts,
  HostOf,         \* HostOf[s]: the host that runs stage s
  Missing,        \* no file, or one that cannot be read
  Torn            \* the contents of an archive that is not complete

Procs == Packagers \union Stagers

VARIABLES
  generated,  \* directories with a generated/ in them
  tmp,        \* tmp[d]: the file generated/name.tar.gz, as the run that made it
  data,       \* data[f]: what is in the file that run f made there
  layers,     \* layers[d][b]: the file that is the blob of name b
  config,     \* config[d]: the blob of the config, the same for all manifests
  manifests,  \* manifests[d]: layers that have a complete manifest blob
  index,      \* index[d]: the layer that index.json leads to
  pkg,        \* pkg[d]: the index in artifacts/name.pkg
  stored,     \* registry: layers it has
  tag,        \* registry: the layer that the manifest under the tag leads to
  released,   \* registry: all that the tag ever led to
  binary,     \* binary[h]: the unpacked binary on host h
  pc,         \* pc[p]: what run p does next, or how it ended
  cwd, wd,    \* cwd[p], wd[p]: its current directory, its --working-dir
  fd,         \* fd[p]: the file it writes its archive to
  dig,        \* dig[p]: the digest it computed (package), or read (stage)
  todo,       \* todo[p]: blobs it has yet to upload
  lost,       \* lost[p]: blobs and tags it failed to upload, and went on
  before      \* before[p]: the runs that had ended when p began

files    == <<generated, tmp, data, layers, config, manifests, index, pkg>>
registry == <<stored, tag, released>>
dirs     == <<cwd, wd>>
vars     == <<files, registry, binary, pc, dirs, fd, dig, todo, lost, before>>

Digests == Packagers \union {Torn}
NoFile  == [by |-> Missing, of |-> Missing]
NoBlob  == [by |-> Missing, whole |-> FALSE]

Ended == {"done", "failed"}
PackSteps == {"create", "tar", "hash", "rename", "empty config", "fill config",
              "write manifest", "write index", "write pkg", "list", "upload", "push"}
StageSteps == {"get blob", "create binary", "write binary"}

ASSUME DeliveryAssumption ==
  /\ Packagers \intersect Stagers = {}
  /\ HostOf \in [Stagers -> Hosts]
  /\ Missing # Torn /\ {Missing, Torn} \intersect Procs = {}

Init ==
  /\ generated \in SUBSET Dirs
  /\ tmp = [d \in Dirs |-> Missing]
  /\ data = [p \in Packagers |-> Torn]
  /\ layers = [d \in Dirs |-> [b \in Digests |-> Missing]]
  /\ config = [d \in Dirs |-> NoBlob]
  /\ manifests = [d \in Dirs |-> {}]
  /\ index = [d \in Dirs |-> Missing]
  /\ pkg = [d \in Dirs |-> Missing]
  /\ stored = {} /\ tag = Missing /\ released = {}
  /\ binary = [h \in Hosts |-> NoFile]
  /\ pc = [p \in Procs |-> "new"]
  /\ cwd \in [Packagers -> Dirs] /\ wd \in [Packagers -> Dirs]
  /\ fd = [p \in Packagers |-> Missing]
  /\ dig = [p \in Procs |-> Missing]
  /\ todo = [p \in Packagers |-> {}]
  /\ lost = [p \in Packagers |-> {}]
  /\ before = [p \in Procs |-> {}]

Begins(p, to) ==
  /\ pc[p] = "new"
  /\ pc' = [pc EXCEPT ![p] = to]
  /\ before' = [before EXCEPT ![p] = {q \in Procs : pc[q] \in Ended}]

Step(p, from, to) ==
  /\ pc[p] = from
  /\ pc' = [pc EXCEPT ![p] = to]
  /\ UNCHANGED <<before, dirs>>

-------------------------------------------------------------------------------
(* handler::package, for a service.  generated/ is not emptied.  The       *)
(* signing comes next (Signing); when it fails the run ends.               *)

PackageBegins(p) ==
  /\ Begins(p, "create")
  /\ generated' = generated \union {wd[p]}
  /\ UNCHANGED <<tmp, data, layers, config, manifests, index, pkg, registry, binary,
                 dirs, fd, dig, todo, lost>>

(* Mutant: an archive that is there is taken as it is. *)
CreateArchiveOnce(p) ==
  LET d == cwd[p] IN
  /\ d \in generated
  /\ Step(p, "create", IF tmp[d] = Missing THEN "tar" ELSE "hash")
  /\ tmp' = [tmp EXCEPT ![d] = IF @ = Missing THEN p ELSE @]
  /\ fd' = [fd EXCEPT ![p] = p]
  /\ UNCHANGED <<generated, data, layers, config, manifests, index, pkg, registry, binary,
                 dig, todo, lost>>

(* create_signed_artifact: the archive is created in the current directory, *)
(* over the one that is there.                                              *)
CreateArchive(p) ==
  LET d == cwd[p]
      f == IF tmp[d] = Missing THEN p ELSE tmp[d] IN
  /\ d \in generated
  /\ Step(p, "create", "tar")
  /\ tmp' = [tmp EXCEPT ![d] = f]
  /\ data' = [data EXCEPT ![f] = Torn]
  /\ fd' = [fd EXCEPT ![p] = f]
  /\ UNCHANGED <<generated, layers, config, manifests, index, pkg, registry, binary,
                 dig, todo, lost>>

(* Another run wrote to the file of p since p created it, or is at it, or  *)
(* died at it.                                                             *)
Shared(p) ==
  \/ data[fd[p]] # Torn
  \/ \E q \in Packagers \ before[p] :
       q # p /\ fd[q] = fd[p] /\ pc[q] \in {"tar", "failed"}

(* What two runs write to one file may leave a mixture. *)
WriteArchive(p) ==
  /\ Step(p, "tar", "hash")
  /\ \E c \in IF Shared(p) THEN {p, Torn} ELSE {p} :
       data' = [data EXCEPT ![fd[p]] = c]
  /\ UNCHANGED <<generated, tmp, layers, config, manifests, index, pkg, registry, binary,
                 fd, dig, todo, lost>>

(* The file is opened again by its name. *)
HashArchive(p) ==
  /\ Step(p, "hash", "rename")
  /\ tmp[cwd[p]] # Missing
  /\ dig' = [dig EXCEPT ![p] = data[tmp[cwd[p]]]]
  /\ UNCHANGED <<files, registry, binary, fd, todo, lost>>

RenameArchive(p) ==
  LET d == cwd[p] IN
  /\ Step(p, "rename", "empty config")
  /\ tmp[d] # Missing
  /\ layers' = [layers EXCEPT ![d][dig[p]] = tmp[d]]
  /\ tmp' = [tmp EXCEPT ![d] = Missing]
  /\ UNCHANGED <<generated, data, config, manifests, index, pkg, registry, binary, fd,
                 dig, todo, lost>>

(* create_oci_manifest: the config has the same contents, so the same name, *)
(* for all manifests: the blob that older ones refer to is rewritten in     *)
(* place, emptied first.                                                    *)
EmptyConfig(p) ==
  /\ Step(p, "empty config", "fill config")
  /\ config' = [config EXCEPT ![cwd[p]] = [by |-> p, whole |-> FALSE]]
  /\ UNCHANGED <<generated, tmp, data, layers, manifests, index, pkg, registry,
                 binary, fd, dig, todo, lost>>

(* Mutant: the result of writing the config is dropped. *)
FillConfigUnchecked(p) ==
  /\ Step(p, "fill config", "write manifest")
  /\ config' \in {config, [config EXCEPT ![cwd[p]] = [by |-> p, whole |-> TRUE]]}
  /\ UNCHANGED <<generated, tmp, data, layers, manifests, index, pkg, registry,
                 binary, fd, dig, todo, lost>>

FillConfig(p) ==
  /\ Step(p, "fill config", "write manifest")
  /\ config' = [config EXCEPT ![cwd[p]] = [by |-> p, whole |-> TRUE]]
  /\ UNCHANGED <<generated, tmp, data, layers, manifests, index, pkg, registry,
                 binary, fd, dig, todo, lost>>

WriteManifest(p) ==
  /\ Step(p, "write manifest", "write index")
  /\ manifests' = [manifests EXCEPT ![cwd[p]] = @ \union {dig[p]}]
  /\ UNCHANGED <<generated, tmp, data, layers, config, index, pkg, registry, binary,
                 fd, dig, todo, lost>>

WriteIndex(p) ==
  /\ Step(p, "write index", "write pkg")
  /\ index' = [index EXCEPT ![cwd[p]] = dig[p]]
  /\ UNCHANGED <<generated, tmp, data, layers, config, manifests, pkg, registry, binary,
                 fd, dig, todo, lost>>

(* generated/name of the current directory goes into the .pkg of the       *)
(* working directory, with all that earlier runs left there.               *)
WritePkg(p) ==
  /\ Step(p, "write pkg", "list")
  /\ pkg' = [pkg EXCEPT ![wd[p]] = index[cwd[p]]]
  /\ UNCHANGED <<generated, tmp, data, layers, config, manifests, index, registry, binary,
                 fd, dig, todo, lost>>

BlobsIn(d) == {b \in Digests : layers[d][b] # Missing}

(* Mutant: only the blob that was just built is uploaded. *)
ListBlobsNew(p) ==
  /\ Step(p, "list", "upload")
  /\ BlobsIn(wd[p]) # {}
  /\ todo' = [todo EXCEPT ![p] = BlobsIn(wd[p]) \intersect {p}]
  /\ UNCHANGED <<files, registry, binary, fd, dig, lost>>

(* From here on the blobs are those of the working directory. *)
ListBlobs(p) ==
  /\ Step(p, "list", "upload")
  /\ BlobsIn(wd[p]) # {}
  /\ todo' = [todo EXCEPT ![p] = BlobsIn(wd[p])]
  /\ UNCHANGED <<files, registry, binary, fd, dig, lost>>

(* The registry takes a blob if its contents have that digest. *)
UploadBlob(p) ==
  \E b \in todo[p] :
    /\ Step(p, "upload", "upload")
    /\ data[layers[wd[p]][b]] = b
    /\ todo' = [todo EXCEPT ![p] = @ \ {b}]
    /\ stored' = stored \union {b}
    /\ UNCHANGED <<files, tag, released, binary, fd, dig, lost>>

(* A blob that cannot be uploaded is an error in the log. *)
UploadFails(p) ==
  \E b \in todo[p] :
    /\ Step(p, "upload", "upload")
    /\ todo' = [todo EXCEPT ![p] = @ \ {b}]
    /\ lost' = [lost EXCEPT ![p] = @ \union {b}]
    /\ UNCHANGED <<files, registry, binary, fd, dig>>

(* Mutant: that there is nothing to read is not an error. *)
ReadIndexUnchecked(p) ==
  LET d == wd[p] IN
  /\ Step(p, "upload", "push")
  /\ todo[p] = {}
  /\ dig' = [dig EXCEPT ![p] = index[d]]
  /\ UNCHANGED <<files, registry, binary, fd, todo, lost>>

(* index.json and the manifest it names are read, from the working         *)
(* directory.  dig becomes what is going to be published.                  *)
ReadIndex(p) ==
  LET d == wd[p] IN
  /\ Step(p, "upload", "push")
  /\ todo[p] = {}
  /\ index[d] \in manifests[d]
  /\ dig' = [dig EXCEPT ![p] = index[d]]
  /\ UNCHANGED <<files, registry, binary, fd, todo, lost>>

PushManifest(p) ==
  /\ Step(p, "push", "done")
  /\ tag' = dig[p]
  /\ released' = released \union {dig[p]}
  /\ UNCHANGED <<files, stored, binary, fd, dig, todo, lost>>

(* A manifest that cannot be pushed is an error in the log. *)
PushFails(p) ==
  /\ Step(p, "push", "done")
  /\ lost' = [lost EXCEPT ![p] = @ \union {dig[p]}]
  /\ UNCHANGED <<files, registry, binary, fd, dig, todo>>

-------------------------------------------------------------------------------
(* handler::stage, from the registry.  (Without it, stage unpacks the .pkg *)
(* into the staging directory, where nothing reads it.)                    *)

(* Mutant: any layer of the repository will do. *)
StageBeginsUntagged(s) ==
  /\ \E b \in stored : dig' = [dig EXCEPT ![s] = b]
  /\ Begins(s, "get blob")
  /\ UNCHANGED <<files, registry, binary, dirs, fd, todo, lost>>

StageBegins(s) ==
  /\ tag # Missing
  /\ Begins(s, "get blob")
  /\ dig' = [dig EXCEPT ![s] = tag]
  /\ UNCHANGED <<files, registry, binary, dirs, fd, todo, lost>>

GetBlob(s) ==
  /\ Step(s, "get blob", "create binary")
  /\ dig[s] \in stored
  /\ UNCHANGED <<files, registry, binary, fd, dig, todo, lost>>

(* Unpacking replaces the binary by a new file, and then fills it.  An     *)
(* archive that is torn is an error half-way.                              *)
CreateBinary(s) ==
  /\ Step(s, "create binary", "write binary")
  /\ binary' = [binary EXCEPT ![HostOf[s]] = [by |-> s, of |-> Torn]]
  /\ UNCHANGED <<files, registry, fd, dig, todo, lost>>

(* Mutant: the result of unpacking is dropped. *)
WriteBinaryUnchecked(s) ==
  LET h == HostOf[s] IN
  /\ Step(s, "write binary", "done")
  /\ binary' = IF binary[h].by = s
               THEN [binary EXCEPT ![h] = [by |-> s, of |-> dig[s]]] ELSE binary
  /\ UNCHANGED <<files, registry, fd, dig, todo, lost>>

(* What another run has replaced meanwhile is written to no purpose. *)
WriteBinary(s) ==
  LET h == HostOf[s] IN
  /\ Step(s, "write binary", "done")
  /\ dig[s] # Torn
  /\ binary' = IF binary[h].by = s
               THEN [binary EXCEPT ![h] = [by |-> s, of |-> dig[s]]] ELSE binary
  /\ UNCHANGED <<files, registry, fd, dig, todo, lost>>

-------------------------------------------------------------------------------
(* An error that ends the run, an exit(1), a panic or a kill: what the     *)
(* run did stays.                                                          *)
Fails(p) ==
  /\ pc[p] \in PackSteps \union StageSteps
  /\ Step(p, pc[p], "failed")
  /\ UNCHANGED <<files, registry, binary, fd, dig, todo, lost>>

(* The same in the middle of a write. *)
FailsWriting(p) ==
  /\ \/ /\ Step(p, "write manifest", "failed")
        /\ manifests' = [manifests EXCEPT ![cwd[p]] = @ \ {dig[p]}]
        /\ UNCHANGED <<index, pkg>>
     \/ /\ Step(p, "write index", "failed")
        /\ index' = [index EXCEPT ![cwd[p]] = Missing]
        /\ UNCHANGED <<manifests, pkg>>
     \/ /\ Step(p, "write pkg", "failed")
        /\ pkg' = [pkg EXCEPT ![wd[p]] = Missing]
        /\ UNCHANGED <<manifests, index>>
  /\ UNCHANGED <<generated, tmp, data, layers, config, registry, binary, fd, dig,
                 todo, lost>>

Package(p) ==
  \/ PackageBegins(p) \/ CreateArchive(p) \/ WriteArchive(p) \/ HashArchive(p)
  \/ RenameArchive(p) \/ EmptyConfig(p) \/ FillConfig(p)
  \/ WriteManifest(p) \/ WriteIndex(p) \/ WritePkg(p)
  \/ ListBlobs(p) \/ UploadBlob(p) \/ UploadFails(p) \/ ReadIndex(p)
  \/ PushManifest(p) \/ PushFails(p) \/ FailsWriting(p)

Stage(s) == StageBegins(s) \/ GetBlob(s) \/ CreateBinary(s) \/ WriteBinary(s)

Next ==
  \/ \E p \in Packagers : Package(p) \/ Fails(p)
  \/ \E s \in Stagers : Stage(s) \/ Fails(s)

Spec == Init /\ [][Next]_vars

-------------------------------------------------------------------------------
FileTypes ==
  /\ generated \subseteq Dirs
  /\ tmp \in [Dirs -> Packagers \union {Missing}]
  /\ data \in [Packagers -> Digests]
  /\ layers \in [Dirs -> [Digests -> Packagers \union {Missing}]]
  /\ config \in [Dirs -> [by : Packagers, whole : BOOLEAN] \union {NoBlob}]
  /\ manifests \in [Dirs -> SUBSET Digests]
  /\ index \in [Dirs -> Digests \union {Missing}]
  /\ pkg \in [Dirs -> Digests \union {Missing}]

RemoteTypes ==
  /\ stored \subseteq Digests /\ released \subseteq Digests
  /\ tag \in released \union {Missing}
  /\ binary \in [Hosts -> [by : Stagers, of : Digests] \union {NoFile}]

RunTypes ==
  /\ pc \in [Procs -> {"new"} \union PackSteps \union StageSteps \union Ended]
  /\ cwd \in [Packagers -> Dirs] /\ wd \in [Packagers -> Dirs]
  /\ fd \in [Packagers -> Packagers \union {Missing}]
  /\ dig \in [Procs -> Digests \union {Missing}]
  /\ todo \in [Packagers -> SUBSET Digests]
  /\ lost \in [Packagers -> SUBSET Digests]
  /\ before \in [Procs -> SUBSET Procs]

(* Types, and that a run that writes an archive has a file for it. *)
TypeOK ==
  /\ FileTypes /\ RemoteTypes /\ RunTypes
  /\ \A p \in Packagers : pc[p] = "tar" => fd[p] \in Packagers

Begun(p) == pc[p] # "new"

(* p and q did not overlap, if both ran: one had ended when the other began. *)
Apart(p, q) == Begun(p) /\ Begun(q) => p \in before[q] \/ q \in before[p]

(* The runs of package in D took turns. *)
TookTurns(D) ==
  \A p, q \in Packagers : p # q /\ cwd[p] \in D /\ cwd[q] \in D => Apart(p, q)

(* Where the runs of a directory took turns, a crash at any point leaves an   *)
(* index.json that cannot be read, or one that leads to a manifest and a layer *)
(* that are complete and what their names say (create.rs writes bottom up, and *)
(* never removes a blob).  The config they refer to is complete as well, but   *)
(* for one case: the last run that rewrote it in place, later than the index,  *)
(* is just doing so, or failed; it is that run alone that spoils an image made *)
(* before it, and the next one repairs it.                                     *)
IndexIsWhole ==
  \A d \in Dirs :
    index[d] # Missing /\ TookTurns({d}) =>
      /\ index[d] \in manifests[d]
      /\ layers[d][index[d]] # Missing
      /\ data[layers[d][index[d]]] = index[d]
      /\ LET p == config[d].by IN
         /\ p \in Packagers
         /\ ~config[d].whole =>
              index[d] \in before[p] /\ pc[p] \in {"fill config", "failed"}

(* What the tag leads to, now or earlier, can be pulled, unless an upload of  *)
(* that very layer failed and was passed over, or runs of package overlapped: *)
(* they list the blobs before they read the index.                            *)
TagsHaveLayers ==
  \A b \in released \ stored :
    (\E p \in Packagers : b \in lost[p]) \/ ~TookTurns(Dirs)

(* From build to binary: if a run of package in its working directory ended   *)
(* well, with no upload passed over, and then a run of stage did, and no other *)
(* package ran in between or overlapped them, nor another stage for that host *)
(* since, then that host has what that package run built - whatever came      *)
(* before, in any directory, and wherever it died.                            *)
InTurn(p, s) ==
  /\ p \in before[s]
  /\ \A q \in Packagers \ {p} : Begun(q) => q \in before[p] \/ s \in before[q]
  /\ \A t \in Stagers \ {s} : Begun(t) /\ HostOf[t] = HostOf[s] => t \in before[s]

DeliveredInTurn ==
  \A p \in Packagers, s \in Stagers :
    /\ pc[p] = "done" /\ cwd[p] = wd[p] /\ lost[p] = {}
    /\ pc[s] = "done" /\ InTurn(p, s)
    => binary[HostOf[s]] = [by |-> s, of |-> p]

(* Once a stage reported success, the binary of its host is complete, unless *)
(* another stage that had not ended before it replaced it and is at work or  *)
(* failed: what a host runs is cut short only through a run that died, or    *)
(* while one is unpacking (the old binary is replaced before the new one is  *)
(* complete).                                                                *)
StagedMeansWhole ==
  \A s \in Stagers : pc[s] = "done" =>
    LET b == binary[HostOf[s]] IN
    /\ b.by \in Stagers \ before[s]
    /\ b.of = Torn => b.by # s /\ pc[b.by] \in {"write binary", "failed"}

Abstract ==
  INSTANCE Release WITH
    Versions <- Digests, None <- Missing, Broken <- Torn,
    installed <- [h \in Hosts |-> binary[h].of]

(* A host's binary only ever becomes what the tag led to at some time, or is *)
(* cut short; nothing is installed before something was released.            *)
ImplementsRelease == Abstract!Spec

-------------------------------------------------------------------------------
(* What the documentation says (schema.rs, Commands::Package). *)

(* A run of package that ended well has stored what it generated in its      *)
(* working directory, if it overlapped no other.                             *)
GeneratedInWorkingDir ==
  \A p \in Packagers :
    pc[p] = "done" /\ TookTurns(Dirs) => layers[wd[p]][p] # Missing
===============================================================================
