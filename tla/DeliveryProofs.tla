---------------------------- MODULE DeliveryProofs -----------------------------
(***************************************************************************)
(* Proofs about Delivery, for any number of runs, directories and hosts:   *)
(* the types, what stage leaves on a host, that package and stage          *)
(* implement Release, what a crash leaves in a directory, and that a host  *)
(* has what was built for it.                                              *)
(***************************************************************************)
EXTENDS Delivery, TLAPS

LEMMA AddLost ==
  ASSUME NEW P, NEW D, NEW f \in [P -> SUBSET D], NEW p \in P, NEW b \in D
  PROVE  [f EXCEPT ![p] = @ \union {b}] \in [P -> SUBSET D]
BY f[p] \union {b} \in SUBSET D

(* The steps of a run that knows the name of the blob it builds. *)
Builders == {"rename", "empty config", "fill config", "write manifest", "write index"}

(* Which run does which steps, and what the pushing and staging ones know. *)
Doing ==
  /\ \A p \in Packagers : pc[p] \in {"new"} \union PackSteps \union Ended
  /\ \A s \in Stagers : pc[s] \in {"new"} \union StageSteps \union Ended
  /\ \A p \in Packagers : pc[p] \in Builders \union {"push"} => dig[p] \in Digests
  /\ \A p \in Packagers : pc[p] = "tar" => fd[p] \in Packagers
  /\ \A s \in Stagers : pc[s] \in StageSteps => dig[s] \in released

IInv == TypeOK /\ Doing

LEMMA InitIInv == Init => IInv
  BY DeliveryAssumption
     DEF Init, IInv, TypeOK, FileTypes, RemoteTypes, RunTypes, Doing, Digests, Procs,
         NoBlob, Builders, PackSteps, StageSteps, Ended, NoFile

LEMMA NextIInv == IInv /\ [Next]_vars => IInv'
<1> SUFFICES ASSUME IInv, [Next]_vars PROVE IInv'
  OBVIOUS
<1> USE DeliveryAssumption
    DEF IInv, TypeOK, Digests, Procs, PackSteps, StageSteps, Ended, Builders,
        files, registry, dirs
<1>1. ASSUME NEW p \in Packagers, PackageBegins(p) PROVE IInv'
  <2>1. FileTypes'
    <3>1. wd[p] \in Dirs
      BY DEF RunTypes
    <3> QED BY <1>1, <3>1 DEF PackageBegins, FileTypes
  <2>2. RemoteTypes'
    BY <1>1 DEF PackageBegins, Begins, RemoteTypes, Doing
  <2>3. RunTypes'
    BY <1>1 DEF PackageBegins, Begins, RunTypes, Doing
  <2>4. Doing'
    BY <1>1, ZenonT(60) DEF PackageBegins, Begins, RunTypes, Doing
  <2> QED BY <2>1, <2>2, <2>3, <2>4 DEF Doing
<1>2. ASSUME NEW p \in Packagers, CreateArchive(p) PROVE IInv'
  <2>1. FileTypes'
    BY <1>2 DEF CreateArchive, Step, FileTypes, Doing
  <2>2. RemoteTypes'
    BY <1>2 DEF CreateArchive, Step, RemoteTypes, Doing
  <2>3. RunTypes'
    BY <1>2 DEF CreateArchive, Step, RunTypes, FileTypes, Doing
  <2>4. Doing'
    BY <1>2, ZenonT(60) DEF CreateArchive, Step, RunTypes, FileTypes, Doing
  <2> QED BY <2>1, <2>2, <2>3, <2>4 DEF Doing
<1>3. ASSUME NEW p \in Packagers, WriteArchive(p) PROVE IInv'
  <2>1. FileTypes'
    <3>1. PICK c \in {p, Torn} : data' = [data EXCEPT ![fd[p]] = c]
      BY <1>3 DEF WriteArchive
    <3>2. fd[p] \in Packagers
      BY <1>3 DEF WriteArchive, Step
    <3> QED BY <1>3, <3>1, <3>2 DEF WriteArchive, FileTypes
  <2>2. RemoteTypes'
    BY <1>3 DEF WriteArchive, Step, RemoteTypes, Doing
  <2>3. RunTypes'
    BY <1>3 DEF WriteArchive, Step, RunTypes, Doing
  <2>4. Doing'
    BY <1>3 DEF WriteArchive, Step, RunTypes, Doing
  <2> QED BY <2>1, <2>2, <2>3, <2>4 DEF Doing
<1>4. ASSUME NEW p \in Packagers, HashArchive(p) PROVE IInv'
  <2>1. FileTypes'
    BY <1>4 DEF HashArchive, Step, FileTypes, Doing
  <2>2. RemoteTypes'
    BY <1>4 DEF HashArchive, Step, RemoteTypes, Doing
  <2>3. RunTypes'
    <3>1. cwd[p] \in Dirs /\ tmp[cwd[p]] \in Packagers
      BY <1>4 DEF HashArchive, FileTypes, RunTypes
    <3>2. data[tmp[cwd[p]]] \in Digests
      BY <3>1 DEF FileTypes
    <3> HIDE DEF Digests
    <3> QED BY <1>4, <3>2 DEF HashArchive, Step, RunTypes
  <2>4. Doing'
    BY <1>4, ZenonT(60) DEF HashArchive, Step, RunTypes, FileTypes, Doing
  <2> QED BY <2>1, <2>2, <2>3, <2>4 DEF Doing
<1>5. ASSUME NEW p \in Packagers, RenameArchive(p) PROVE IInv'
  <2>1. FileTypes'
    BY <1>5, ZenonT(60) DEF RenameArchive, Step, FileTypes, Doing
  <2>2. RemoteTypes'
    BY <1>5 DEF RenameArchive, Step, RemoteTypes, Doing
  <2>3. RunTypes'
    BY <1>5 DEF RenameArchive, Step, RunTypes, Doing
  <2>4. Doing'
    BY <1>5 DEF RenameArchive, Step, RunTypes, Doing
  <2> QED BY <2>1, <2>2, <2>3, <2>4 DEF Doing
<1>6. ASSUME NEW p \in Packagers, WriteManifest(p) PROVE IInv'
  <2>1. FileTypes'
    BY <1>6, ZenonT(60) DEF WriteManifest, Step, FileTypes, Doing
  <2>2. RemoteTypes'
    BY <1>6 DEF WriteManifest, Step, RemoteTypes, Doing
  <2>3. RunTypes'
    BY <1>6 DEF WriteManifest, Step, RunTypes, Doing
  <2>4. Doing'
    BY <1>6 DEF WriteManifest, Step, RunTypes, Doing
  <2> QED BY <2>1, <2>2, <2>3, <2>4 DEF Doing
<1>7. ASSUME NEW p \in Packagers, WriteIndex(p) PROVE IInv'
  <2>1. FileTypes'
    BY <1>7 DEF WriteIndex, Step, FileTypes, Doing
  <2>2. RemoteTypes'
    BY <1>7 DEF WriteIndex, Step, RemoteTypes, Doing
  <2>3. RunTypes'
    BY <1>7 DEF WriteIndex, Step, RunTypes, Doing
  <2>4. Doing'
    BY <1>7 DEF WriteIndex, Step, RunTypes, Doing
  <2> QED BY <2>1, <2>2, <2>3, <2>4 DEF Doing
<1>8. ASSUME NEW p \in Packagers, WritePkg(p) PROVE IInv'
  <2>1. FileTypes'
    BY <1>8 DEF WritePkg, Step, FileTypes, RunTypes, Doing
  <2>2. RemoteTypes'
    BY <1>8 DEF WritePkg, Step, RemoteTypes, Doing
  <2>3. RunTypes'
    BY <1>8 DEF WritePkg, Step, RunTypes, Doing
  <2>4. Doing'
    BY <1>8 DEF WritePkg, Step, RunTypes, Doing
  <2> QED BY <2>1, <2>2, <2>3, <2>4 DEF Doing
<1>9. ASSUME NEW p \in Packagers, ListBlobs(p) PROVE IInv'
  <2>1. FileTypes'
    BY <1>9 DEF ListBlobs, Step, BlobsIn, FileTypes, Doing
  <2>2. RemoteTypes'
    BY <1>9 DEF ListBlobs, Step, BlobsIn, RemoteTypes, Doing
  <2>3. RunTypes'
    BY <1>9 DEF ListBlobs, Step, BlobsIn, RunTypes, Doing
  <2>4. Doing'
    BY <1>9 DEF ListBlobs, Step, BlobsIn, RunTypes, Doing
  <2> QED BY <2>1, <2>2, <2>3, <2>4 DEF Doing
<1>10. ASSUME NEW p \in Packagers, UploadBlob(p) PROVE IInv'
  <2> PICK b \in todo[p] :
        /\ Step(p, "upload", "upload")
        /\ todo' = [todo EXCEPT ![p] = @ \ {b}]
        /\ stored' = stored \union {b}
        /\ UNCHANGED <<files, tag, released, binary, fd, dig, lost>>
    BY <1>10 DEF UploadBlob
  <2>0. b \in Digests /\ todo[p] \subseteq Digests /\ lost[p] \subseteq Digests
    BY DEF RunTypes
  <2>1. FileTypes'
    BY DEF FileTypes
  <2>2. RemoteTypes'
    BY <2>0 DEF RemoteTypes
  <2>3. RunTypes'
    <3>1. todo' \in [Packagers -> SUBSET Digests]
      BY <2>0 DEF RunTypes
    <3> HIDE DEF Digests
    <3>2. lost' \in [Packagers -> SUBSET Digests]
      BY <2>0, AddLost DEF RunTypes
    <3> QED BY <3>1, <3>2 DEF Step, RunTypes
  <2>4. Doing'
    BY DEF Step, RunTypes, Doing
  <2> QED BY <2>1, <2>2, <2>3, <2>4 DEF Doing
<1>11. ASSUME NEW p \in Packagers, UploadFails(p) PROVE IInv'
  <2> PICK b \in todo[p] :
        /\ Step(p, "upload", "upload")
        /\ todo' = [todo EXCEPT ![p] = @ \ {b}]
        /\ lost' = [lost EXCEPT ![p] = @ \union {b}]
        /\ UNCHANGED <<files, registry, binary, fd, dig>>
    BY <1>11 DEF UploadFails
  <2>0. b \in Digests /\ todo[p] \subseteq Digests /\ lost[p] \subseteq Digests
    BY DEF RunTypes
  <2>1. FileTypes'
    BY DEF FileTypes
  <2>2. RemoteTypes'
    BY <2>0 DEF RemoteTypes
  <2>3. RunTypes'
    <3>1. todo' \in [Packagers -> SUBSET Digests]
      BY <2>0 DEF RunTypes
    <3> HIDE DEF Digests
    <3>2. lost' \in [Packagers -> SUBSET Digests]
      BY <2>0, AddLost DEF RunTypes
    <3> QED BY <3>1, <3>2 DEF Step, RunTypes
  <2>4. Doing'
    BY DEF Step, RunTypes, Doing
  <2> QED BY <2>1, <2>2, <2>3, <2>4 DEF Doing
<1>12. ASSUME NEW p \in Packagers, ReadIndex(p) PROVE IInv'
  <2>1. FileTypes'
    BY <1>12 DEF ReadIndex, Step, FileTypes, Doing
  <2>2. RemoteTypes'
    BY <1>12 DEF ReadIndex, Step, RemoteTypes, Doing
  <2>3. RunTypes'
    BY <1>12 DEF ReadIndex, Step, RunTypes, FileTypes, Doing
  <2>4. Doing'
    BY <1>12 DEF ReadIndex, Step, RunTypes, FileTypes, Doing
  <2> QED BY <2>1, <2>2, <2>3, <2>4 DEF Doing
<1>13. ASSUME NEW p \in Packagers, PushManifest(p) PROVE IInv'
  <2>1. FileTypes'
    BY <1>13 DEF PushManifest, Step, FileTypes, Doing
  <2>2. RemoteTypes'
    BY <1>13 DEF PushManifest, Step, RemoteTypes, Doing
  <2>3. RunTypes'
    BY <1>13 DEF PushManifest, Step, RunTypes, Doing
  <2>4. Doing'
    BY <1>13 DEF PushManifest, Step, RunTypes, Doing
  <2> QED BY <2>1, <2>2, <2>3, <2>4 DEF Doing
<1>14. ASSUME NEW p \in Packagers, PushFails(p) PROVE IInv'
  <2>1. FileTypes'
    BY <1>14 DEF PushFails, Step, FileTypes, Doing
  <2>2. RemoteTypes'
    BY <1>14 DEF PushFails, Step, RemoteTypes, Doing
  <2>3. RunTypes'
    <3>1. dig[p] \in Digests
      BY <1>14 DEF PushFails, Step, Doing
    <3>2. lost' = [lost EXCEPT ![p] = @ \union {dig[p]}]
      BY <1>14 DEF PushFails
    <3> HIDE DEF Digests
    <3>3. lost' \in [Packagers -> SUBSET Digests]
      <4>1. lost \in [Packagers -> SUBSET Digests]
        BY DEF RunTypes
      <4> QED BY <3>1, <3>2, <4>1, AddLost
    <3> QED BY <1>14, <3>3 DEF PushFails, Step, RunTypes
  <2>4. Doing'
    BY <1>14 DEF PushFails, Step, RunTypes, Doing
  <2> QED BY <2>1, <2>2, <2>3, <2>4 DEF Doing
<1>15. ASSUME NEW p \in Packagers, FailsWriting(p) PROVE IInv'
  <2>1. /\ pc[p] \in {"write manifest", "write index", "write pkg"}
        /\ Step(p, pc[p], "failed")
        /\ UNCHANGED <<generated, tmp, data, layers, config, registry, binary, fd, dig, todo,
                      lost>>
    BY <1>15 DEF FailsWriting, Step
  <2>2. FileTypes'
    <3>1. manifests' \in [Dirs -> SUBSET Digests]
      <4>1. manifests' = manifests
             \/ manifests' = [manifests EXCEPT ![cwd[p]] = @ \ {dig[p]}]
        BY <1>15 DEF FailsWriting
      <4> QED BY <4>1 DEF FileTypes
    <3>2. index' \in [Dirs -> Digests \union {Missing}]
      BY <1>15 DEF FailsWriting, FileTypes
    <3>3. pkg' \in [Dirs -> Digests \union {Missing}]
      BY <1>15 DEF FailsWriting, FileTypes
    <3> QED BY <2>1, <3>1, <3>2, <3>3 DEF FileTypes
  <2>3. RemoteTypes'
    BY <2>1 DEF RemoteTypes
  <2>4. RunTypes'
    BY <2>1 DEF Step, RunTypes
  <2>5. Doing'
    BY <2>1 DEF Step, RunTypes, Doing
  <2> QED BY <2>2, <2>3, <2>4, <2>5 DEF Doing
<1>16. ASSUME NEW s \in Stagers, StageBegins(s) PROVE IInv'
  <2>1. FileTypes'
    BY <1>16 DEF StageBegins, Begins, FileTypes, Doing
  <2>2. RemoteTypes'
    BY <1>16 DEF StageBegins, Begins, RemoteTypes, Doing
  <2>3. RunTypes'
    BY <1>16 DEF StageBegins, Begins, RunTypes, RemoteTypes, Doing
  <2>4. Doing'
    <3>1. tag \in released
      BY <1>16 DEF StageBegins, RemoteTypes
    <3>2. /\ pc' = [pc EXCEPT ![s] = "get blob"] /\ dig' = [dig EXCEPT ![s] = tag]
          /\ fd' = fd /\ released' = released
      BY <1>16 DEF StageBegins, Begins
    <3>3. \A t \in Stagers : pc'[t] \in StageSteps => dig'[t] \in released'
      BY <3>1, <3>2 DEF RunTypes, Doing
    <3>4. \A q \in Packagers : pc'[q] = pc[q] /\ dig'[q] = dig[q] /\ fd'[q] = fd[q]
      BY <3>2, ZenonT(60) DEF RunTypes
    <3>5. \A t \in Stagers : pc'[t] \in {"new"} \union StageSteps \union Ended
      BY <3>2 DEF RunTypes, Doing
    <3> QED BY <3>3, <3>4, <3>5 DEF Doing
  <2> QED BY <2>1, <2>2, <2>3, <2>4 DEF Doing
<1>17. ASSUME NEW s \in Stagers, GetBlob(s) PROVE IInv'
  <2>1. FileTypes'
    BY <1>17 DEF GetBlob, Step, FileTypes, Doing
  <2>2. RemoteTypes'
    BY <1>17 DEF GetBlob, Step, RemoteTypes, Doing
  <2>3. RunTypes'
    BY <1>17 DEF GetBlob, Step, RunTypes, Doing
  <2>4. Doing'
    BY <1>17 DEF GetBlob, Step, RunTypes, Doing
  <2> QED BY <2>1, <2>2, <2>3, <2>4 DEF Doing
<1>18. ASSUME NEW s \in Stagers, CreateBinary(s) PROVE IInv'
  <2>1. FileTypes'
    BY <1>18 DEF CreateBinary, Step, FileTypes, Doing
  <2>2. RemoteTypes'
    BY <1>18 DEF CreateBinary, Step, RemoteTypes, Doing
  <2>3. RunTypes'
    BY <1>18 DEF CreateBinary, Step, RunTypes, Doing
  <2>4. Doing'
    BY <1>18 DEF CreateBinary, Step, RunTypes, Doing
  <2> QED BY <2>1, <2>2, <2>3, <2>4 DEF Doing
<1>19. ASSUME NEW s \in Stagers, WriteBinary(s) PROVE IInv'
  <2>1. FileTypes'
    BY <1>19 DEF WriteBinary, Step, FileTypes, Doing
  <2>2. RemoteTypes'
    BY <1>19 DEF WriteBinary, Step, RemoteTypes, Doing
  <2>3. RunTypes'
    BY <1>19 DEF WriteBinary, Step, RunTypes, Doing
  <2>4. Doing'
    BY <1>19 DEF WriteBinary, Step, RunTypes, Doing
  <2> QED BY <2>1, <2>2, <2>3, <2>4 DEF Doing
<1>20. ASSUME NEW r \in Procs, Fails(r) PROVE IInv'
  <2>1. FileTypes'
    BY <1>20 DEF Fails, Step, FileTypes, Doing
  <2>2. RemoteTypes'
    BY <1>20 DEF Fails, Step, RemoteTypes, Doing
  <2>3. RunTypes'
    BY <1>20 DEF Fails, Step, RunTypes, Doing
  <2>4. Doing'
    BY <1>20 DEF Fails, Step, RunTypes, Doing
  <2> QED BY <2>1, <2>2, <2>3, <2>4 DEF Doing
<1>22. ASSUME NEW p \in Packagers, EmptyConfig(p) PROVE IInv'
  <2>1. FileTypes'
    <3>1. config' \in [Dirs -> [by : Packagers, whole : BOOLEAN] \union {NoBlob}]
      BY <1>22 DEF EmptyConfig, FileTypes
    <3> QED BY <1>22, <3>1 DEF EmptyConfig, FileTypes
  <2>2. RemoteTypes'
    BY <1>22 DEF EmptyConfig, Step, RemoteTypes, Doing
  <2>3. RunTypes'
    BY <1>22 DEF EmptyConfig, Step, RunTypes, Doing
  <2>4. Doing'
    BY <1>22 DEF EmptyConfig, Step, RunTypes, Doing
  <2> QED BY <2>1, <2>2, <2>3, <2>4 DEF Doing
<1>23. ASSUME NEW p \in Packagers, FillConfig(p) PROVE IInv'
  <2>1. FileTypes'
    <3>1. config' \in [Dirs -> [by : Packagers, whole : BOOLEAN] \union {NoBlob}]
      BY <1>23 DEF FillConfig, FileTypes
    <3> QED BY <1>23, <3>1 DEF FillConfig, FileTypes
  <2>2. RemoteTypes'
    BY <1>23 DEF FillConfig, Step, RemoteTypes, Doing
  <2>3. RunTypes'
    BY <1>23 DEF FillConfig, Step, RunTypes, Doing
  <2>4. Doing'
    BY <1>23 DEF FillConfig, Step, RunTypes, Doing
  <2> QED BY <2>1, <2>2, <2>3, <2>4 DEF Doing
<1>21. CASE UNCHANGED vars
  BY <1>21 DEF vars, FileTypes, RemoteTypes, RunTypes, Doing
<1> QED
  BY <1>1, <1>2, <1>3, <1>4, <1>5, <1>6, <1>7, <1>8, <1>9, <1>10, <1>11, <1>12,
     <1>13, <1>14, <1>15, <1>16, <1>17, <1>18, <1>19, <1>20, <1>21, <1>22, <1>23
     DEF Next, Package, Stage

LEMMA IInvAlways == Spec => []IInv
  BY InitIInv, NextIInv, PTL DEF Spec

(* Every variable has its type, for any number of runs of package and stage. *)
THEOREM TypeCorrect == Spec => []TypeOK
  BY IInvAlways, PTL DEF IInv

-------------------------------------------------------------------------------
(* The steps of a run of package leave the hosts and the stagers alone, and *)
(* take nothing back that was released.                                     *)
LEMMA PackagerFrame ==
  ASSUME IInv, NEW p \in Packagers, Package(p) \/ Fails(p)
  PROVE  /\ binary' = binary /\ released \subseteq released'
         /\ \A s \in Stagers : pc'[s] = pc[s] /\ before'[s] = before[s] /\ dig'[s] = dig[s]
<1> USE DeliveryAssumption DEF IInv, TypeOK, RunTypes, Procs, registry, Step, Begins
<1>1. CASE PackageBegins(p)
  <2>1. \E B : before' = [before EXCEPT ![p] = B]
    BY <1>1 DEF PackageBegins
  <2>2. \A s \in Stagers : s # p /\ s \in Procs
    OBVIOUS
  <2>3. \A s \in Stagers : before'[s] = before[s]
    BY <2>1, <2>2
  <2> QED BY <1>1, <2>2, <2>3 DEF PackageBegins
<1>2. CASE CreateArchive(p)  BY <1>2 DEF CreateArchive
<1>3. CASE WriteArchive(p)   BY <1>3 DEF WriteArchive
<1>4. CASE HashArchive(p)    BY <1>4 DEF HashArchive
<1>5. CASE RenameArchive(p)  BY <1>5 DEF RenameArchive
<1>6. CASE WriteManifest(p)  BY <1>6 DEF WriteManifest
<1>7. CASE WriteIndex(p)     BY <1>7 DEF WriteIndex
<1>8. CASE WritePkg(p)       BY <1>8 DEF WritePkg
<1>9. CASE ListBlobs(p)      BY <1>9 DEF ListBlobs
<1>10. CASE UploadBlob(p)    BY <1>10 DEF UploadBlob
<1>11. CASE UploadFails(p)   BY <1>11 DEF UploadFails
<1>12. CASE ReadIndex(p)     BY <1>12 DEF ReadIndex
<1>13. CASE PushManifest(p)  BY <1>13 DEF PushManifest
<1>14. CASE PushFails(p)     BY <1>14 DEF PushFails
<1>15. CASE FailsWriting(p)
  <2>1. pc' = [pc EXCEPT ![p] = "failed"] /\ UNCHANGED <<registry, binary, dig, before>>
    BY <1>15 DEF FailsWriting
  <2> QED BY <2>1
<1>16. CASE Fails(p)         BY <1>16 DEF Fails
<1>17. CASE EmptyConfig(p)   BY <1>17 DEF EmptyConfig
<1>18. CASE FillConfig(p)    BY <1>18 DEF FillConfig
<1> QED
  BY <1>1, <1>2, <1>3, <1>4, <1>5, <1>6, <1>7, <1>8, <1>9, <1>10, <1>11, <1>12,
     <1>13, <1>14, <1>15, <1>16, <1>17, <1>18 DEF Package

(* The only step that releases anything releases one version. *)
LEMMA Releases ==
  ASSUME IInv, NEW p \in Packagers, Package(p) \/ Fails(p)
  PROVE  released' = released \/ \E v \in Digests : released' = released \union {v}
<1> USE DEF registry
<1>1. CASE PushManifest(p)
  BY <1>1 DEF PushManifest, Step, IInv, Doing
<1>2. CASE ~PushManifest(p)
  BY <1>2 DEF Package, PackageBegins, CreateArchive, WriteArchive, HashArchive,
     RenameArchive, EmptyConfig, FillConfig, WriteManifest, WriteIndex, WritePkg,
     ListBlobs, UploadBlob, UploadFails, ReadIndex, PushFails, FailsWriting, Fails
<1> QED BY <1>1, <1>2

(* package and stage implement Release: whatever dies or overlaps, a host    *)
(* only ever holds what the tag led to at some time, or a torn binary.       *)
THEOREM ReleaseCorrect == Spec => ImplementsRelease
<1> USE DeliveryAssumption
<1>1. Init => Abstract!Init
  BY DEF Init, Abstract!Init, NoFile
<1>2. ASSUME IInv, [Next]_vars
      PROVE  [Abstract!Next]_<<released, [h \in Hosts |-> binary[h].of]>>
  <2> USE <1>2 DEF IInv, TypeOK, Procs
  <2> DEFINE inst == [h \in Hosts |-> binary[h].of]
  <2>1. ASSUME NEW p \in Packagers, Package(p) \/ Fails(p)
        PROVE  Abstract!Next \/ UNCHANGED <<released, inst>>
    <3>1. inst' = inst
      BY <2>1, PackagerFrame
    <3> QED BY <2>1, <3>1, Releases DEF Abstract!Next, Abstract!Publish
  <2>2. ASSUME NEW s \in Stagers, CreateBinary(s)
        PROVE  Abstract!Next
    <3>1. dig[s] \in released /\ released' = released
      BY <2>2 DEF CreateBinary, Step, Doing, StageSteps, registry
    <3>2. inst' = [inst EXCEPT ![HostOf[s]] = Torn]
      BY <2>2 DEF CreateBinary, RemoteTypes
    <3> QED BY <3>1, <3>2 DEF Abstract!Next, Abstract!Break
  <2>3. ASSUME NEW s \in Stagers, WriteBinary(s)
        PROVE  Abstract!Next \/ UNCHANGED <<released, inst>>
    <3>1. dig[s] \in released \ {Torn} /\ released' = released
      BY <2>3 DEF WriteBinary, Step, Doing, StageSteps, registry
    <3>2. inst' = inst \/ inst' = [inst EXCEPT ![HostOf[s]] = dig[s]]
      BY <2>3 DEF WriteBinary, RemoteTypes
    <3> QED BY <3>1, <3>2 DEF Abstract!Next, Abstract!Install
  <2>4. ASSUME NEW s \in Stagers, StageBegins(s) \/ GetBlob(s) \/ Fails(s)
        PROVE  UNCHANGED <<released, inst>>
    BY <2>4 DEF StageBegins, GetBlob, Fails, registry
  <2>5. CASE UNCHANGED vars
    BY <2>5 DEF vars, registry
  <2> QED BY <2>1, <2>2, <2>3, <2>4, <2>5 DEF Next, Stage
<1> QED BY <1>1, <1>2, IInvAlways, PTL DEF Spec, ImplementsRelease, Abstract!Spec

-------------------------------------------------------------------------------
(* Runs that ended stay as they are, and before[p] holds only such runs. *)
History ==
  \A p \in Procs : p \notin before[p] /\ \A q \in before[p] : pc[q] \in Ended

(* How a step moves the run that takes it. *)
Starts(p) ==
  /\ pc[p] = "new" /\ pc'[p] \in {"create", "get blob"}
  /\ \A q \in Procs \ {p} : pc'[q] = pc[q] /\ before'[q] = before[q]
  /\ before'[p] = {q \in Procs : pc[q] \in Ended}

GoesOn(p) ==
  /\ pc[p] \in PackSteps \union StageSteps
  /\ \A q \in Procs \ {p} : pc'[q] = pc[q]
  /\ before' = before /\ pc'[p] \notin {"new", "create"}

Rests == pc' = pc /\ before' = before

LEMMA Moves ==
  ASSUME IInv, [Next]_vars
  PROVE  Rests \/ \E p \in Procs : Starts(p) \/ GoesOn(p)
<1> USE DEF IInv, TypeOK, RunTypes, Procs
<1>1. ASSUME NEW p \in Procs, PackageBegins(p) \/ StageBegins(p)
      PROVE  Starts(p)
  <2>1. PICK to \in {"create", "get blob"} : Begins(p, to)
    BY <1>1 DEF PackageBegins, StageBegins
  <2>2. /\ pc[p] = "new" /\ pc' = [pc EXCEPT ![p] = to]
        /\ before' = [before EXCEPT ![p] = {q \in Procs : pc[q] \in Ended}]
    BY <2>1 DEF Begins
  <2>3. before'[p] = {q \in Procs : pc[q] \in Ended}
    BY <2>2
  <2>4. pc'[p] = to /\ \A q \in Procs \ {p} : pc'[q] = pc[q] /\ before'[q] = before[q]
    BY <2>2
  <2> QED BY <2>2, <2>3, <2>4 DEF Starts
<1>2. ASSUME NEW p \in Procs, NEW from \in PackSteps \union StageSteps,
             NEW to \in (PackSteps \union StageSteps \union Ended) \ {"create"}, Step(p, from, to)
      PROVE  GoesOn(p)
  BY <1>2 DEF Step, GoesOn, PackSteps, StageSteps, Ended
<1>3. ASSUME NEW p \in Packagers, Package(p), ~PackageBegins(p) PROVE GoesOn(p)
  <2>1. \E from \in PackSteps \union StageSteps :
        \E to \in (PackSteps \union StageSteps \union Ended) \ {"create"} : Step(p, from, to)
    BY <1>3 DEF Package, CreateArchive, WriteArchive, HashArchive, RenameArchive, EmptyConfig, FillConfig,
       EmptyConfig, FillConfig, WriteManifest, WriteIndex, WritePkg, ListBlobs, UploadBlob,
       UploadFails, ReadIndex, PushManifest, PushFails, FailsWriting, PackSteps, StageSteps,
       Ended
  <2> QED BY <1>2, <2>1
<1>4. ASSUME NEW s \in Stagers, Stage(s), ~StageBegins(s) PROVE GoesOn(s)
  <2>1. \E from \in PackSteps \union StageSteps :
        \E to \in (PackSteps \union StageSteps \union Ended) \ {"create"} : Step(s, from, to)
    BY <1>4 DEF Stage, GetBlob, CreateBinary, WriteBinary, PackSteps, StageSteps, Ended
  <2> QED BY <1>2, <2>1
<1>5. ASSUME NEW p \in Procs, Fails(p) PROVE GoesOn(p)
  BY <1>5, <1>2 DEF Fails, Ended
<1>6. CASE UNCHANGED vars
  BY <1>6 DEF vars, Rests
<1> QED BY <1>1, <1>3, <1>4, <1>5, <1>6 DEF Next

LEMMA HistoryAlways == Spec => []History
<1>1. Init => History
  BY DEF Init, History
<1>2. IInv /\ History /\ [Next]_vars => History'
  <2> SUFFICES ASSUME IInv, History, [Next]_vars PROVE History'
    OBVIOUS
  <2> USE DEF History, IInv, TypeOK, RunTypes
  <2>1. CASE Rests
    BY <2>1 DEF Rests
  <2>2. ASSUME NEW p \in Procs, Starts(p) PROVE History'
    BY <2>2 DEF Starts, Ended
  <2>3. ASSUME NEW p \in Procs, GoesOn(p) PROVE History'
    BY <2>3 DEF GoesOn, PackSteps, StageSteps, Ended
  <2> QED BY <2>1, <2>2, <2>3, Moves
<1> QED BY <1>1, <1>2, IInvAlways, PTL DEF Spec

-------------------------------------------------------------------------------
(* Whose binary a host has, and that only a run at work, or one that failed, *)
(* leaves it torn.                                                           *)
By == [h \in Hosts |-> binary[h].by]
Of == [h \in Hosts |-> binary[h].of]

Replaced ==
  \A s \in Stagers : pc[s] \in {"write binary", "done"} =>
    By[HostOf[s]] \in Stagers \ before[s]

TornBy ==
  \A h \in Hosts : By[h] # Missing =>
    /\ By[h] \in Stagers /\ HostOf[By[h]] = h
    /\ Of[h] = Torn => pc[By[h]] \in {"write binary", "failed"}

Installing == Replaced /\ TornBy

LEMMA InstallingAlways == Spec => []Installing
<1> USE DeliveryAssumption DEF Procs
<1>1. Init => Installing
  <2> SUFFICES ASSUME Init PROVE Installing
    OBVIOUS
  <2>1. \A h \in Hosts : By[h] = Missing
    BY DEF Init, NoFile, By
  <2> QED BY <2>1 DEF Init, Installing, Replaced, TornBy
<1>2. IInv /\ History /\ Installing /\ [Next]_vars => Installing'
  <2> SUFFICES ASSUME IInv, History, Installing, [Next]_vars PROVE Installing'
    OBVIOUS
  <2> USE DEF IInv, TypeOK, RunTypes, Installing
  <2>0. \A s \in Stagers : HostOf[s] \in Hosts /\ s # Missing
    OBVIOUS
  <2>1. ASSUME NEW p \in Packagers, Package(p) \/ Fails(p) PROVE Installing'
    <3>1. binary' = binary /\ \A s \in Stagers : pc'[s] = pc[s] /\ before'[s] = before[s]
      BY <2>1, PackagerFrame
    <3>2. By' = By /\ Of' = Of
      BY <3>1 DEF By, Of
    <3> QED BY <3>1, <3>2 DEF Replaced, TornBy
  <2>2. ASSUME NEW s \in Stagers, StageBegins(s) \/ GetBlob(s) \/ Fails(s)
        PROVE  Installing'
    <3>1. By' = By /\ Of' = Of
      BY <2>2 DEF StageBegins, GetBlob, Fails, By, Of
    <3>2. Starts(s) \/ GoesOn(s)
      <4>1. \A t \in Stagers : pc'[s] # pc[s] /\ pc'[t] # pc[t] => t = s
        BY <2>2 DEF StageBegins, GetBlob, Fails, Begins, Step
      <4>2. pc'[s] # pc[s]
        BY <2>2 DEF StageBegins, GetBlob, Fails, Begins, Step, StageSteps, PackSteps
      <4> QED BY <4>1, <4>2, Moves DEF Rests, Starts, GoesOn
    <3>3. /\ pc'[s] \notin {"write binary", "done"}
          /\ pc[s] = "write binary" => pc'[s] = "failed"
      BY <2>2 DEF StageBegins, GetBlob, Fails, Begins, Step
    <3>4. \A t \in Stagers \ {s} : pc'[t] = pc[t] /\ before'[t] = before[t]
      BY <3>2 DEF Starts, GoesOn
    <3>5. pc[s] \notin {"done", "failed"}
      BY <3>2 DEF Starts, GoesOn, PackSteps, StageSteps
    <3>6. Replaced'
      BY <3>1, <3>3, <3>4 DEF Replaced
    <3>7. TornBy'
      BY <3>1, <3>3, <3>4, <3>5 DEF TornBy
    <3> QED BY <3>6, <3>7
  <2>3. ASSUME NEW s \in Stagers, CreateBinary(s) PROVE Installing'
    <3>1. /\ binary' = [binary EXCEPT ![HostOf[s]] = [by |-> s, of |-> Torn]]
          /\ pc[s] = "create binary" /\ pc' = [pc EXCEPT ![s] = "write binary"]
          /\ before' = before
      BY <2>3 DEF CreateBinary, Step
    <3>2. before' = before /\ \A t \in Stagers : s \notin before[t]
      BY <3>1 DEF History, Ended
    <3>3. /\ By'[HostOf[s]] = s /\ Of'[HostOf[s]] = Torn
          /\ \A h \in Hosts : h # HostOf[s] => By'[h] = By[h] /\ Of'[h] = Of[h]
      BY <3>1, <2>0 DEF RemoteTypes, By, Of
    <3>4. pc'[s] = "write binary" /\ \A t \in Stagers \ {s} : pc'[t] = pc[t]
      BY <3>1
    <3>5. \A h \in Hosts : HostOf[s] # h => By[h] # s
      BY <2>0 DEF TornBy
    <3>6. Replaced'
      <4> SUFFICES ASSUME NEW t \in Stagers, pc'[t] \in {"write binary", "done"}
                   PROVE  By'[HostOf[t]] \in Stagers \ before'[t]
        BY DEF Replaced
      <4>1. CASE HostOf[t] = HostOf[s]
        <5>1. By'[HostOf[t]] = s
          BY <4>1, <3>3
        <5> QED BY <5>1, <3>2
      <4>2. CASE HostOf[t] # HostOf[s]
        BY <4>2, <2>0, <3>2, <3>3, <3>4 DEF Replaced
      <4> QED BY <4>1, <4>2
    <3>7. TornBy'
      <4> SUFFICES ASSUME NEW h \in Hosts, By'[h] # Missing
                   PROVE  /\ By'[h] \in Stagers /\ HostOf[By'[h]] = h
                          /\ Of'[h] = Torn => pc'[By'[h]] \in {"write binary", "failed"}
        BY DEF TornBy
      <4>1. CASE h = HostOf[s]
        BY <4>1, <3>3, <3>4
      <4>2. CASE h # HostOf[s]
        <5>1. By[h] \in Stagers /\ By[h] # s
          BY <4>2, <3>3, <3>5 DEF TornBy
        <5>2. By'[h] = By[h] /\ Of'[h] = Of[h]
          BY <4>2, <3>3
        <5>3. /\ HostOf[By[h]] = h /\ pc'[By[h]] = pc[By[h]]
              /\ Of[h] = Torn => pc[By[h]] \in {"write binary", "failed"}
          BY <5>1, <5>2, <3>4 DEF TornBy
        <5> QED BY <5>1, <5>2, <5>3
      <4> QED BY <4>1, <4>2
    <3> QED BY <3>6, <3>7
  <2>4. ASSUME NEW s \in Stagers, WriteBinary(s) PROVE Installing'
    <3>1. /\ binary' = IF By[HostOf[s]] = s
                       THEN [binary EXCEPT ![HostOf[s]] = [by |-> s, of |-> dig[s]]]
                       ELSE binary
          /\ pc[s] = "write binary" /\ pc' = [pc EXCEPT ![s] = "done"]
          /\ before' = before /\ dig[s] # Torn
      BY <2>4 DEF WriteBinary, Step, By
    <3>2. pc'[s] = "done" /\ \A t \in Stagers \ {s} : pc'[t] = pc[t]
      BY <3>1
    <3>3. /\ \A h \in Hosts : By'[h] = By[h]
          /\ \A h \in Hosts : h # HostOf[s] \/ By[h] # s => Of'[h] = Of[h]
          /\ By[HostOf[s]] = s => Of'[HostOf[s]] = dig[s]
      BY <3>1, <2>0 DEF RemoteTypes, By, Of
    <3>4. By[HostOf[s]] \in Stagers \ before[s] /\ before' = before /\ dig[s] # Torn
      BY <3>1 DEF Replaced
    <3>5. \A h \in Hosts : HostOf[s] # h => By[h] # s
      BY <2>0 DEF TornBy
    <3>6. Replaced'
      BY <2>0, <3>2, <3>3, <3>4, ZenonT(60) DEF Replaced
    <3>7. TornBy'
      <4> SUFFICES ASSUME NEW h \in Hosts, By'[h] # Missing
                   PROVE  /\ By'[h] \in Stagers /\ HostOf[By'[h]] = h
                          /\ Of'[h] = Torn => pc'[By'[h]] \in {"write binary", "failed"}
        BY DEF TornBy
      <4>1. CASE h = HostOf[s] /\ By[h] = s
        BY <4>1, <3>2, <3>3, <3>4
      <4>2. CASE h # HostOf[s] \/ By[h] # s
        <5>1. By[h] \in Stagers /\ By[h] # s
          BY <4>2, <3>3, <3>5 DEF TornBy
        <5>2. By'[h] = By[h] /\ Of'[h] = Of[h]
          BY <4>2, <3>3
        <5>3. /\ HostOf[By[h]] = h /\ pc'[By[h]] = pc[By[h]]
              /\ Of[h] = Torn => pc[By[h]] \in {"write binary", "failed"}
          BY <5>1, <5>2, <3>2 DEF TornBy
        <5> QED BY <5>1, <5>2, <5>3
      <4> QED BY <4>1, <4>2
    <3> QED BY <3>6, <3>7
  <2>5. CASE UNCHANGED vars
    BY <2>5 DEF vars, Replaced, TornBy, By, Of
  <2> QED BY <2>1, <2>2, <2>3, <2>4, <2>5 DEF Next, Stage
<1> QED BY <1>1, <1>2, IInvAlways, HistoryAlways, PTL DEF Spec

(* After a stage that reported success, the binary of its host is whole     *)
(* unless another stage that it did not follow is at work, or failed, for   *)
(* any number of runs and hosts.                                            *)
THEOREM StagedCorrect == Spec => []StagedMeansWhole
<1>1. Installing => StagedMeansWhole
  <2> SUFFICES ASSUME Installing, NEW s \in Stagers, pc[s] = "done"
               PROVE  /\ By[HostOf[s]] \in Stagers \ before[s]
                      /\ Of[HostOf[s]] = Torn =>
                           /\ By[HostOf[s]] # s
                           /\ pc[By[HostOf[s]]] \in {"write binary", "failed"}
    BY DeliveryAssumption DEF StagedMeansWhole, By, Of
  <2>1. By[HostOf[s]] \in Stagers \ before[s] /\ HostOf[s] \in Hosts
    BY DeliveryAssumption DEF Installing, Replaced
  <2> QED BY <2>1, DeliveryAssumption DEF Installing, TornBy, Procs
<1> QED BY <1>1, InstallingAlways, PTL

-------------------------------------------------------------------------------
(* Where the archives are.  A file that was made is in the directory that    *)
(* its run works in, under one name: what is a blob there is not written.    *)
Made(f) == pc[f] \notin {"new", "create"}

Located ==
  /\ \A d \in Dirs : tmp[d] # Missing => cwd[tmp[d]] = d /\ Made(tmp[d])
  /\ \A d \in Dirs, b \in Digests : layers[d][b] # Missing =>
       cwd[layers[d][b]] = d /\ Made(layers[d][b]) /\ layers[d][b] # tmp[d]
  /\ \A p \in Packagers : fd[p] # Missing => cwd[fd[p]] = cwd[p]

LEMMA DirsStay ==
  ASSUME [Next]_vars
  PROVE  cwd' = cwd /\ wd' = wd
BY ZenonT(60)
DEF Next, vars, dirs, Package, Stage, Fails, Step, PackageBegins, CreateArchive,
   WriteArchive, HashArchive, RenameArchive, EmptyConfig, FillConfig, WriteManifest,
   WriteIndex, WritePkg,
   ListBlobs, UploadBlob, UploadFails, ReadIndex, PushManifest, PushFails,
   FailsWriting, StageBegins, GetBlob, CreateBinary, WriteBinary

(* Only two steps move an archive, and only one more writes to it. *)
LEMMA FilesStay ==
  ASSUME IInv, [Next]_vars,
         \A p \in Packagers : ~CreateArchive(p) /\ ~RenameArchive(p)
  PROVE  /\ UNCHANGED <<tmp, layers, fd>>
         /\ (\A p \in Packagers : ~WriteArchive(p)) => UNCHANGED data
<1> USE DeliveryAssumption DEF IInv, TypeOK, RunTypes, Procs, files
<1>1. ASSUME NEW p \in Packagers, WriteArchive(p)
      PROVE  UNCHANGED <<tmp, layers, fd>>
  BY <1>1 DEF WriteArchive, Step
<1>2. ASSUME NEW p \in Packagers,
             \/ PackageBegins(p) \/ HashArchive(p) \/ EmptyConfig(p) \/ FillConfig(p)
             \/ WriteManifest(p) \/ WriteIndex(p) \/ WritePkg(p)
             \/ ListBlobs(p) \/ UploadBlob(p) \/ UploadFails(p) \/ ReadIndex(p)
             \/ PushManifest(p) \/ PushFails(p) \/ FailsWriting(p)
      PROVE  UNCHANGED <<tmp, layers, fd, data>>
  BY <1>2 DEF PackageBegins, HashArchive, EmptyConfig, FillConfig, WriteManifest,
     WriteIndex, WritePkg, ListBlobs, UploadBlob, UploadFails, ReadIndex, PushManifest,
     PushFails, FailsWriting
<1>3. ASSUME NEW s \in Stagers, Stage(s)
      PROVE  UNCHANGED <<tmp, layers, fd, data>>
  BY <1>3 DEF Stage, StageBegins, GetBlob, CreateBinary, WriteBinary
<1>4. ASSUME NEW p \in Procs, Fails(p)
      PROVE  UNCHANGED <<tmp, layers, fd, data>>
  BY <1>4 DEF Fails
<1>5. CASE UNCHANGED vars
  BY <1>5 DEF vars
<1> QED BY <1>1, <1>2, <1>3, <1>4, <1>5 DEF Next, Package

LEMMA LocatedAlways == Spec => []Located
<1> USE DeliveryAssumption DEF Procs
<1>1. Init => Located
  BY DEF Init, Located
<1>2. IInv /\ Located /\ [Next]_vars => Located'
  <2> SUFFICES ASSUME IInv, Located, [Next]_vars PROVE Located'
    OBVIOUS
  <2>0. \A f \in Packagers : Made(f) => pc'[f] \notin {"new", "create"}
    BY Moves DEF Made, Rests, Starts, GoesOn
  <2> USE DirsStay DEF IInv, TypeOK, RunTypes, FileTypes
  <2>1. ASSUME NEW p \in Packagers, CreateArchive(p) PROVE Located'
    <3> DEFINE d == cwd[p]
               f == IF tmp[d] = Missing THEN p ELSE tmp[d]
    <3>1. /\ d \in Dirs /\ f \in Packagers
          /\ tmp'[d] = f /\ layers' = layers /\ fd'[p] = f
          /\ \A e \in Dirs \ {d} : tmp'[e] = tmp[e]
          /\ \A q \in Packagers \ {p} : fd'[q] = fd[q] /\ pc'[q] = pc[q]
          /\ pc[p] = "create" /\ pc'[p] = "tar"
      BY <2>1 DEF CreateArchive, Step
    <3>2. cwd[f] = d /\ pc'[f] \notin {"new", "create"} /\ \A b \in Digests : layers[d][b] # f
      BY <3>1, <2>0 DEF Located, Made
    <3> HIDE DEF f, d
    <3>3. \A e \in Dirs : tmp'[e] # Missing => cwd[tmp'[e]] = e /\ pc'[tmp'[e]] \notin {"new", "create"}
      <4> SUFFICES ASSUME NEW e \in Dirs, tmp'[e] # Missing
                   PROVE  cwd[tmp'[e]] = e /\ pc'[tmp'[e]] \notin {"new", "create"}
        OBVIOUS
      <4>1. CASE e = d
        BY <4>1, <3>1, <3>2
      <4>2. CASE e # d
        <5>1. tmp'[e] = tmp[e] /\ tmp[e] \in Packagers
          BY <4>2, <3>1
        <5> QED BY <5>1, <2>0 DEF Located
      <4> QED BY <4>1, <4>2
    <3>4. \A e \in Dirs, b \in Digests : layers[e][b] # Missing =>
            cwd[layers[e][b]] = e /\ pc'[layers[e][b]] \notin {"new", "create"} /\ layers[e][b] # tmp'[e]
      BY <3>1, <3>2, <2>0 DEF Located, Made
    <3>5. \A q \in Packagers : fd'[q] # Missing => cwd[fd'[q]] = cwd[q]
      <4> SUFFICES ASSUME NEW q \in Packagers, fd'[q] # Missing
                   PROVE  cwd[fd'[q]] = cwd[q]
        OBVIOUS
      <4>1. CASE q = p
        BY <4>1, <3>1, <3>2 DEF d
      <4>2. CASE q # p
        <5>1. fd'[q] = fd[q]
          BY <4>2, <3>1
        <5> QED BY <5>1 DEF Located
      <4> QED BY <4>1, <4>2
    <3> QED BY <3>1, <3>3, <3>4, <3>5 DEF Located, Made
  <2>2. ASSUME NEW p \in Packagers, RenameArchive(p) PROVE Located'
    <3> DEFINE d == cwd[p]
    <3>1. /\ d \in Dirs /\ tmp[d] \in Packagers /\ dig[p] \in Digests
          /\ tmp'[d] = Missing /\ layers'[d][dig[p]] = tmp[d]
          /\ \A e \in Dirs \ {d} : tmp'[e] = tmp[e] /\ layers'[e] = layers[e]
          /\ \A b \in Digests \ {dig[p]} : layers'[d][b] = layers[d][b]
          /\ fd' = fd
      BY <2>2, ZenonT(60) DEF RenameArchive, Step, Doing, Builders
    <3> HIDE DEF d
    <3>2. \A e \in Dirs : tmp'[e] # Missing => cwd[tmp'[e]] = e /\ pc'[tmp'[e]] \notin {"new", "create"}
      <4> SUFFICES ASSUME NEW e \in Dirs, tmp'[e] # Missing
                   PROVE  cwd[tmp'[e]] = e /\ pc'[tmp'[e]] \notin {"new", "create"}
        OBVIOUS
      <4>1. tmp'[e] = tmp[e] /\ tmp[e] \in Packagers
        BY <3>1
      <4> QED BY <4>1, <2>0 DEF Located
    <3>3. \A e \in Dirs, b \in Digests : layers'[e][b] # Missing =>
            cwd[layers'[e][b]] = e /\ pc'[layers'[e][b]] \notin {"new", "create"} /\ layers'[e][b] # tmp'[e]
      <4> SUFFICES ASSUME NEW e \in Dirs, NEW b \in Digests, layers'[e][b] # Missing
                   PROVE  /\ cwd[layers'[e][b]] = e
                          /\ pc'[layers'[e][b]] \notin {"new", "create"}
                          /\ layers'[e][b] # tmp'[e]
        OBVIOUS
      <4>1. CASE e = d /\ b = dig[p]
        <5>1. layers'[e][b] = tmp[d] /\ tmp'[e] = Missing
          BY <4>1, <3>1
        <5> QED BY <5>1, <3>1, <2>0 DEF Located
      <4>2. CASE e = d /\ b # dig[p]
        <5>1. layers'[e][b] = layers[e][b] /\ tmp'[e] = Missing
          BY <4>2, <3>1
        <5>2. layers[e][b] \in Packagers
          BY <5>1
        <5> QED BY <5>1, <5>2, <2>0 DEF Located
      <4>3. CASE e # d
        <5>1. layers'[e][b] = layers[e][b] /\ tmp'[e] = tmp[e] /\ layers[e][b] \in Packagers
          BY <4>3, <3>1
        <5> QED BY <5>1, <2>0 DEF Located
      <4> QED BY <4>1, <4>2, <4>3
    <3>4. \A q \in Packagers : fd'[q] # Missing => cwd[fd'[q]] = cwd[q]
      BY <3>1 DEF Located
    <3> QED BY <3>2, <3>3, <3>4 DEF Located, Made
  <2>3. CASE \A p \in Packagers : ~CreateArchive(p) /\ ~RenameArchive(p)
    <3>1. tmp' = tmp /\ layers' = layers /\ fd' = fd
      BY <2>3, FilesStay
    <3> QED BY <3>1, <2>0 DEF Located, Made
  <2> QED BY <2>1, <2>2, <2>3
<1> QED BY <1>1, <1>2, IInvAlways, PTL DEF Spec

-------------------------------------------------------------------------------
(* In a directory whose runs took turns: what the run at work there knows,   *)
(* that a blob is what its name says, that the index leads to blobs, and that *)
(* a config that is not whole is the work of a later run than the index.     *)
Early == {"new", "create", "tar", "hash", "rename", "empty config", "fill config",
          "write manifest"}

AtWork(p, d) ==
  /\ pc[p] = "tar" => fd[p] = tmp[d] /\ data[fd[p]] = Torn
  /\ pc[p] \in {"hash", "rename"} => tmp[d] # Missing /\ data[tmp[d]] = p
  /\ pc[p] \in Builders => dig[p] = p
  /\ pc[p] \in Builders \ {"rename"} => layers[d][p] # Missing
  /\ pc[p] \in {"write manifest", "write index"} => config[d].whole
  /\ pc[p] = "write index" => p \in manifests[d]

Works(d)  == \A p \in Packagers : cwd[p] = d => AtWork(p, d)
Named(d)  == \A b \in Digests : layers[d][b] # Missing => data[layers[d][b]] = b
Leads(d)  ==
  index[d] # Missing =>
    /\ index[d] \in Packagers /\ cwd[index[d]] = d /\ pc[index[d]] \notin Early
    /\ index[d] \in manifests[d] /\ layers[d][index[d]] # Missing

Configured(d) ==
  LET p == config[d].by IN
  /\ index[d] # Missing => p \in Packagers
  /\ p \in Packagers /\ ~config[d].whole =>
       /\ cwd[p] = d /\ pc[p] \in {"fill config", "failed"}
       /\ index[d] # Missing => index[d] \in before[p]

Clean(d) == Works(d) /\ Named(d) /\ Leads(d) /\ Configured(d)

CleanInTurn == \A d \in Dirs : TookTurns({d}) => Clean(d)

(* Runs that overlapped once, have overlapped ever after. *)
LEMMA TurnsBack ==
  ASSUME IInv, History, [Next]_vars, NEW d \in Dirs, TookTurns({d})'
  PROVE  TookTurns({d})
<1> USE DirsStay DEF IInv, TypeOK, RunTypes, Procs
<1> SUFFICES ASSUME NEW p \in Packagers, NEW q \in Packagers, p # q,
                    cwd[p] = d, cwd[q] = d, pc[p] # "new", pc[q] # "new"
             PROVE  p \in before[q] \/ q \in before[p]
  BY DEF TookTurns, Apart, Begun
<1>1. pc'[p] # "new" /\ pc'[q] # "new" /\ before'[p] = before[p] /\ before'[q] = before[q]
  BY Moves DEF Rests, Starts, GoesOn
<1> QED BY <1>1 DEF TookTurns, Apart, Begun

(* One run at a time is at work in a directory whose runs took turns. *)
LEMMA Alone ==
  ASSUME History, NEW d \in Dirs, TookTurns({d}), NEW p \in Packagers, cwd[p] = d,
         pc[p] \in PackSteps
  PROVE  \A q \in Packagers \ {p} : cwd[q] = d => pc[q] \notin PackSteps
BY DEF History, TookTurns, Apart, Begun, PackSteps, Ended, Procs

(* Nothing that Clean(d) speaks of has changed. *)
Frame(d) ==
  /\ tmp'[d] = tmp[d] /\ layers'[d] = layers[d] /\ config'[d] = config[d]
  /\ manifests'[d] = manifests[d] /\ index'[d] = index[d]
  /\ \A f \in Packagers : cwd[f] = d =>
       /\ data'[f] = data[f] /\ pc'[f] = pc[f] /\ before'[f] = before[f]
       /\ dig'[f] = dig[f] /\ fd'[f] = fd[f]

LEMMA CleanFrame ==
  ASSUME IInv, Located, cwd' = cwd, NEW d \in Dirs, Clean(d), Frame(d)
  PROVE  Clean(d)'
<1> USE DEF IInv, TypeOK, FileTypes, RunTypes, Frame, Clean
<1>1. Works(d)'
  <2> SUFFICES ASSUME NEW p \in Packagers, cwd[p] = d
               PROVE  AtWork(p, d)'
    BY DEF Works
  <2>1. pc'[p] = pc[p] /\ dig'[p] = dig[p] /\ fd'[p] = fd[p]
    OBVIOUS
  <2>2. pc[p] = "tar" => data'[fd[p]] = data[fd[p]]
    BY DeliveryAssumption DEF Located, Procs
  <2>3. tmp[d] # Missing => data'[tmp[d]] = data[tmp[d]]
    BY DEF Located
  <2>4. AtWork(p, d)
    BY DEF Works
  <2>5. /\ tmp'[d] = tmp[d] /\ layers'[d] = layers[d] /\ config'[d] = config[d]
        /\ manifests'[d] = manifests[d]
    OBVIOUS
  <2> HIDE DEF IInv, Frame, Clean
  <2> QED BY <2>1, <2>2, <2>3, <2>4, <2>5 DEF AtWork
<1>2. Named(d)'
  BY DEF Named, Located
<1>3. Leads(d)'
  BY DEF Leads
<1>4. Configured(d)'
  BY DEF Configured
<1> QED BY <1>1, <1>2, <1>3, <1>4

(* A run works in its current directory alone. *)
LEMMA Elsewhere ==
  ASSUME IInv, Located, [Next]_vars, NEW d \in Dirs,
         NEW p \in Packagers, cwd[p] # d, Package(p) \/ Fails(p)
  PROVE  Frame(d)
<1> USE DeliveryAssumption DEF IInv, TypeOK, FileTypes, RunTypes, Procs, files
<1>1. CASE CreateArchive(p)
  <2> DEFINE f == IF tmp[cwd[p]] = Missing THEN p ELSE tmp[cwd[p]]
  <2>1. cwd[f] # d
    BY DEF Located
  <2> HIDE DEF f
  <2> QED BY <1>1, <2>1 DEF CreateArchive, Step, Frame, f
<1>2. CASE WriteArchive(p)
  <2>1. cwd[fd[p]] # d
    BY <1>2 DEF Located, WriteArchive, Step
  <2>2. PICK c : data' = [data EXCEPT ![fd[p]] = c]
    BY <1>2 DEF WriteArchive
  <2> QED BY <1>2, <2>1, <2>2 DEF WriteArchive, Step, Frame
<1>3. CASE PackageBegins(p)  BY <1>3 DEF PackageBegins, Begins, Frame
<1>4. CASE HashArchive(p)    BY <1>4 DEF HashArchive, Step, Frame
<1>5. CASE RenameArchive(p)  BY <1>5 DEF RenameArchive, Step, Frame
<1>6. CASE WriteManifest(p)  BY <1>6 DEF WriteManifest, Step, Frame
<1>7. CASE WriteIndex(p)     BY <1>7 DEF WriteIndex, Step, Frame
<1>8. CASE WritePkg(p)       BY <1>8 DEF WritePkg, Step, Frame
<1>9. CASE ListBlobs(p)      BY <1>9 DEF ListBlobs, Step, Frame
<1>10. CASE UploadBlob(p)    BY <1>10 DEF UploadBlob, Step, Frame
<1>11. CASE UploadFails(p)   BY <1>11 DEF UploadFails, Step, Frame
<1>12. CASE ReadIndex(p)     BY <1>12 DEF ReadIndex, Step, Frame
<1>13. CASE PushManifest(p)  BY <1>13 DEF PushManifest, Step, Frame
<1>14. CASE PushFails(p)     BY <1>14 DEF PushFails, Step, Frame
<1>15. CASE FailsWriting(p)  BY <1>15 DEF FailsWriting, Step, Frame
<1>16. CASE Fails(p)         BY <1>16 DEF Fails, Step, Frame
<1>17. CASE EmptyConfig(p)   BY <1>17 DEF EmptyConfig, Step, Frame
<1>18. CASE FillConfig(p)    BY <1>18 DEF FillConfig, Step, Frame
<1> QED
  BY <1>1, <1>2, <1>3, <1>4, <1>5, <1>6, <1>7, <1>8, <1>9, <1>10, <1>11, <1>12,
     <1>13, <1>14, <1>15, <1>16, <1>17, <1>18 DEF Package

(* In the directory of the run that takes a step, only that run is at work. *)
LEMMA OwnStep ==
  ASSUME IInv, History, cwd' = cwd, NEW d \in Dirs, TookTurns({d}),
         NEW p \in Packagers, cwd[p] = d, pc[p] \in PackSteps,
         \A q \in Packagers \ {p} : pc'[q] = pc[q],
         AtWork(p, d)'
  PROVE  Works(d)'
<1>1. \A q \in Packagers \ {p} : cwd[q] = d => pc[q] \notin PackSteps
  BY Alone
<1>2. ASSUME NEW q \in Packagers, cwd[q] = d PROVE AtWork(q, d)'
  <2>1. CASE q = p
    BY <2>1
  <2>2. CASE q # p
    <3>1. pc'[q] \notin PackSteps
      BY <2>2, <1>1, <1>2
    <3> QED BY <3>1 DEF AtWork, Builders, PackSteps
  <2> QED BY <2>1, <2>2
<1> QED BY <1>2 DEF Works

(* The index still leads to the same blobs if they are still there. *)
LEMMA LeadsStays ==
  ASSUME IInv, cwd' = cwd, NEW d \in Dirs, Leads(d), index'[d] = index[d],
         \A f \in Packagers : pc[f] \notin Early => pc'[f] \notin Early,
         \A b \in Digests : layers[d][b] # Missing => layers'[d][b] # Missing,
         \A b \in manifests[d] : b = index[d] => b \in manifests'[d]
  PROVE  Leads(d)'
BY DEF Leads, Digests

(* What is said of the config stays true in a step that does not touch it,   *)
(* nor makes a new index.                                                    *)
LEMMA ConfiguredStays ==
  ASSUME IInv, cwd' = cwd, before' = before, NEW d \in Dirs, Configured(d),
         config'[d] = config[d], index'[d] \in {Missing, index[d]},
         NEW p \in Packagers, \A q \in Packagers \ {p} : pc'[q] = pc[q],
         pc[p] \in PackSteps, pc[p] = "fill config" => pc'[p] = "failed"
  PROVE  Configured(d)'
<1>1. ASSUME NEW q \in Packagers, pc[q] \in {"fill config", "failed"}
      PROVE  pc'[q] \in {"fill config", "failed"}
  BY <1>1 DEF PackSteps
<1> QED BY <1>1 DEF Configured

LEMMA CleanStep ==
  ASSUME IInv, History, Located, [Next]_vars, NEW d \in Dirs, TookTurns({d}), Clean(d),
         NEW p \in Packagers, cwd[p] = d, Package(p) \/ Fails(p)
  PROVE  Clean(d)'
<1> USE DeliveryAssumption, DirsStay
    DEF IInv, TypeOK, FileTypes, RunTypes, Clean, Procs, files, registry
<1>0. p \in Digests /\ p # Missing /\ p # Torn /\ AtWork(p, d)
  BY DEF Works, Digests
<1>1. CASE PackageBegins(p)
  <2>1. /\ UNCHANGED <<tmp, data, layers, config, manifests, index, fd, dig>>
        /\ pc[p] = "new" /\ pc' = [pc EXCEPT ![p] = "create"]
    BY <1>1 DEF PackageBegins, Begins
  <2>2. Works(d)'
    <3> SUFFICES ASSUME NEW q \in Packagers, cwd[q] = d PROVE AtWork(q, d)'
      BY DEF Works
    <3>1. CASE q = p
      BY <3>1, <2>1 DEF AtWork, Builders
    <3>2. CASE q # p
      <4>1. AtWork(q, d) /\ pc'[q] = pc[q]
        BY <3>2, <2>1 DEF Works
      <4> QED BY <4>1, <2>1 DEF AtWork, Builders
    <3> QED BY <3>1, <3>2
  <2>3. Named(d)' /\ Leads(d)'
    BY <2>1 DEF Named, Leads, Early
  <2>4. Configured(d)'
    <3>1. \A q \in Packagers \ {p} : pc'[q] = pc[q] /\ before'[q] = before[q]
      BY <1>1 DEF PackageBegins, Begins
    <3> QED BY <2>1, <3>1, <1>1 DEF Configured, PackageBegins
  <2> QED BY <2>2, <2>3, <2>4
<1>2. CASE CreateArchive(p)
  <2> DEFINE f == IF tmp[d] = Missing THEN p ELSE tmp[d]
  <2>1. /\ tmp'[d] = f /\ data' = [data EXCEPT ![f] = Torn] /\ fd'[p] = f
        /\ UNCHANGED <<layers, manifests, index>> /\ f \in Packagers
        /\ pc[p] = "create" /\ pc' = [pc EXCEPT ![p] = "tar"]
    BY <1>2 DEF CreateArchive, Step
  <2>2. \A b \in Digests : layers[d][b] # f
    BY <2>1 DEF Located, Made
  <2> HIDE DEF f
  <2>3. AtWork(p, d)'
    BY <2>1 DEF AtWork, Builders
  <2>4. Works(d)'
    BY <2>1, <2>3, OwnStep DEF PackSteps
  <2>5. Named(d)'
    BY <2>1, <2>2 DEF Named
  <2>6. Leads(d)'
    BY <2>1, LeadsStays DEF Early
  <2>7. Configured(d)'
    BY <1>2, <2>1, ConfiguredStays DEF CreateArchive, Step, PackSteps
  <2> QED BY <2>4, <2>5, <2>6, <2>7
<1>3. CASE WriteArchive(p)
  <2>1. /\ fd[p] = tmp[d] /\ data[fd[p]] = Torn /\ fd[p] \in Packagers
    BY <1>3, <1>0 DEF WriteArchive, Step, AtWork
  <2>2. /\ data' = [data EXCEPT ![tmp[d]] = p]
        /\ UNCHANGED <<tmp, layers, manifests, index>>
        /\ pc[p] = "tar" /\ pc' = [pc EXCEPT ![p] = "hash"]
    <3>1. ASSUME NEW q \in Packagers \ before[p], q # p, fd[q] = fd[p],
                 pc[q] \in {"tar", "failed"}
          PROVE  FALSE
      <4>1. cwd[q] = d
        BY <3>1, <2>1 DEF Located
      <4>2. pc[p] = "tar" /\ p \in before[q]
        BY <4>1, <3>1, <1>3 DEF WriteArchive, Step, TookTurns, Apart, Begun
      <4> QED BY <4>2 DEF History, Ended
    <3>2. ~Shared(p)
      BY <2>1, <3>1 DEF Shared
    <3> QED BY <1>3, <2>1, <3>2 DEF WriteArchive, Step
  <2>3. \A b \in Digests : layers[d][b] # tmp[d]
    BY <2>1, <1>0 DEF Located
  <2>4. AtWork(p, d)'
    BY <2>1, <2>2, <1>0 DEF AtWork, Builders
  <2>5. Works(d)'
    BY <2>2, <2>4, OwnStep DEF PackSteps
  <2>6. Named(d)'
    BY <2>1, <2>2, <2>3 DEF Named
  <2>7. Leads(d)'
    BY <2>2, LeadsStays DEF Early
  <2>8. Configured(d)'
    BY <1>3, <2>2, ConfiguredStays DEF WriteArchive, Step, PackSteps
  <2> QED BY <2>5, <2>6, <2>7, <2>8
<1>4. CASE HashArchive(p)
  <2>1. /\ UNCHANGED <<tmp, data, layers, manifests, index>>
        /\ pc[p] = "hash" /\ pc' = [pc EXCEPT ![p] = "rename"]
        /\ dig' = [dig EXCEPT ![p] = data[tmp[d]]]
    BY <1>4 DEF HashArchive, Step
  <2>2. AtWork(p, d)'
    BY <2>1, <1>0 DEF AtWork
  <2>3. Works(d)'
    BY <2>1, <2>2, OwnStep DEF PackSteps
  <2>4. Named(d)'
    BY <2>1 DEF Named
  <2>5. Leads(d)'
    BY <2>1, LeadsStays DEF Early
  <2>6. Configured(d)'
    BY <1>4, <2>1, ConfiguredStays DEF HashArchive, Step, PackSteps
  <2> QED BY <2>3, <2>4, <2>5, <2>6
<1>5. CASE RenameArchive(p)
  <2>1. dig[p] = p /\ tmp[d] # Missing /\ data[tmp[d]] = p
    BY <1>5, <1>0 DEF RenameArchive, Step, AtWork, Builders
  <2>2. /\ UNCHANGED <<data, manifests, index, dig>>
        /\ layers'[d] = [layers[d] EXCEPT ![p] = tmp[d]]
        /\ pc[p] = "rename" /\ pc' = [pc EXCEPT ![p] = "empty config"]
    BY <1>5, <2>1 DEF RenameArchive, Step
  <2>3. layers'[d][p] = tmp[d] /\ \A b \in Digests \ {p} : layers'[d][b] = layers[d][b]
    <3>1. layers[d] \in [Digests -> Packagers \union {Missing}]
      OBVIOUS
    <3> HIDE DEF IInv
    <3> QED BY <2>2, <3>1, <1>0
  <2>4. AtWork(p, d)'
    BY <2>1, <2>2, <2>3 DEF AtWork
  <2>5. Works(d)'
    BY <2>2, <2>4, OwnStep DEF PackSteps
  <2>6. Named(d)'
    BY <2>1, <2>2, <2>3, ZenonT(60) DEF Named
  <2>7. Leads(d)'
    BY <2>1, <2>2, <2>3, LeadsStays DEF Early
  <2>8. Configured(d)'
    BY <1>5, <2>2, ConfiguredStays DEF RenameArchive, Step, PackSteps
  <2> QED BY <2>5, <2>6, <2>7, <2>8
<1>6. CASE EmptyConfig(p)
  <2>1. dig[p] = p /\ layers[d][p] # Missing
    BY <1>6, <1>0 DEF EmptyConfig, Step, AtWork, Builders
  <2>2. /\ UNCHANGED <<tmp, data, layers, manifests, index, dig, before>>
        /\ config'[d] = [by |-> p, whole |-> FALSE]
        /\ pc[p] = "empty config" /\ pc' = [pc EXCEPT ![p] = "fill config"]
    BY <1>6 DEF EmptyConfig, Step
  <2>3. AtWork(p, d)'
    BY <2>1, <2>2 DEF AtWork
  <2>4. Works(d)'
    BY <2>2, <2>3, OwnStep DEF PackSteps
  <2>5. Named(d)'
    BY <2>2 DEF Named
  <2>6. Leads(d)'
    BY <2>2, LeadsStays DEF Early
  <2>7. index[d] # Missing => index[d] \in before[p]
    <3> SUFFICES ASSUME index[d] # Missing PROVE index[d] \in before[p]
      OBVIOUS
    <3>1. index[d] \in Packagers \ {p} /\ cwd[index[d]] = d /\ pc[index[d]] # "new"
      BY <2>2 DEF Leads, Early
    <3>2. p \notin before[index[d]]
      BY <2>2, <3>1 DEF History, Ended
    <3> QED BY <2>2, <3>1, <3>2 DEF TookTurns, Apart, Begun
  <2>8. Configured(d)'
    <3>0. [by |-> p, whole |-> FALSE].by = p
      OBVIOUS
    <3>1. config'[d].by = p
      BY <2>2, <3>0
    <3>2. pc'[p] = "fill config" /\ before'[p] = before[p]
      BY <2>2
    <3> QED BY <2>2, <2>7, <3>1, <3>2 DEF Configured
  <2> QED BY <2>4, <2>5, <2>6, <2>8
<1>7. CASE FillConfig(p)
  <2>1. dig[p] = p /\ layers[d][p] # Missing
    BY <1>7, <1>0 DEF FillConfig, Step, AtWork, Builders
  <2>2. /\ UNCHANGED <<tmp, data, layers, manifests, index, dig>>
        /\ config'[d] = [by |-> p, whole |-> TRUE]
        /\ pc[p] = "fill config" /\ pc' = [pc EXCEPT ![p] = "write manifest"]
    BY <1>7 DEF FillConfig, Step
  <2>3. config'[d].by = p /\ config'[d].whole
    <3>1. [by |-> p, whole |-> TRUE].by = p /\ [by |-> p, whole |-> TRUE].whole
      OBVIOUS
    <3> QED BY <2>2, <3>1
  <2>4. AtWork(p, d)'
    BY <2>1, <2>2, <2>3 DEF AtWork, Builders
  <2>5. Works(d)'
    BY <2>2, <2>4, OwnStep DEF PackSteps
  <2>6. Named(d)'
    BY <2>2 DEF Named
  <2>7. Leads(d)'
    BY <2>2, LeadsStays DEF Early
  <2>8. Configured(d)'
    <3>1. config'[d].by \in Packagers /\ config'[d].whole
      BY <2>3
    <3> QED BY <3>1 DEF Configured
  <2> QED BY <2>5, <2>6, <2>7, <2>8
<1>10. CASE WriteManifest(p)
  <2>1. dig[p] = p /\ layers[d][p] # Missing /\ config[d].whole
    BY <1>10, <1>0 DEF WriteManifest, Step, AtWork, Builders
  <2>2. /\ UNCHANGED <<tmp, data, layers, config, index, dig>>
        /\ manifests'[d] = manifests[d] \union {p}
        /\ pc[p] = "write manifest" /\ pc' = [pc EXCEPT ![p] = "write index"]
    BY <1>10, <2>1 DEF WriteManifest, Step
  <2>3. AtWork(p, d)'
    BY <2>1, <2>2 DEF AtWork
  <2>4. Works(d)'
    BY <2>2, <2>3, OwnStep DEF PackSteps
  <2>5. Named(d)'
    BY <2>2 DEF Named
  <2>6. Leads(d)'
    BY <2>2, LeadsStays DEF Early
  <2>7. Configured(d)'
    BY <1>10, <2>2, ConfiguredStays DEF WriteManifest, Step, PackSteps
  <2> QED BY <2>4, <2>5, <2>6, <2>7
<1>11. CASE WriteIndex(p)
  <2>1. dig[p] = p /\ layers[d][p] # Missing /\ p \in manifests[d] /\ config[d].whole
    BY <1>11, <1>0 DEF WriteIndex, Step, AtWork, Builders
  <2>2. /\ UNCHANGED <<tmp, data, layers, config, manifests, dig>> /\ index'[d] = p
        /\ pc[p] = "write index" /\ pc' = [pc EXCEPT ![p] = "write pkg"]
    BY <1>11, <2>1 DEF WriteIndex, Step
  <2>3. AtWork(p, d)'
    BY <2>2 DEF AtWork, Builders
  <2>4. Works(d)'
    BY <2>2, <2>3, OwnStep DEF PackSteps
  <2>5. Named(d)'
    BY <2>2 DEF Named
  <2>6. Leads(d)'
    BY <2>1, <2>2 DEF Leads, Early
  <2>7. Configured(d)'
    <3>1. config[d].by \in Packagers
      BY <2>1 DEF NoBlob
    <3> QED BY <2>1, <2>2, <3>1 DEF Configured
  <2> QED BY <2>4, <2>5, <2>6, <2>7
<1>8. CASE \/ WritePkg(p) \/ ListBlobs(p) \/ UploadBlob(p) \/ UploadFails(p)
           \/ ReadIndex(p) \/ PushManifest(p) \/ PushFails(p)
  <2>1. /\ UNCHANGED <<tmp, data, layers, config, manifests, index, before>>
        /\ pc[p] \in {"write pkg", "list", "upload", "push"}
        /\ \E to \in {"list", "upload", "push", "done"} : pc' = [pc EXCEPT ![p] = to]
    BY <1>8 DEF WritePkg, ListBlobs, UploadBlob, UploadFails, ReadIndex, PushManifest,
       PushFails, Step
  <2>2. AtWork(p, d)'
    BY <2>1 DEF AtWork, Builders
  <2>3. Works(d)'
    BY <2>1, <2>2, OwnStep DEF PackSteps
  <2>4. Named(d)'
    BY <2>1 DEF Named
  <2>5. Leads(d)'
    BY <2>1, LeadsStays DEF Early
  <2>6. Configured(d)'
    BY <2>1, ConfiguredStays DEF PackSteps
  <2> QED BY <2>3, <2>4, <2>5, <2>6
<1>9. CASE FailsWriting(p) \/ Fails(p)
  <2>1. /\ UNCHANGED <<tmp, data, layers, config, before>>
        /\ pc[p] \in PackSteps /\ pc' = [pc EXCEPT ![p] = "failed"]
    <3>1. CASE FailsWriting(p)
      BY <3>1 DEF FailsWriting, Step, PackSteps
    <3>2. CASE Fails(p)
      BY <3>2 DEF Fails, Step, PackSteps, StageSteps, Doing, Ended
    <3> QED BY <1>9, <3>1, <3>2
  <2>2. AtWork(p, d)'
    BY <2>1 DEF AtWork, Builders
  <2>3. Works(d)'
    BY <2>1, <2>2, OwnStep
  <2>4. Named(d)'
    BY <2>1 DEF Named
  <2>5. Configured(d)'
    <3>1. index'[d] \in {Missing, index[d]}
      <4>1. CASE FailsWriting(p)
        BY <4>1 DEF FailsWriting
      <4>2. CASE Fails(p)
        BY <4>2 DEF Fails
      <4> QED BY <1>9, <4>1, <4>2
    <3> QED BY <2>1, <3>1, ConfiguredStays
  <2>6. CASE index'[d] = Missing
    BY <2>3, <2>4, <2>6, <2>5 DEF Leads
  <2>7. CASE index'[d] # Missing
    <3>1. index'[d] = index[d]
      BY <2>7, <1>9 DEF FailsWriting, Fails, Step
    <3>2. \/ manifests' = manifests
          \/ /\ pc[p] = "write manifest"
             /\ manifests' = [manifests EXCEPT ![d] = @ \ {dig[p]}]
      <4>1. CASE FailsWriting(p)
        BY <4>1 DEF FailsWriting, Step
      <4>2. CASE Fails(p)
        BY <4>2 DEF Fails
      <4> QED BY <1>9, <4>1, <4>2
    <3>3. pc[p] = "write manifest" => dig[p] = p /\ index[d] # p
      BY <1>0 DEF AtWork, Leads, Early, Builders
    <3>4. \A b \in manifests[d] : b = index[d] => b \in manifests'[d]
      <4>1. CASE manifests' = manifests
        BY <4>1
      <4>2. CASE manifests' # manifests
        <5>1. manifests'[d] = manifests[d] \ {p} /\ index[d] # p
          BY <4>2, <3>2, <3>3
        <5> QED BY <5>1
      <4> QED BY <4>1, <4>2
    <3>5. Leads(d)'
      BY <2>1, <3>1, <3>4, LeadsStays DEF Early
    <3> QED BY <2>3, <2>4, <2>5, <3>5
  <2> QED BY <2>6, <2>7
<1> QED
  BY <1>1, <1>2, <1>3, <1>4, <1>5, <1>6, <1>7, <1>8, <1>9, <1>10, <1>11 DEF Package

LEMMA CleanAlways == Spec => []CleanInTurn
<1>1. Init => CleanInTurn
  <2> SUFFICES ASSUME Init, NEW d \in Dirs PROVE Clean(d)
    BY DEF CleanInTurn
  <2>1. config[d].by = Missing /\ Missing \notin Packagers
    <3>1. config[d] = NoBlob /\ NoBlob.by = Missing
      BY DEF Init, NoBlob
    <3> QED BY <3>1, DeliveryAssumption DEF Procs
  <2>2. Configured(d)
    BY <2>1 DEF Init, Configured
  <2> QED BY <2>2, DeliveryAssumption
          DEF Init, Clean, Works, AtWork, Builders, Named, Leads, Procs
<1>2. IInv /\ History /\ Located /\ CleanInTurn /\ [Next]_vars => CleanInTurn'
  <2> SUFFICES ASSUME IInv, History, Located, CleanInTurn, [Next]_vars,
                      NEW d \in Dirs, TookTurns({d})'
               PROVE  Clean(d)'
    BY DEF CleanInTurn
  <2>1. Clean(d) /\ TookTurns({d})
    BY TurnsBack DEF CleanInTurn
  <2>2. cwd' = cwd
    BY DirsStay
  <2>3. ASSUME NEW p \in Packagers, Package(p) \/ Fails(p) PROVE Clean(d)'
    <3>1. CASE cwd[p] = d
      BY <2>1, <2>3, <3>1, CleanStep
    <3>2. CASE cwd[p] # d
      BY <2>1, <2>2, <2>3, <3>2, Elsewhere, CleanFrame
    <3> QED BY <3>1, <3>2
  <2>4. ASSUME NEW s \in Stagers, Stage(s) \/ Fails(s) PROVE Clean(d)'
    <3>0. /\ \E to : pc' = [pc EXCEPT ![s] = to]
          /\ UNCHANGED <<tmp, data, layers, config, manifests, index, fd>>
          /\ dig' = dig \/ \E b : dig' = [dig EXCEPT ![s] = b]
          /\ before' = before \/ \E B : before' = [before EXCEPT ![s] = B]
      BY <2>4 DEF Stage, StageBegins, GetBlob, CreateBinary, WriteBinary, Fails, Begins,
         Step, files
    <3>1. Frame(d)
      BY <3>0, DeliveryAssumption DEF Frame, IInv, TypeOK, RunTypes, Procs
    <3> QED BY <2>1, <2>2, <3>1, CleanFrame
  <2>5. CASE UNCHANGED vars
    <3>1. Frame(d)
      BY <2>5 DEF vars, files, dirs, Frame
    <3> QED BY <2>1, <2>2, <3>1, CleanFrame
  <2> QED BY <2>3, <2>4, <2>5 DEF Next
<1> QED BY <1>1, <1>2, IInvAlways, HistoryAlways, LocatedAlways, PTL DEF Spec

(* Whatever dies where: an index.json that can be read leads to a manifest   *)
(* and a layer that are complete, in every directory whose runs took turns,  *)
(* and to a complete config unless a later run died while rewriting it, or   *)
(* is at it.                                                                 *)
THEOREM IndexCorrect == Spec => []IndexIsWhole
<1>1. IInv /\ CleanInTurn => IndexIsWhole
  BY DEF CleanInTurn, Clean, Named, Leads, Configured, IndexIsWhole, IInv, TypeOK, FileTypes
<1> QED BY <1>1, IInvAlways, CleanAlways, PTL

-------------------------------------------------------------------------------
(* If all runs of package took turns: what the index leads to is among the   *)
(* blobs that a run lists, and then uploads or fails to.                     *)
Gone(p) == stored \union lost[p]

Listed(p) ==
  /\ pc[p] = "upload" /\ index[wd[p]] # Missing => index[wd[p]] \in todo[p] \union Gone(p)
  /\ pc[p] = "push" => dig[p] \in Gone(p)

Published ==
  TookTurns(Dirs) =>
    /\ \A p \in Packagers : Listed(p)
    /\ \A b \in released : b \in stored \/ \E p \in Packagers : b \in lost[p]

LEMMA AllTurns ==
  ASSUME TookTurns(Dirs), NEW d \in Dirs
  PROVE  TookTurns({d})
BY DEF TookTurns

LEMMA AllAlone ==
  ASSUME IInv, History, TookTurns(Dirs), NEW p \in Packagers, NEW q \in Packagers, p # q,
         pc[p] \in PackSteps
  PROVE  pc[q] \notin PackSteps
BY ZenonT(60)
DEF IInv, TypeOK, RunTypes, History, TookTurns, Apart, Begun, PackSteps, Ended, Procs

LEMMA AllTurnsBack ==
  ASSUME IInv, History, [Next]_vars, TookTurns(Dirs)'
  PROVE  TookTurns(Dirs)
<1> USE DirsStay DEF IInv, TypeOK, RunTypes, Procs
<1> SUFFICES ASSUME NEW p \in Packagers, NEW q \in Packagers, p # q,
                    pc[p] # "new", pc[q] # "new"
             PROVE  p \in before[q] \/ q \in before[p]
  BY DEF TookTurns, Apart, Begun
<1>1. pc'[p] # "new" /\ pc'[q] # "new" /\ before'[p] = before[p] /\ before'[q] = before[q]
  BY Moves DEF Rests, Starts, GoesOn
<1> QED BY <1>1 DEF TookTurns, Apart, Begun

LEMMA PublishedStep ==
  ASSUME IInv, History, CleanInTurn, [Next]_vars, TookTurns(Dirs), Published,
         NEW p \in Packagers, Package(p) \/ Fails(p)
  PROVE  /\ Listed(p)'
         /\ \A b \in released' : b \in stored' \/ \E q \in Packagers : b \in lost'[q]
<1> USE DeliveryAssumption, DirsStay
    DEF IInv, TypeOK, FileTypes, RemoteTypes, RunTypes, Procs, files, registry, Gone
<1>0. /\ Listed(p)
      /\ \A b \in released : b \in stored \/ \E q \in Packagers : b \in lost[q]
  BY DEF Published
<1>1. CASE ListBlobs(p)
  <2>1. index[wd[p]] # Missing => layers[wd[p]][index[wd[p]]] # Missing
    BY AllTurns DEF CleanInTurn, Clean, Leads
  <2>2. /\ pc' = [pc EXCEPT ![p] = "upload"] /\ UNCHANGED <<index, stored, released, lost>>
        /\ todo' = [todo EXCEPT ![p] = BlobsIn(wd[p])]
    BY <1>1 DEF ListBlobs, Step
  <2>3. index[wd[p]] # Missing => index[wd[p]] \in BlobsIn(wd[p])
    BY <2>1 DEF BlobsIn
  <2> QED BY <1>0, <2>2, <2>3 DEF Listed
<1>2. CASE UploadBlob(p)
  <2>1. PICK b \in todo[p] :
          /\ pc[p] = "upload" /\ pc' = [pc EXCEPT ![p] = "upload"]
          /\ todo' = [todo EXCEPT ![p] = todo[p] \ {b}]
          /\ stored' = stored \union {b} /\ UNCHANGED <<index, released, lost>>
    BY <1>2 DEF UploadBlob, Step
  <2>2. todo'[p] = todo[p] \ {b} /\ pc'[p] = "upload"
    BY <2>1
  <2> QED BY <1>0, <2>1, <2>2 DEF Listed
<1>3. CASE UploadFails(p)
  <2>1. PICK b \in todo[p] :
          /\ pc[p] = "upload" /\ pc' = [pc EXCEPT ![p] = "upload"]
          /\ todo' = [todo EXCEPT ![p] = todo[p] \ {b}]
          /\ lost' = [lost EXCEPT ![p] = lost[p] \union {b}]
          /\ UNCHANGED <<index, released, stored>>
    BY <1>3 DEF UploadFails, Step
  <2>2. /\ todo'[p] = todo[p] \ {b} /\ pc'[p] = "upload"
        /\ lost'[p] = lost[p] \union {b}
        /\ \A q \in Packagers : lost[q] \subseteq lost'[q]
    BY <2>1
  <2> QED BY <1>0, <2>1, <2>2 DEF Listed
<1>4. CASE ReadIndex(p)
  <2>1. /\ pc[p] = "upload" /\ pc' = [pc EXCEPT ![p] = "push"] /\ todo[p] = {}
        /\ dig' = [dig EXCEPT ![p] = index[wd[p]]] /\ index[wd[p]] \in Digests
        /\ UNCHANGED <<released, stored, lost>>
    BY <1>4 DEF ReadIndex, Step
  <2> QED BY <1>0, <2>1 DEF Listed, Digests
<1>5. CASE PushManifest(p)
  <2>1. /\ pc[p] = "push" /\ pc' = [pc EXCEPT ![p] = "done"]
        /\ released' = released \union {dig[p]} /\ UNCHANGED <<stored, lost>>
    BY <1>5 DEF PushManifest, Step
  <2> QED BY <1>0, <2>1 DEF Listed
<1>6. CASE PushFails(p)
  <2>1. /\ pc' = [pc EXCEPT ![p] = "done"]
        /\ lost' = [lost EXCEPT ![p] = lost[p] \union {dig[p]}]
        /\ UNCHANGED <<released, stored>>
    BY <1>6 DEF PushFails, Step
  <2>2. \A q \in Packagers : lost[q] \subseteq lost'[q]
    BY <2>1
  <2> QED BY <1>0, <2>1, <2>2 DEF Listed
<1>7. CASE \/ PackageBegins(p) \/ CreateArchive(p) \/ WriteArchive(p) \/ HashArchive(p)
           \/ RenameArchive(p) \/ EmptyConfig(p) \/ FillConfig(p)
           \/ WriteManifest(p) \/ WriteIndex(p) \/ WritePkg(p)
           \/ FailsWriting(p) \/ Fails(p)
  <2>1. /\ UNCHANGED <<released, stored, lost>>
        /\ \E to : to \notin {"upload", "push"} /\ pc' = [pc EXCEPT ![p] = to]
    BY <1>7 DEF PackageBegins, CreateArchive, WriteArchive, HashArchive, RenameArchive, EmptyConfig, FillConfig,
       EmptyConfig, FillConfig, WriteManifest, WriteIndex, WritePkg, FailsWriting, Fails,
       Begins, Step
  <2> QED BY <1>0, <2>1 DEF Listed
<1> QED BY <1>1, <1>2, <1>3, <1>4, <1>5, <1>6, <1>7 DEF Package

(* What else a step may touch of what a run that uploads, or pushes, knows. *)
LEMMA OthersStay ==
  ASSUME IInv, [Next]_vars, NEW p \in Packagers, Package(p) \/ Fails(p)
  PROVE  /\ stored \subseteq stored' /\ wd' = wd
         /\ \A q \in Packagers \ {p} :
              pc'[q] = pc[q] /\ todo'[q] = todo[q] /\ lost'[q] = lost[q] /\ dig'[q] = dig[q]
         /\ pc[p] \notin PackSteps => index' = index
<1> USE DeliveryAssumption, DirsStay
    DEF IInv, TypeOK, RunTypes, Procs, files, registry, PackSteps
<1>1. CASE PackageBegins(p)  BY <1>1 DEF PackageBegins, Begins
<1>2. CASE CreateArchive(p)  BY <1>2 DEF CreateArchive, Step
<1>3. CASE WriteArchive(p)   BY <1>3 DEF WriteArchive, Step
<1>4. CASE HashArchive(p)    BY <1>4 DEF HashArchive, Step
<1>5. CASE RenameArchive(p)  BY <1>5 DEF RenameArchive, Step
<1>6. CASE WriteManifest(p)  BY <1>6 DEF WriteManifest, Step
<1>7. CASE WriteIndex(p)     BY <1>7 DEF WriteIndex, Step
<1>8. CASE WritePkg(p)       BY <1>8 DEF WritePkg, Step
<1>9. CASE ListBlobs(p)      BY <1>9 DEF ListBlobs, Step
<1>10. CASE UploadBlob(p)    BY <1>10, ZenonT(60) DEF UploadBlob, Step
<1>11. CASE UploadFails(p)   BY <1>11, ZenonT(60) DEF UploadFails, Step
<1>12. CASE ReadIndex(p)     BY <1>12 DEF ReadIndex, Step
<1>13. CASE PushManifest(p)  BY <1>13 DEF PushManifest, Step
<1>14. CASE PushFails(p)     BY <1>14 DEF PushFails, Step
<1>15. CASE FailsWriting(p)  BY <1>15 DEF FailsWriting, Step
<1>16. CASE Fails(p)         BY <1>16 DEF Fails, Step
<1>17. CASE EmptyConfig(p)   BY <1>17 DEF EmptyConfig, Step
<1>18. CASE FillConfig(p)    BY <1>18 DEF FillConfig, Step
<1> QED
  BY <1>1, <1>2, <1>3, <1>4, <1>5, <1>6, <1>7, <1>8, <1>9, <1>10, <1>11, <1>12,
     <1>13, <1>14, <1>15, <1>16, <1>17, <1>18 DEF Package

LEMMA PublishedAlways == Spec => []Published
<1>1. Init => Published
  BY DeliveryAssumption DEF Init, Published, Listed, Procs
<1>2. IInv /\ History /\ CleanInTurn /\ Published /\ [Next]_vars => Published'
  <2> SUFFICES ASSUME IInv, History, CleanInTurn, Published, [Next]_vars, TookTurns(Dirs)'
               PROVE  /\ \A q \in Packagers : Listed(q)'
                      /\ \A b \in released' :
                           b \in stored' \/ \E q \in Packagers : b \in lost'[q]
    BY DEF Published
  <2>0. TookTurns(Dirs)
    BY AllTurnsBack
  <2>1. /\ \A q \in Packagers : Listed(q)
        /\ \A b \in released : b \in stored \/ \E q \in Packagers : b \in lost[q]
    BY <2>0 DEF Published
  <2>2. ASSUME NEW p \in Packagers, Package(p) \/ Fails(p)
        PROVE  /\ \A q \in Packagers : Listed(q)'
               /\ \A b \in released' :
                    b \in stored' \/ \E q \in Packagers : b \in lost'[q]
    <3>1. ASSUME NEW q \in Packagers, q # p PROVE Listed(q)'
      <4>1. CASE pc[q] \in {"upload", "push"}
        <5>1. pc[p] \notin PackSteps
          BY <2>0, <3>1, <4>1, AllAlone DEF PackSteps
        <5>2. /\ index' = index /\ wd' = wd /\ stored \subseteq stored' /\ pc'[q] = pc[q]
              /\ todo'[q] = todo[q] /\ lost'[q] = lost[q] /\ dig'[q] = dig[q]
          BY <2>2, <3>1, <5>1, OthersStay
        <5> QED BY <2>1, <5>2 DEF Listed, Gone
      <4>2. CASE pc[q] \notin {"upload", "push"}
        <5>1. pc'[q] = pc[q]
          BY <2>2, <3>1, OthersStay
        <5> QED BY <4>2, <5>1 DEF Listed
      <4> QED BY <4>1, <4>2
    <3> QED BY <2>0, <2>2, <3>1, PublishedStep
  <2>3. ASSUME NEW s \in Stagers, Stage(s) \/ Fails(s)
        PROVE  /\ \A q \in Packagers : Listed(q)'
               /\ \A b \in released' :
                    b \in stored' \/ \E q \in Packagers : b \in lost'[q]
    <3>1. /\ \E to : pc' = [pc EXCEPT ![s] = to]
          /\ UNCHANGED <<index, stored, released, todo, lost, wd>>
          /\ dig' = dig \/ \E b : dig' = [dig EXCEPT ![s] = b]
      BY <2>3, DirsStay DEF Stage, StageBegins, GetBlob, CreateBinary, WriteBinary, Fails,
         Begins, Step, files, registry
    <3>2. \A q \in Packagers : pc'[q] = pc[q] /\ dig'[q] = dig[q]
      BY <3>1, DeliveryAssumption DEF IInv, TypeOK, RunTypes, Procs
    <3> QED BY <2>1, <3>1, <3>2 DEF Listed, Gone
  <2>4. CASE UNCHANGED vars
    BY <2>1, <2>4 DEF vars, files, registry, dirs, Listed, Gone
  <2> QED BY <2>2, <2>3, <2>4 DEF Next
<1> QED BY <1>1, <1>2, IInvAlways, HistoryAlways, CleanAlways, PTL DEF Spec

(* What the tag ever led to can be pulled, unless an upload of that layer    *)
(* was passed over or runs of package overlapped, for any number of runs.    *)
THEOREM TagsCorrect == Spec => []TagsHaveLayers
<1>1. Published => TagsHaveLayers
  BY DEF Published, TagsHaveLayers
<1> QED BY <1>1, PublishedAlways, PTL

-------------------------------------------------------------------------------
(* From build to binary.  What a run of package that no other overlapped or  *)
(* followed has got at each of its steps; what a run of stage that came      *)
(* after it holds, until another run of package intervenes; and what a host  *)
(* has while no other stage for it begins.                                   *)
Latest(p) == \A q \in Packagers \ {p} : Begun(q) => q \in before[p]

Until(p, s) ==
  \A q \in Packagers \ {p} : Begun(q) => q \in before[p] \/ s \in before[q]

LastStaged(s) ==
  \A t \in Stagers \ {s} : Begun(t) /\ HostOf[t] = HostOf[s] => t \in before[s]

(* A run that works in its working directory and missed no upload.           *)
Well(p) == pc[p] = "done" /\ cwd[p] = wd[p] /\ lost[p] = {}

Builds(p) ==
  /\ pc[p] = "tar" => tmp[cwd[p]] = fd[p] /\ data[fd[p]] = Torn
  /\ pc[p] = "hash" => tmp[cwd[p]] \in Packagers /\ data[tmp[cwd[p]]] = p
  /\ pc[p] \in Builders => dig[p] = p
  /\ pc[p] \in {"write pkg", "list", "upload"} => index[cwd[p]] = p
  /\ pc[p] = "push" /\ cwd[p] = wd[p] => dig[p] = p
  /\ Well(p) => tag = p

Holds(s) ==
  /\ pc[s] = "write binary" => binary[HostOf[s]].by = s
  /\ pc[s] = "done" => binary[HostOf[s]] = [by |-> s, of |-> dig[s]]

Built   == \A p \in Packagers : Latest(p) => Builds(p)
Carried == \A p \in Packagers, s \in Stagers :
             Well(p) /\ Begun(s) /\ p \in before[s] /\ Until(p, s) => dig[s] = p
Left    == \A s \in Stagers : LastStaged(s) => Holds(s)

Delivers == Built /\ Carried /\ Left

(* The steps of a run of stage leave what Builds speaks of alone.            *)
LEMMA StagerFrame ==
  ASSUME IInv, NEW s \in Stagers, Stage(s) \/ Fails(s)
  PROVE  /\ UNCHANGED <<files, tag, fd, lost>>
         /\ \A p \in Packagers : pc'[p] = pc[p] /\ before'[p] = before[p] /\ dig'[p] = dig[p]
<1> USE DeliveryAssumption DEF IInv, TypeOK, RunTypes, Procs, registry
<1>1. /\ UNCHANGED <<files, tag, fd, lost>>
      /\ \E to : pc' = [pc EXCEPT ![s] = to]
      /\ before' = before \/ \E B : before' = [before EXCEPT ![s] = B]
      /\ dig' = dig \/ \E b : dig' = [dig EXCEPT ![s] = b]
  BY DEF Stage, StageBegins, GetBlob, CreateBinary, WriteBinary, Fails, Begins, Step
<1>2. \A p \in Packagers : p # s
  OBVIOUS
<1> QED BY <1>1, <1>2

(* One that builds and is the latest is the only one that moves.             *)
LEMMA LatestMoves ==
  ASSUME IInv, History, [Next]_vars, NEW p \in Packagers, pc[p] # "new", Latest(p)'
  PROVE  /\ Latest(p)
         /\ \/ Package(p) \/ Fails(p)
            \/ \E s \in Stagers : Stage(s) \/ Fails(s)
            \/ UNCHANGED vars
<1> USE DEF Procs
<1>1. \A q \in Procs : pc[q] # "new" => pc'[q] # "new" /\ before'[q] = before[q]
  BY Moves DEF Rests, Starts, GoesOn
<1>2. Latest(p)
  BY <1>1 DEF Latest, Begun
<1>3. ASSUME NEW q \in Packagers, q # p, Package(q) \/ Fails(q) PROVE FALSE
  <2>1. pc[q] \notin Ended
    BY <1>3 DEF Package, PackageBegins, CreateArchive, WriteArchive, HashArchive,
       RenameArchive, EmptyConfig, FillConfig, WriteManifest, WriteIndex, WritePkg,
       ListBlobs, UploadBlob,
       UploadFails, ReadIndex, PushManifest, PushFails, FailsWriting, Fails, Begins,
       Step, Ended, PackSteps, StageSteps
  <2>2. pc'[q] # "new"
    <3>1. CASE PackageBegins(q)
      BY <3>1 DEF PackageBegins, Begins, IInv, TypeOK, RunTypes
    <3>2. CASE ~PackageBegins(q)
      <4>1. pc[q] # "new"
        BY <1>3, <3>2 DEF Package, CreateArchive, WriteArchive, HashArchive,
           RenameArchive, EmptyConfig, FillConfig, WriteManifest, WriteIndex, WritePkg,
           ListBlobs, UploadBlob,
           UploadFails, ReadIndex, PushManifest, PushFails, FailsWriting, Fails,
           Step, PackSteps, StageSteps
      <4> QED BY <4>1, <1>1
    <3> QED BY <3>1, <3>2
  <2>3. q \in before[p]
    BY <1>1, <1>3, <2>2 DEF Latest, Begun
  <2> QED BY <2>1, <2>3 DEF History
<1> QED BY <1>2, <1>3 DEF Next

(* What a run of package does by itself, step by step.                       *)
LEMMA BuildsStep ==
  ASSUME IInv, NEW p \in Packagers, Latest(p), Builds(p), Package(p) \/ Fails(p),
         UNCHANGED dirs
  PROVE  Builds(p)'
<1> USE DeliveryAssumption
    DEF IInv, TypeOK, FileTypes, RemoteTypes, RunTypes, Procs, Builders, files, registry,
        dirs
<1>1. CASE PackageBegins(p)
  <2>1. pc'[p] = "create"
    BY <1>1 DEF PackageBegins, Begins
  <2> QED BY <2>1 DEF Builds, Well
<1>2. CASE CreateArchive(p)
  <2>1. PICK f \in Packagers :
          /\ tmp' = [tmp EXCEPT ![cwd[p]] = f] /\ data' = [data EXCEPT ![f] = Torn]
          /\ fd' = [fd EXCEPT ![p] = f] /\ pc' = [pc EXCEPT ![p] = "tar"]
    BY <1>2 DEF CreateArchive, Step
  <2>2. tmp'[cwd[p]] = f /\ data'[f] = Torn /\ fd'[p] = f /\ pc'[p] = "tar"
    BY <2>1
  <2> QED BY <2>2 DEF Builds, Well
<1>3. CASE WriteArchive(p)
  <2>1. /\ pc[p] = "tar" /\ pc' = [pc EXCEPT ![p] = "hash"] /\ UNCHANGED tmp
        /\ \E c \in IF Shared(p) THEN {p, Torn} ELSE {p} :
             data' = [data EXCEPT ![fd[p]] = c]
    BY <1>3 DEF WriteArchive, Step
  <2>2. /\ tmp[cwd[p]] = fd[p] /\ data[fd[p]] = Torn /\ fd[p] \in Packagers
        /\ ~Shared(p)
    BY <2>1 DEF Builds, Shared, Latest, Begun
  <2>3. data'[fd[p]] = p /\ pc'[p] = "hash"
    BY <2>1, <2>2
  <2> QED BY <2>1, <2>2, <2>3 DEF Builds, Well
<1>4. CASE HashArchive(p)
  <2>1. /\ pc[p] = "hash" /\ pc' = [pc EXCEPT ![p] = "rename"]
        /\ dig' = [dig EXCEPT ![p] = data[tmp[cwd[p]]]]
    BY <1>4 DEF HashArchive, Step
  <2>2. dig'[p] = p /\ pc'[p] = "rename"
    BY <2>1 DEF Builds
  <2> QED BY <2>2 DEF Builds, Well
<1>5. CASE RenameArchive(p)
  <2>1. pc[p] = "rename" /\ pc'[p] = "empty config" /\ dig' = dig
    BY <1>5 DEF RenameArchive, Step
  <2> QED BY <2>1 DEF Builds, Well
<1>6. CASE WriteManifest(p)
  <2>1. pc[p] = "write manifest" /\ pc'[p] = "write index" /\ dig' = dig
    BY <1>6 DEF WriteManifest, Step
  <2> QED BY <2>1 DEF Builds, Well
<1>7. CASE WriteIndex(p)
  <2>1. pc[p] = "write index" /\ pc'[p] = "write pkg" /\ index'[cwd[p]] = dig[p]
    BY <1>7 DEF WriteIndex, Step
  <2> QED BY <2>1 DEF Builds, Well
<1>8. CASE WritePkg(p)
  <2>1. pc[p] = "write pkg" /\ pc'[p] = "list" /\ index' = index
    BY <1>8 DEF WritePkg, Step
  <2> QED BY <2>1 DEF Builds, Well
<1>9. CASE ListBlobs(p)
  <2>1. pc[p] = "list" /\ pc'[p] = "upload" /\ index' = index
    BY <1>9 DEF ListBlobs, Step
  <2> QED BY <2>1 DEF Builds, Well
<1>10. CASE UploadBlob(p)
  <2>1. pc[p] = "upload" /\ pc'[p] = "upload" /\ index' = index
    BY <1>10 DEF UploadBlob, Step
  <2> QED BY <2>1 DEF Builds, Well
<1>11. CASE UploadFails(p)
  <2>1. pc[p] = "upload" /\ pc'[p] = "upload" /\ index' = index
    BY <1>11 DEF UploadFails, Step
  <2> QED BY <2>1 DEF Builds, Well
<1>12. CASE ReadIndex(p)
  <2>1. pc[p] = "upload" /\ pc'[p] = "push" /\ dig'[p] = index[wd[p]]
    BY <1>12 DEF ReadIndex, Step
  <2> QED BY <2>1 DEF Builds, Well
<1>13. CASE PushManifest(p)
  <2>1. pc[p] = "push" /\ pc'[p] = "done" /\ tag' = dig[p]
    BY <1>13 DEF PushManifest, Step
  <2> QED BY <2>1 DEF Builds, Well
<1>14. CASE PushFails(p)
  <2>1. pc'[p] = "done" /\ lost'[p] = lost[p] \union {dig[p]}
    BY <1>14 DEF PushFails, Step
  <2> QED BY <2>1 DEF Builds, Well
<1>15. CASE FailsWriting(p) \/ Fails(p)
  <2>1. pc'[p] = "failed"
    BY <1>15 DEF FailsWriting, Fails, Step
  <2> QED BY <2>1 DEF Builds, Well
<1>16. CASE EmptyConfig(p)
  <2>1. pc[p] = "empty config" /\ pc'[p] = "fill config" /\ dig' = dig
    BY <1>16 DEF EmptyConfig, Step
  <2> QED BY <2>1 DEF Builds, Well
<1>17. CASE FillConfig(p)
  <2>1. pc[p] = "fill config" /\ pc'[p] = "write manifest" /\ dig' = dig
    BY <1>17 DEF FillConfig, Step
  <2> QED BY <2>1 DEF Builds, Well
<1> QED
  BY <1>1, <1>2, <1>3, <1>4, <1>5, <1>6, <1>7, <1>8, <1>9, <1>10, <1>11, <1>12,
     <1>13, <1>14, <1>15, <1>16, <1>17 DEF Package

LEMMA BuiltStep ==
  ASSUME IInv, History, Built, [Next]_vars
  PROVE  Built'
<1> USE DEF Procs
<1> SUFFICES ASSUME NEW p \in Packagers, Latest(p)' PROVE Builds(p)'
  BY DEF Built
<1>1. CASE pc[p] = "new"
  <2>1. pc'[p] \in {"new", "create", "get blob"}
    BY <1>1, Moves DEF Rests, Starts, GoesOn, PackSteps, StageSteps
  <2> QED BY <2>1 DEF Builds, Builders, Well
<1>2. CASE pc[p] # "new"
  <2>1. Latest(p) /\ Builds(p)
    BY <1>2, LatestMoves DEF Built
  <2>2. UNCHANGED dirs
    BY DirsStay DEF dirs
  <2>3. CASE Package(p) \/ Fails(p)
    BY <2>1, <2>2, <2>3, BuildsStep
  <2>4. ASSUME NEW s \in Stagers, Stage(s) \/ Fails(s) PROVE Builds(p)'
    BY <2>1, <2>2, <2>4, StagerFrame DEF Builds, Well, files, dirs
  <2>5. CASE UNCHANGED vars
    BY <2>1, <2>5 DEF Builds, Well, vars, files, registry, dirs
  <2> QED BY <1>2, <2>3, <2>4, <2>5, LatestMoves
<1> QED BY <1>1, <1>2

(* A stage that begins after p takes what p pushed; then p, which has ended, *)
(* and what the stage read stay as they are.                                 *)
LEMMA CarriedStep ==
  ASSUME IInv, History, Built, Carried, [Next]_vars
  PROVE  Carried'
<1> USE DeliveryAssumption DEF Procs
<1> SUFFICES ASSUME NEW p \in Packagers, NEW s \in Stagers,
                    Well(p)', Begun(s)', p \in before'[s], Until(p, s)'
             PROVE  dig'[s] = p
  BY DEF Carried
<1>0. /\ cwd' = cwd /\ wd' = wd
      /\ \A q \in Procs : pc[q] # "new" => pc'[q] # "new" /\ before'[q] = before[q]
      /\ \A q \in Procs : pc[q] \in Ended => pc'[q] = pc[q]
  BY DirsStay, Moves DEF Rests, Starts, GoesOn, PackSteps, StageSteps, Ended
<1>1. pc[p] \in Ended
  BY Moves DEF Rests, Starts, GoesOn, History
<1>2. Well(p)
  <2>1. lost'[p] = lost[p]
    <3>1. ASSUME NEW q \in Packagers, Package(q) \/ Fails(q) PROVE lost'[p] = lost[p]
      BY <1>1, <3>1 DEF Package, PackageBegins, CreateArchive, WriteArchive, HashArchive,
         RenameArchive, EmptyConfig, FillConfig, WriteManifest, WriteIndex, WritePkg,
         ListBlobs, UploadBlob,
         UploadFails, ReadIndex, PushManifest, PushFails, FailsWriting, Fails, Step,
         Ended, IInv, TypeOK, RunTypes
    <3>2. ASSUME NEW t \in Stagers, Stage(t) \/ Fails(t) PROVE lost'[p] = lost[p]
      BY <3>2, StagerFrame
    <3>3. CASE UNCHANGED vars
      BY <3>3 DEF vars
    <3> QED BY <3>1, <3>2, <3>3 DEF Next
  <2> QED BY <1>0, <1>1, <2>1 DEF Well
<1>3. CASE pc[s] = "new"
  <2>1. Starts(s)
    BY <1>3, Moves DEF Rests, Starts, GoesOn, Begun, PackSteps, StageSteps
  <2>2. StageBegins(s)
    <3>1. ASSUME NEW q \in Packagers, Package(q) \/ Fails(q) PROVE FALSE
      BY <2>1, <3>1, PackagerFrame DEF Starts
    <3>2. ASSUME NEW t \in Stagers, Fails(t) PROVE FALSE
      BY <2>1, <3>2 DEF Starts, Fails, Step, IInv, TypeOK, RunTypes, PackSteps, StageSteps
    <3>3. ASSUME NEW t \in Stagers, Stage(t) PROVE StageBegins(s)
      BY <2>1, <3>3 DEF Starts, Stage, StageBegins, GetBlob, CreateBinary, WriteBinary,
         Begins, Step, IInv, TypeOK, RunTypes
    <3>4. CASE UNCHANGED vars
      BY <2>1, <3>4 DEF Starts, vars
    <3> QED BY <3>1, <3>2, <3>3, <3>4 DEF Next
  <2>3. dig'[s] = tag
    BY <2>2 DEF StageBegins, IInv, TypeOK, RunTypes
  <2>4. Latest(p)
    <3>1. SUFFICES ASSUME NEW q \in Packagers \ {p}, Begun(q) PROVE q \in before[p]
      BY DEF Latest
    <3>2. pc[q] # "new" /\ q # s /\ pc[p] # "new"
      BY <1>1, <3>1 DEF Begun, Ended
    <3>3. Begun(q)' /\ before'[q] = before[q] /\ before'[p] = before[p]
      BY <1>0, <3>2 DEF Begun
    <3>4. s \notin before[q]
      BY <1>3 DEF History, Ended
    <3> QED BY <3>1, <3>3, <3>4 DEF Until
  <2> QED BY <1>2, <2>3, <2>4 DEF Built, Builds
<1>4. CASE pc[s] # "new"
  <2>1. p \in before[s] /\ pc[p] # "new"
    BY <1>0, <1>1, <1>4 DEF Ended
  <2>2. Until(p, s)
    BY <1>0, <2>1 DEF Until, Begun
  <2>3. dig'[s] = dig[s]
    <3>1. ASSUME NEW q \in Packagers, Package(q) \/ Fails(q) PROVE dig'[s] = dig[s]
      BY <3>1, PackagerFrame
    <3>2. ASSUME NEW t \in Stagers, Stage(t) \/ Fails(t) PROVE dig'[s] = dig[s]
      BY <1>4, <3>2 DEF Stage, StageBegins, GetBlob, CreateBinary, WriteBinary, Fails,
         Begins, Step, IInv, TypeOK, RunTypes
    <3>3. CASE UNCHANGED vars
      BY <3>3 DEF vars
    <3> QED BY <3>1, <3>2, <3>3 DEF Next
  <2> QED BY <1>2, <1>4, <2>1, <2>2, <2>3 DEF Carried, Begun
<1> QED BY <1>3, <1>4

(* The last stage for a host is the only one that touches its binary.        *)
LEMMA LeftStep ==
  ASSUME IInv, History, Left, [Next]_vars
  PROVE  Left'
<1> USE DeliveryAssumption DEF Procs
<1> SUFFICES ASSUME NEW s \in Stagers, LastStaged(s)' PROVE Holds(s)'
  BY DEF Left
<1> DEFINE h == HostOf[s]
<1>0. \A q \in Procs : pc[q] # "new" => pc'[q] # "new" /\ before'[q] = before[q]
  BY Moves DEF Rests, Starts, GoesOn
<1>1. CASE pc[s] = "new"
  <2>1. pc'[s] \in {"new", "create", "get blob"}
    BY <1>1, Moves DEF Rests, Starts, GoesOn, PackSteps, StageSteps
  <2> QED BY <2>1 DEF Holds
<1>2. CASE pc[s] # "new"
  <2>1. LastStaged(s) /\ Holds(s)
    BY <1>0, <1>2 DEF LastStaged, Begun, Left
  <2>2. ASSUME NEW q \in Packagers, Package(q) \/ Fails(q) PROVE Holds(s)'
    BY <2>1, <2>2, PackagerFrame DEF Holds
  <2>3. ASSUME NEW t \in Stagers, t # s, Stage(t) \/ Fails(t) PROVE Holds(s)'
    <3>1. pc'[s] = pc[s] /\ dig'[s] = dig[s]
      BY <2>3 DEF Stage, StageBegins, GetBlob, CreateBinary, WriteBinary, Fails,
         Begins, Step, IInv, TypeOK, RunTypes
    <3>2. binary'[h] = binary[h]
      <4>1. CASE HostOf[t] # h
        BY <2>3, <4>1 DEF Stage, StageBegins, GetBlob, CreateBinary, WriteBinary, Fails,
           IInv, TypeOK, RemoteTypes
      <4>2. CASE HostOf[t] = h
        <5>1. ~CreateBinary(t) /\ ~WriteBinary(t)
          <6>1. SUFFICES ASSUME CreateBinary(t) \/ WriteBinary(t) PROVE FALSE
            OBVIOUS
          <6>2. pc[t] \in StageSteps
            BY <6>1 DEF CreateBinary, WriteBinary, Step, StageSteps
          <6>3. t \in before[s]
            BY <2>1, <2>3, <4>2, <6>2 DEF LastStaged, Begun, StageSteps
          <6> QED BY <6>2, <6>3 DEF History, StageSteps, Ended
        <5> QED BY <2>3, <5>1 DEF Stage, StageBegins, GetBlob, Fails
      <4> QED BY <4>1, <4>2
    <3> QED BY <2>1, <3>1, <3>2 DEF Holds
  <2>4. CASE Stage(s) \/ Fails(s)
    <3>1. CASE StageBegins(s) \/ GetBlob(s) \/ Fails(s)
      <4>1. pc'[s] \in {"get blob", "create binary", "failed"}
        BY <3>1 DEF StageBegins, GetBlob, Fails, Begins, Step, IInv, TypeOK, RunTypes
      <4> QED BY <4>1 DEF Holds
    <3>2. CASE CreateBinary(s)
      <4>1. pc'[s] = "write binary" /\ binary'[h] = [by |-> s, of |-> Torn]
        BY <3>2 DEF CreateBinary, Step, IInv, TypeOK, RunTypes, RemoteTypes
      <4>2. [by |-> s, of |-> Torn].by = s
        OBVIOUS
      <4>3. binary'[h].by = s
        BY <4>1, <4>2
      <4> QED BY <4>1, <4>3 DEF Holds
    <3>3. CASE WriteBinary(s)
      <4>1. pc[s] = "write binary" /\ pc'[s] = "done" /\ dig'[s] = dig[s]
        BY <3>3 DEF WriteBinary, Step, IInv, TypeOK, RunTypes
      <4>2. binary'[h] = [by |-> s, of |-> dig[s]]
        BY <2>1, <3>3, <4>1 DEF Holds, WriteBinary, IInv, TypeOK, RemoteTypes
      <4> QED BY <4>1, <4>2 DEF Holds
    <3> QED BY <2>4, <3>1, <3>2, <3>3 DEF Stage
  <2>5. CASE UNCHANGED vars
    BY <2>1, <2>5 DEF Holds, vars
  <2> QED BY <2>2, <2>3, <2>4, <2>5 DEF Next
<1> QED BY <1>1, <1>2

LEMMA DeliversAlways == Spec => []Delivers
<1>1. Init => Delivers
  BY DEF Init, Delivers, Built, Builds, Builders, Well, Carried, Left, Holds, Begun, Procs
<1>2. IInv /\ History /\ Delivers /\ [Next]_vars => Delivers'
  BY BuiltStep, CarriedStep, LeftStep DEF Delivers
<1> QED BY <1>1, <1>2, IInvAlways, HistoryAlways, PTL DEF Spec

(* A host has what was built for it, when package and then stage went well   *)
(* and nothing came between: for any number of runs, directories and hosts,  *)
(* whatever went before and however it ended.                                *)
THEOREM DeliveredCorrect == Spec => []DeliveredInTurn
<1>1. Delivers => DeliveredInTurn
  <2> SUFFICES ASSUME Delivers, NEW p \in Packagers, NEW s \in Stagers,
                      Well(p), pc[s] = "done", InTurn(p, s)
               PROVE  binary[HostOf[s]] = [by |-> s, of |-> p]
    BY DEF DeliveredInTurn, Well
  <2>1. p \in before[s] /\ Until(p, s) /\ LastStaged(s)
    BY DEF InTurn, Until, LastStaged
  <2> QED BY <2>1 DEF Delivers, Carried, Left, Holds, Begun
<1> QED BY <1>1, DeliversAlways, PTL
===============================================================================
