----------------------------- MODULE SigningProofs -----------------------------
(***************************************************************************)
(* Proofs about Signing, for any number of processes, artifacts and        *)
(* contents: the types, that only what was signed is trusted or referred   *)
(* to, that runs of keypair that took turns leave a pair that matches, and *)
(* that what was signed in turn is trusted.                                *)
(***************************************************************************)
EXTENDS Signing, TLAPS

LEMMA JobTypes ==
  ASSUME NEW j \in Jobs
  PROVE  /\ j.cmd \in {"sign", "verify"} => j.file \in Files /\ Name[j.file] \in Names
         /\ j.cmd = "refer" =>
              j.name \in Names /\ j.format \in Formats /\ j.subject \in Subjects
BY SigningAssumption DEF Names, Subjects

(* Which command does which steps, and what it knows by then. *)
KeypairSteps == {"write private", "create public", "write public"}
SignSteps    == {"read private", "write copy", "create signature", "write signature"}
VerifySteps  == {"read public", "read signature"}
ReferSteps   == {"write layer", "write config", "write manifest", "write index"}

Knows(p) ==
  /\ pc[p] # "new" => job[p] \in Jobs
  /\ pc[p] \in KeypairSteps => job[p].cmd = "keypair" /\ key[p] = p
  /\ pc[p] \in SignSteps => job[p].cmd = "sign" /\ content[p] \in Contents
  /\ pc[p] \in SignSteps \ {"read private"} => key[p] \in Keys
  /\ pc[p] \in VerifySteps => job[p].cmd = "verify" /\ content[p] \in Contents
  /\ pc[p] \in ReferSteps => job[p].cmd = "refer" /\ sig[p] \in Signature \union {Torn}

Doing == \A p \in Procs : Knows(p)

IInv == TypeOK /\ Doing

(* What a step of p leaves alone. *)
Leaves(p) ==
  \A q \in Procs \ {p} :
    /\ pc'[q] = pc[q] /\ job'[q] = job[q] /\ before'[q] = before[q]
    /\ key'[q] = key[q] /\ content'[q] = content[q] /\ sig'[q] = sig[q]

LEMMA DoingStays ==
  ASSUME Doing, NEW p \in Procs, Leaves(p), Knows(p)'
  PROVE  Doing'
<1> SUFFICES ASSUME NEW q \in Procs PROVE Knows(q)'
  BY DEF Doing
<1>1. CASE q = p
  BY <1>1
<1>2. CASE q # p
  BY <1>2 DEF Doing, Leaves, Knows
<1> QED BY <1>1, <1>2

LEMMA InitIInv == Init => IInv
  BY SigningAssumption
     DEF Init, IInv, TypeOK, Doing, Knows, KeyFile, Keys, Ended, Steps, KeypairSteps,
         SignSteps, VerifySteps, ReferSteps

LEMMA NextIInv == IInv /\ [Next]_vars => IInv'
<1> SUFFICES ASSUME IInv, [Next]_vars PROVE IInv'
  OBVIOUS
<1> USE SigningAssumption
    DEF IInv, TypeOK, KeyFile, Ended, Steps, disk, mind
<1>0. \A p \in Procs : Knows(p)
  BY DEF Doing
<1>1. ASSUME NEW p \in Procs, NEW j \in Jobs, KeypairBegins(p, j) PROVE IInv'
  <2>1. TypeOK'
    BY <1>0, <1>1, JobTypes DEF KeypairBegins, Begins, Keys, Knows, KeypairSteps, SignSteps, VerifySteps, ReferSteps
  <2>2. Leaves(p)
    BY <1>1, ZenonT(60) DEF KeypairBegins, Begins, Keys, Leaves
  <2>3. /\ j \in Jobs /\ j.cmd = "keypair"
        /\ pc'[p] = "write private"
        /\ job'[p] = j
        /\ key'[p] = p
        /\ content'[p] = content[p]
        /\ sig'[p] = sig[p]
    BY <1>1 DEF KeypairBegins, Begins, Keys
  <2>4. Knows(p)'
    <3> HIDE DEF IInv, TypeOK
    <3> QED BY <1>0, <2>3 DEF Knows, KeypairSteps, SignSteps, VerifySteps, ReferSteps
  <2> QED BY <2>1, <2>2, <2>4, DoingStays
<1>2. ASSUME NEW p \in Procs, NEW j \in Jobs, SignBegins(p, j) PROVE IInv'
  <2>1. TypeOK'
    BY <1>0, <1>2, JobTypes, ZenonT(60)
    DEF SignBegins, Begins, Knows, KeypairSteps, SignSteps, VerifySteps, ReferSteps
  <2>2. Leaves(p)
    BY <1>2 DEF SignBegins, Begins, Leaves
  <2>3. /\ j \in Jobs /\ j.cmd = "sign"
        /\ pc'[p] = "read private"
        /\ job'[p] = j
        /\ key'[p] = key[p]
        /\ content'[p] \in Contents
        /\ sig'[p] = sig[p]
    BY <1>2 DEF SignBegins, Begins
  <2>4. Knows(p)'
    <3> HIDE DEF IInv, TypeOK
    <3> QED BY <1>0, <2>3 DEF Knows, KeypairSteps, SignSteps, VerifySteps, ReferSteps
  <2> QED BY <2>1, <2>2, <2>4, DoingStays
<1>3. ASSUME NEW p \in Procs, NEW j \in Jobs, VerifyBegins(p, j) PROVE IInv'
  <2>1. TypeOK'
    BY <1>0, <1>3, JobTypes, ZenonT(60)
    DEF VerifyBegins, Begins, Knows, KeypairSteps, SignSteps, VerifySteps, ReferSteps
  <2>2. Leaves(p)
    BY <1>3 DEF VerifyBegins, Begins, Leaves
  <2>3. /\ j \in Jobs /\ j.cmd = "verify"
        /\ pc'[p] = "read public"
        /\ job'[p] = j
        /\ key'[p] = key[p]
        /\ content'[p] \in Contents
        /\ sig'[p] = sig[p]
    BY <1>3 DEF VerifyBegins, Begins
  <2>4. Knows(p)'
    <3> HIDE DEF IInv, TypeOK
    <3> QED BY <1>0, <2>3 DEF Knows, KeypairSteps, SignSteps, VerifySteps, ReferSteps
  <2> QED BY <2>1, <2>2, <2>4, DoingStays
<1>4. ASSUME NEW p \in Procs, NEW j \in Jobs, ReferBegins(p, j) PROVE IInv'
  <2>1. TypeOK'
    BY <1>0, <1>4, JobTypes, ZenonT(60)
    DEF ReferBegins, Begins, Knows, KeypairSteps, SignSteps, VerifySteps, ReferSteps
  <2>2. Leaves(p)
    BY <1>4 DEF ReferBegins, Begins, Leaves
  <2>3. /\ j \in Jobs /\ j.cmd = "refer"
        /\ pc'[p] # "failed" => signature[j.name] \in Signature \union {Torn}
        /\ pc'[p] \in {"write layer", "failed"}
        /\ job'[p] = j
        /\ key'[p] = key[p]
        /\ content'[p] = content[p]
        /\ sig'[p] = signature[j.name]
    BY <1>4 DEF ReferBegins, Begins
  <2>4. Knows(p)'
    <3> HIDE DEF IInv, TypeOK
    <3> QED BY <1>0, <2>3 DEF Knows, KeypairSteps, SignSteps, VerifySteps, ReferSteps
  <2> QED BY <2>1, <2>2, <2>4, DoingStays
<1>5. ASSUME NEW p \in Procs, WritePrivate(p) PROVE IInv'
  <2>1. TypeOK'
    BY <1>0, <1>5, JobTypes DEF WritePrivate, Step, Knows, KeypairSteps, SignSteps, VerifySteps, ReferSteps
  <2>2. Leaves(p)
    BY <1>5 DEF WritePrivate, Step, Leaves
  <2>3. /\ pc[p] = "write private"
        /\ pc'[p] = "create public"
        /\ job'[p] = job[p]
        /\ key'[p] = key[p]
        /\ content'[p] = content[p]
        /\ sig'[p] = sig[p]
    BY <1>5 DEF WritePrivate, Step
  <2>4. Knows(p)'
    <3> HIDE DEF IInv, TypeOK
    <3> QED BY <1>0, <2>3, ZenonT(60)
            DEF Knows, KeypairSteps, SignSteps, VerifySteps, ReferSteps
  <2> QED BY <2>1, <2>2, <2>4, DoingStays
<1>6. ASSUME NEW p \in Procs, CreatePublic(p) PROVE IInv'
  <2>1. TypeOK'
    BY <1>0, <1>6, JobTypes DEF CreatePublic, Step, Knows, KeypairSteps, SignSteps, VerifySteps, ReferSteps
  <2>2. Leaves(p)
    BY <1>6 DEF CreatePublic, Step, Leaves
  <2>3. /\ pc[p] = "create public"
        /\ pc'[p] = "write public"
        /\ job'[p] = job[p]
        /\ key'[p] = key[p]
        /\ content'[p] = content[p]
        /\ sig'[p] = sig[p]
    BY <1>6 DEF CreatePublic, Step
  <2>4. Knows(p)'
    <3> HIDE DEF IInv, TypeOK
    <3> QED BY <1>0, <2>3, ZenonT(60)
            DEF Knows, KeypairSteps, SignSteps, VerifySteps, ReferSteps
  <2> QED BY <2>1, <2>2, <2>4, DoingStays
<1>7. ASSUME NEW p \in Procs, WritePublic(p) PROVE IInv'
  <2>1. TypeOK'
    BY <1>0, <1>7, JobTypes DEF WritePublic, Step, Knows, KeypairSteps, SignSteps, VerifySteps, ReferSteps
  <2>2. Leaves(p)
    BY <1>7 DEF WritePublic, Step, Leaves
  <2>3. /\ pc[p] = "write public"
        /\ pc'[p] = "done"
        /\ job'[p] = job[p]
        /\ key'[p] = key[p]
        /\ content'[p] = content[p]
        /\ sig'[p] = sig[p]
    BY <1>7 DEF WritePublic, Step
  <2>4. Knows(p)'
    <3> HIDE DEF IInv, TypeOK
    <3> QED BY <1>0, <2>3 DEF Knows, KeypairSteps, SignSteps, VerifySteps, ReferSteps
  <2> QED BY <2>1, <2>2, <2>4, DoingStays
<1>8. ASSUME NEW p \in Procs, ReadPrivate(p) PROVE IInv'
  <2>1. TypeOK'
    BY <1>0, <1>8, JobTypes DEF ReadPrivate, Step, Knows, KeypairSteps, SignSteps, VerifySteps, ReferSteps
  <2>2. Leaves(p)
    BY <1>8 DEF ReadPrivate, Step, Leaves
  <2>3. /\ pc[p] = "read private"
        /\ pc'[p] = IF private \in Keys THEN "write copy" ELSE "failed"
        /\ job'[p] = job[p]
        /\ key'[p] = private
        /\ content'[p] = content[p]
        /\ sig'[p] = sig[p]
    BY <1>8 DEF ReadPrivate, Step
  <2>4. Knows(p)'
    <3> HIDE DEF IInv, TypeOK
    <3> QED BY <1>0, <2>3, ZenonT(60)
            DEF Knows, KeypairSteps, SignSteps, VerifySteps, ReferSteps
  <2> QED BY <2>1, <2>2, <2>4, DoingStays
<1>9. ASSUME NEW p \in Procs, WriteCopy(p) PROVE IInv'
  <2>1. TypeOK'
    BY <1>0, <1>9, JobTypes DEF WriteCopy, Step, Knows, KeypairSteps, SignSteps, VerifySteps, ReferSteps
  <2>2. Leaves(p)
    BY <1>9 DEF WriteCopy, Step, Leaves
  <2>3. /\ pc[p] = "write copy"
        /\ pc'[p] = "create signature"
        /\ job'[p] = job[p]
        /\ key'[p] = key[p]
        /\ content'[p] = content[p]
        /\ sig'[p] = sig[p]
    BY <1>9 DEF WriteCopy, Step
  <2>4. Knows(p)'
    <3> HIDE DEF IInv, TypeOK
    <3> QED BY <1>0, <2>3, ZenonT(60)
            DEF Knows, KeypairSteps, SignSteps, VerifySteps, ReferSteps
  <2> QED BY <2>1, <2>2, <2>4, DoingStays
<1>10. ASSUME NEW p \in Procs, CreateSignature(p) PROVE IInv'
  <2>1. TypeOK'
    BY <1>0, <1>10, JobTypes DEF CreateSignature, Step, Knows, KeypairSteps, SignSteps, VerifySteps, ReferSteps
  <2>2. Leaves(p)
    BY <1>10 DEF CreateSignature, Step, Leaves
  <2>3. /\ pc[p] = "create signature"
        /\ pc'[p] = "write signature"
        /\ job'[p] = job[p]
        /\ key'[p] = key[p]
        /\ content'[p] = content[p]
        /\ sig'[p] = sig[p]
    BY <1>10 DEF CreateSignature, Step
  <2>4. Knows(p)'
    <3> HIDE DEF IInv, TypeOK
    <3> QED BY <1>0, <2>3, ZenonT(60)
            DEF Knows, KeypairSteps, SignSteps, VerifySteps, ReferSteps
  <2> QED BY <2>1, <2>2, <2>4, DoingStays
<1>11. ASSUME NEW p \in Procs, WriteSignature(p) PROVE IInv'
  <2>1. TypeOK'
    BY <1>0, <1>11, JobTypes DEF WriteSignature, Step, Signature, Knows, KeypairSteps, SignSteps, VerifySteps, ReferSteps
  <2>2. Leaves(p)
    BY <1>11 DEF WriteSignature, Step, Signature, Leaves
  <2>3. /\ pc[p] = "write signature"
        /\ pc'[p] = "done"
        /\ job'[p] = job[p]
        /\ key'[p] = key[p]
        /\ content'[p] = content[p]
        /\ sig'[p] = sig[p]
    BY <1>11 DEF WriteSignature, Step, Signature
  <2>4. Knows(p)'
    <3> HIDE DEF IInv, TypeOK
    <3> QED BY <1>0, <2>3 DEF Knows, KeypairSteps, SignSteps, VerifySteps, ReferSteps
  <2> QED BY <2>1, <2>2, <2>4, DoingStays
<1>12. ASSUME NEW p \in Procs, ReadPublic(p) PROVE IInv'
  <2>1. TypeOK'
    BY <1>0, <1>12, JobTypes DEF ReadPublic, Step, Knows, KeypairSteps, SignSteps, VerifySteps, ReferSteps
  <2>2. Leaves(p)
    BY <1>12 DEF ReadPublic, Step, Leaves
  <2>3. /\ pc[p] = "read public"
        /\ pc'[p] \in {"failed", "read signature"}
        /\ job'[p] = job[p]
        /\ key'[p] = public
        /\ content'[p] = content[p]
        /\ sig'[p] = sig[p]
    BY <1>12 DEF ReadPublic, Step
  <2>4. Knows(p)'
    <3> HIDE DEF IInv, TypeOK
    <3> QED BY <1>0, <2>3, ZenonT(60)
            DEF Knows, KeypairSteps, SignSteps, VerifySteps, ReferSteps
  <2> QED BY <2>1, <2>2, <2>4, DoingStays
<1>13. ASSUME NEW p \in Procs, Verify(p) PROVE IInv'
  <2>1. TypeOK'
    <3>1. PICK v \in {"trusted", "untrusted", "failed"} : pc' = [pc EXCEPT ![p] = v]
      BY <1>13 DEF Verify, Step, Verdict
    <3>2. UNCHANGED <<disk, job, mind, before>>
      BY <1>13 DEF Verify, Step
    <3>3. pc' \in [Procs -> {"new"} \union Steps \union Ended]
      BY <3>1
    <3> QED BY <3>2, <3>3
  <2>2. Leaves(p)
    BY <1>13, ZenonT(60) DEF Verify, Step, Verdict, Leaves
  <2>3. /\ pc[p] = "read signature"
        /\ pc'[p] \in {"trusted", "untrusted", "failed"}
        /\ job'[p] = job[p]
        /\ key'[p] = key[p]
        /\ content'[p] = content[p]
        /\ sig'[p] = sig[p]
    BY <1>13, ZenonT(60) DEF Verify, Step, Verdict
  <2>4. Knows(p)'
    <3> HIDE DEF IInv, TypeOK
    <3> QED BY <1>0, <2>3 DEF Knows, KeypairSteps, SignSteps, VerifySteps, ReferSteps
  <2> QED BY <2>1, <2>2, <2>4, DoingStays
<1>14. ASSUME NEW p \in Procs, WriteBlobs(p) PROVE IInv'
  <2>1. TypeOK'
    <3>1. PICK to \in {"write config", "write manifest", "write index"} :
            pc' = [pc EXCEPT ![p] = to]
      BY <1>14 DEF WriteBlobs, WriteBlob, Step
    <3>2. UNCHANGED <<artifact, copy, private, public, signature, index, job, mind, before>>
      BY <1>14 DEF WriteBlobs, WriteBlob, Step
    <3>3. pc' \in [Procs -> {"new"} \union Steps \union Ended]
      BY <3>1
    <3> QED BY <3>2, <3>3
  <2>2. Leaves(p)
    BY <1>14 DEF WriteBlobs, Step, WriteBlob, WriteOf, Leaves
  <2>3. /\ pc[p] \in {"write layer", "write config", "write manifest"}
        /\ pc'[p] \in {"write config", "write manifest", "write index"}
        /\ job'[p] = job[p]
        /\ key'[p] = key[p]
        /\ content'[p] = content[p]
        /\ sig'[p] = sig[p]
    BY <1>14 DEF WriteBlobs, Step, WriteBlob, WriteOf
  <2>4. Knows(p)'
    <3> HIDE DEF IInv, TypeOK
    <3> QED BY <1>0, <2>3 DEF Knows, KeypairSteps, SignSteps, VerifySteps, ReferSteps
  <2> QED BY <2>1, <2>2, <2>4, DoingStays
<1>15. ASSUME NEW p \in Procs, WriteIndex(p) PROVE IInv'
  <2>1. TypeOK'
    <3>1. ReferralOf(p) \in Referral
      BY <1>0, <1>15, JobTypes
         DEF WriteIndex, Step, ReferralOf, Referral, Knows, ReferSteps
    <3>2. job[p].name \in Names /\ job[p].format \in Formats
      BY <1>0, <1>15, JobTypes DEF WriteIndex, Step, Knows, ReferSteps
    <3>3. index' \in [Names -> [Formats -> Referral \union {Missing, Torn}]]
      <4>1. index' = [index EXCEPT ![job[p].name][job[p].format] = ReferralOf(p)]
        BY <1>15 DEF WriteIndex
      <4> HIDE DEF ReferralOf
      <4> QED BY <3>1, <3>2, <4>1
    <3>4. UNCHANGED <<artifact, copy, private, public, signature, job, mind, before>>
      BY <1>15 DEF WriteIndex, Step
    <3>5. pc' = [pc EXCEPT ![p] = "done"]
      BY <1>15 DEF WriteIndex, Step
    <3> QED BY <3>3, <3>4, <3>5
  <2>2. Leaves(p)
    BY <1>15 DEF WriteIndex, Step, Leaves
  <2>3. /\ pc[p] = "write index"
        /\ pc'[p] = "done"
        /\ job'[p] = job[p]
        /\ key'[p] = key[p]
        /\ content'[p] = content[p]
        /\ sig'[p] = sig[p]
    BY <1>15 DEF WriteIndex, Step
  <2>4. Knows(p)'
    <3> HIDE DEF IInv, TypeOK
    <3> QED BY <1>0, <2>3 DEF Knows, KeypairSteps, SignSteps, VerifySteps, ReferSteps
  <2> QED BY <2>1, <2>2, <2>4, DoingStays
<1>16. ASSUME NEW p \in Procs, Dies(p) PROVE IInv'
  <2>1. TypeOK'
    BY <1>0, <1>16, JobTypes DEF Dies, Step, Running, Knows, KeypairSteps, SignSteps, VerifySteps, ReferSteps
  <2>2. Leaves(p)
    BY <1>16 DEF Dies, Step, Running, Leaves
  <2>3. /\ pc[p] # "new"
        /\ pc'[p] = "failed"
        /\ job'[p] = job[p]
        /\ key'[p] = key[p]
        /\ content'[p] = content[p]
        /\ sig'[p] = sig[p]
    BY <1>16 DEF Dies, Step, Running
  <2>4. Knows(p)'
    <3> HIDE DEF IInv, TypeOK
    <3> QED BY <1>0, <2>3 DEF Knows, KeypairSteps, SignSteps, VerifySteps, ReferSteps
  <2> QED BY <2>1, <2>2, <2>4, DoingStays
<1>17. ASSUME NEW p \in Procs, DiesWriting(p) PROVE IInv'
  <2>1. TypeOK'
    <3>1. /\ pc' = [pc EXCEPT ![p] = "failed"]
          /\ UNCHANGED <<artifact, private, public, signature, job, mind, before>>
      BY <1>17 DEF DiesWriting, Step
    <3>2. copy' \in [Files -> Contents \union {Missing, Torn}]
      <4>1. CASE pc[p] = "write copy"
        <5>1. job[p].file \in Files
          BY <1>0, <4>1, JobTypes DEF Knows, SignSteps
        <5>2. copy' = copy \/ copy' = [copy EXCEPT ![job[p].file] = Torn]
          BY <1>17 DEF DiesWriting
        <5> QED BY <5>1, <5>2
      <4>2. CASE pc[p] # "write copy"
        <5>1. copy' = copy
          BY <1>17, <4>2 DEF DiesWriting, Step
        <5> QED BY <5>1
      <4> QED BY <4>1, <4>2
    <3>3. index' \in [Names -> [Formats -> Referral \union {Missing, Torn}]]
      <4>1. CASE pc[p] = "write index"
        <5>1. job[p].name \in Names /\ job[p].format \in Formats
          BY <1>0, <4>1, JobTypes DEF Knows, ReferSteps
        <5>2. index' = index \/ index' = [index EXCEPT ![job[p].name][job[p].format] = Torn]
          BY <1>17 DEF DiesWriting
        <5>3. CASE index' = [index EXCEPT ![job[p].name][job[p].format] = Torn]
          BY <5>1, <5>3
        <5> QED BY <5>2, <5>3
      <4>2. CASE pc[p] # "write index"
        <5>1. index' = index
          BY <1>17, <4>2 DEF DiesWriting, Step
        <5> QED BY <5>1
      <4> QED BY <4>1, <4>2
    <3> QED BY <3>1, <3>2, <3>3
  <2>2. Leaves(p)
    BY <1>17 DEF DiesWriting, Step, WriteOf, Leaves
  <2>3. /\ pc[p] # "new"
        /\ pc'[p] = "failed"
        /\ job'[p] = job[p]
        /\ key'[p] = key[p]
        /\ content'[p] = content[p]
        /\ sig'[p] = sig[p]
    <3>1. pc[p] \in {"write copy", "write layer", "write config", "write manifest", "write index"}
      <4>1. \A part \in {"layer", "config", "manifest"} :
              WriteOf[part] \in {"write layer", "write config", "write manifest"}
        <5>1. /\ WriteOf["layer"] = "write layer" /\ WriteOf["config"] = "write config"
              /\ WriteOf["manifest"] = "write manifest"
          BY DEF WriteOf
        <5> QED BY <5>1
      <4> QED BY <1>17, <4>1 DEF DiesWriting, Step
    <3> QED BY <1>17, <3>1 DEF DiesWriting, Step
  <2>4. Knows(p)'
    <3> HIDE DEF IInv, TypeOK
    <3> QED BY <1>0, <2>3 DEF Knows, KeypairSteps, SignSteps, VerifySteps, ReferSteps
  <2> QED BY <2>1, <2>2, <2>4, DoingStays
<1>18. ASSUME NEW f \in Files, Build(f) PROVE IInv'
  <2>1. TypeOK'
    <3>1. artifact' \in [Files -> Contents]
      BY <1>18 DEF Build
    <3>2. UNCHANGED <<copy, private, public, signature, blobs, index, pc, job, mind, before>>
      BY <1>18 DEF Build
    <3> QED BY <3>1, <3>2
  <2>2. UNCHANGED <<pc, job, key, content, sig>>
    BY <1>18 DEF Build
  <2>3. Doing'
    <3> HIDE DEF IInv, TypeOK
    <3> QED BY <1>0, <2>2 DEF Doing, Knows
  <2> QED BY <2>1, <2>3
<1>19. CASE UNCHANGED vars
  BY <1>19 DEF vars, Doing, Knows
<1> QED
  BY <1>1, <1>2, <1>3, <1>4, <1>5, <1>6, <1>7, <1>8, <1>9, <1>10, <1>11, <1>12, <1>13, <1>14, <1>15, <1>16, <1>17, <1>18, <1>19 DEF Next, Begin, Continue

LEMMA IInvAlways == Spec => []IInv
  BY InitIInv, NextIInv, PTL DEF Spec

(* Every variable has its type, for any number of processes, artifacts and  *)
(* sub commands.                                                            *)
THEOREM TypeCorrect == Spec => []TypeOK
  BY IInvAlways, PTL DEF IInv

-------------------------------------------------------------------------------
(* A step moves one process at most, and none that has ended. *)
Starts(p) ==
  /\ pc[p] = "new" /\ pc'[p] \in Steps \union {"failed"} /\ pc'[p] # "write signature"
  /\ job'[p] \in Jobs
  /\ before'[p] = {q \in Procs : pc[q] \in Ended}

GoesOn(p) ==
  /\ pc[p] \in Steps /\ pc'[p] \in Steps \union Ended
  /\ job'[p] = job[p] /\ before'[p] = before[p]

Rests == UNCHANGED <<pc, job, before, key, content, sig>>

LEMMA Moves ==
  ASSUME IInv, [Next]_vars
  PROVE  Rests \/ \E p \in Procs : Leaves(p) /\ (Starts(p) \/ GoesOn(p))
<1> USE DEF IInv, TypeOK, disk, mind
<1>1. ASSUME NEW p \in Procs, NEW j \in Jobs,
             \/ KeypairBegins(p, j) \/ SignBegins(p, j) \/ VerifyBegins(p, j) \/ ReferBegins(p, j)
      PROVE  Leaves(p) /\ Starts(p)
  <2>1. PICK to \in (Steps \union {"failed"}) \ {"write signature"} : Begins(p, j, to)
    BY <1>1 DEF KeypairBegins, SignBegins, VerifyBegins, ReferBegins, Steps
  <2>2. /\ pc[p] = "new" /\ pc' = [pc EXCEPT ![p] = to] /\ job' = [job EXCEPT ![p] = j]
        /\ before' = [before EXCEPT ![p] = {q \in Procs : pc[q] \in Ended}]
    BY <2>1 DEF Begins
  <2>3. /\ \A q \in Procs \ {p} : pc'[q] = pc[q] /\ job'[q] = job[q]
        /\ pc'[p] = to /\ job'[p] = j
    BY <2>2
  <2>4. /\ \A q \in Procs \ {p} : before'[q] = before[q]
        /\ before'[p] = {q \in Procs : pc[q] \in Ended}
    BY <2>2
  <2>5. \A q \in Procs \ {p} : key'[q] = key[q] /\ content'[q] = content[q] /\ sig'[q] = sig[q]
    BY <1>1 DEF KeypairBegins, SignBegins, VerifyBegins, ReferBegins
  <2> QED BY <2>2, <2>3, <2>4, <2>5 DEF Leaves, Starts
<1>2. ASSUME NEW p \in Procs, Continue(p) \/ Dies(p) \/ DiesWriting(p)
      PROVE  Leaves(p) /\ GoesOn(p)
  <2>0. \A part \in {"layer", "config", "manifest"} : WriteOf[part] \in Steps
    <3>1. /\ WriteOf["layer"] = "write layer" /\ WriteOf["config"] = "write config"
          /\ WriteOf["manifest"] = "write manifest"
      BY DEF WriteOf
    <3> QED BY <3>1 DEF Steps
  <2>1. /\ \E to \in Steps \union Ended : pc' = [pc EXCEPT ![p] = to]
        /\ pc[p] \in Steps /\ UNCHANGED <<job, before>>
    <3>1. CASE Continue(p) /\ ~WriteBlobs(p)
      BY <3>1 DEF Continue, WritePrivate, CreatePublic, WritePublic, ReadPrivate, WriteCopy,
         CreateSignature, WriteSignature, ReadPublic, Verify, Verdict, WriteIndex, Step,
         Steps, Ended
    <3>2. CASE WriteBlobs(p)
      BY <3>2, <2>0 DEF WriteBlobs, WriteBlob, Step, Steps
    <3>3. CASE Dies(p)
      BY <3>3 DEF Dies, Running, Ended
    <3>4. CASE DiesWriting(p)
      BY <3>4, <2>0 DEF DiesWriting, Step, Steps, Ended
    <3> QED BY <1>2, <3>1, <3>2, <3>3, <3>4
  <2>2. \A q \in Procs \ {p} : key'[q] = key[q] /\ content'[q] = content[q] /\ sig'[q] = sig[q]
    BY <1>2 DEF Continue, WritePrivate, CreatePublic, WritePublic, ReadPrivate, WriteCopy,
       CreateSignature, WriteSignature, ReadPublic, Verify, WriteBlobs, WriteBlob,
       WriteIndex, Dies, DiesWriting, Step
  <2> QED BY <2>1, <2>2 DEF Leaves, GoesOn
<1>3. ASSUME NEW f \in Files, Build(f) PROVE Rests
  BY <1>3 DEF Build, Rests
<1>4. CASE UNCHANGED vars
  BY <1>4 DEF vars, Rests
<1> QED BY <1>1, <1>2, <1>3, <1>4 DEF Next, Begin

(* A process that has ended stays as it is. *)
LEMMA EndedStays ==
  ASSUME IInv, [Next]_vars, NEW s \in Procs, pc[s] \in Ended
  PROVE  /\ pc'[s] = pc[s] /\ job'[s] = job[s] /\ before'[s] = before[s]
         /\ key'[s] = key[s] /\ content'[s] = content[s] /\ sig'[s] = sig[s]
BY Moves DEF Rests, Leaves, Starts, GoesOn, Steps, Ended

(* One that has begun keeps its job and what came before it. *)
LEMMA BegunStays ==
  ASSUME IInv, [Next]_vars, NEW s \in Procs, pc[s] # "new"
  PROVE  pc'[s] # "new" /\ job'[s] = job[s] /\ before'[s] = before[s]
BY Moves DEF Rests, Leaves, Starts, GoesOn, Steps, Ended

History ==
  \A p \in Procs : p \notin before[p] /\ \A q \in before[p] : pc[q] \in Ended

LEMMA HistoryAlways == Spec => []History
<1>1. Init => History
  BY DEF Init, History
<1>2. IInv /\ History /\ [Next]_vars => History'
  <2> SUFFICES ASSUME IInv, History, [Next]_vars PROVE History'
    OBVIOUS
  <2> USE DEF History, IInv, TypeOK
  <2>1. CASE Rests
    BY <2>1 DEF Rests
  <2>2. ASSUME NEW p \in Procs, Leaves(p), Starts(p) PROVE History'
    BY <2>2, ZenonT(60) DEF Leaves, Starts, Ended
  <2>3. ASSUME NEW p \in Procs, Leaves(p), GoesOn(p) PROVE History'
    BY <2>3 DEF Leaves, GoesOn, Steps, Ended
  <2> QED BY <2>1, <2>2, <2>3, Moves
<1> QED BY <1>1, <1>2, IInvAlways, PTL DEF Spec

-------------------------------------------------------------------------------
(* Whose signature is on disk. *)
Wrote(s, n, g) ==
  /\ SignsAs(s, n) /\ pc[s] = "done"
  /\ g = [key |-> key[s], content |-> content[s]]

Stored ==
  \A n \in Names : signature[n] \in Signature => \E s \in Procs : Wrote(s, n, signature[n])

LEMMA WroteStays ==
  ASSUME IInv, [Next]_vars, NEW s \in Procs, pc[s] = "done"
  PROVE  /\ pc'[s] = "done" /\ job'[s] = job[s] /\ key'[s] = key[s]
         /\ content'[s] = content[s]
BY EndedStays DEF Ended

(* Only two steps touch a signature. *)
LEMMA SignatureStays ==
  ASSUME IInv, [Next]_vars, \A p \in Procs : ~CreateSignature(p) /\ ~WriteSignature(p)
  PROVE  signature' = signature
BY ZenonT(60)
DEF Next, vars, disk, Begin, Continue, KeypairBegins, SignBegins, VerifyBegins,
   ReferBegins, WritePrivate, CreatePublic, WritePublic, ReadPrivate, WriteCopy,
   ReadPublic, Verify, WriteBlobs, WriteBlob, WriteIndex, Dies, DiesWriting, Build

LEMMA StoredAlways == Spec => []Stored
<1>1. Init => Stored
  BY SigningAssumption DEF Init, Stored
<1>2. IInv /\ Stored /\ [Next]_vars => Stored'
  <2> SUFFICES ASSUME IInv, Stored, [Next]_vars,
                      NEW n \in Names, signature'[n] \in Signature
               PROVE  \E s \in Procs : Wrote(s, n, signature[n])'
    BY DEF Stored
  <2>1. ASSUME signature'[n] = signature[n]
        PROVE  \E s \in Procs : Wrote(s, n, signature[n])'
    <3>1. PICK s \in Procs : Wrote(s, n, signature[n])
      BY <2>1 DEF Stored
    <3>2. Wrote(s, n, signature[n])'
      BY <2>1, <3>1, WroteStays DEF Wrote, SignsAs, Runs, Begun
    <3> QED BY <3>2
  <2>2. ASSUME NEW p \in Procs, CreateSignature(p)
        PROVE  \E s \in Procs : Wrote(s, n, signature[n])'
    <3>1. CASE n = Name[job[p].file]
      BY <2>2, <3>1, SigningAssumption DEF CreateSignature, IInv, TypeOK
    <3>2. CASE n # Name[job[p].file]
      BY <2>1, <2>2, <3>2 DEF CreateSignature, IInv, TypeOK
    <3> QED BY <3>1, <3>2
  <2>3. ASSUME NEW p \in Procs, WriteSignature(p)
        PROVE  \E s \in Procs : Wrote(s, n, signature[n])'
    <3>1. CASE n = Name[job[p].file]
      <4>1. signature'[n] = [key |-> key[p], content |-> content[p]]
        BY <2>3, <3>1 DEF WriteSignature, IInv, TypeOK
      <4>2. /\ pc'[p] = "done" /\ job'[p] = job[p] /\ key'[p] = key[p]
            /\ content'[p] = content[p] /\ job[p].cmd = "sign"
        BY <2>3 DEF WriteSignature, Step, mind, IInv, TypeOK, Doing, Knows, SignSteps
      <4>3. Wrote(p, n, signature[n])'
        BY <3>1, <4>1, <4>2 DEF Wrote, SignsAs, Runs, Begun
      <4> QED BY <4>3
    <3>2. CASE n # Name[job[p].file]
      BY <2>1, <2>3, <3>2 DEF WriteSignature, IInv, TypeOK
    <3> QED BY <3>1, <3>2
  <2>4. CASE \A p \in Procs : ~CreateSignature(p) /\ ~WriteSignature(p)
    BY <2>1, <2>4, SignatureStays
  <2> QED BY <2>2, <2>3, <2>4
<1> QED BY <1>1, <1>2, IInvAlways, PTL DEF Spec

(* "trusted" is the answer of verify and of nothing else. *)
LEMMA OnlyVerifyTrusts ==
  ASSUME IInv, [Next]_vars, NEW v \in Procs, pc[v] # "trusted", pc'[v] = "trusted"
  PROVE  Verify(v)
<1> USE DEF IInv, TypeOK
<1>1. ASSUME NEW p \in Procs, NEW j \in Jobs,
             \/ KeypairBegins(p, j) \/ SignBegins(p, j) \/ VerifyBegins(p, j) \/ ReferBegins(p, j)
      PROVE  FALSE
  <2>1. PICK to \in Steps \union {"failed"} : Begins(p, j, to)
    BY <1>1 DEF KeypairBegins, SignBegins, VerifyBegins, ReferBegins, Steps
  <2> QED BY <2>1 DEF Begins, Steps
<1>2. ASSUME NEW p \in Procs, Dies(p) \/ DiesWriting(p) PROVE FALSE
  BY <1>2 DEF Dies, DiesWriting, Step
<1>3. ASSUME NEW p \in Procs, Continue(p), ~Verify(p) PROVE FALSE
  <2>1. \E to \in Steps \union {"done", "failed"} : pc' = [pc EXCEPT ![p] = to]
    <3>1. CASE WriteBlobs(p)
      BY <3>1 DEF WriteBlobs, WriteBlob, Step, Steps
    <3>2. CASE ~WriteBlobs(p)
      BY <1>3, <3>2 DEF Continue, WritePrivate, CreatePublic, WritePublic, ReadPrivate,
         WriteCopy, CreateSignature, WriteSignature, ReadPublic, WriteIndex, Step, Steps
    <3> QED BY <3>1, <3>2
  <2> QED BY <2>1 DEF Steps
<1>4. ASSUME NEW p \in Procs, Verify(p) PROVE p = v
  BY <1>4 DEF Verify, Step
<1>5. ASSUME NEW f \in Files, Build(f) PROVE FALSE
  BY <1>5 DEF Build
<1>6. CASE UNCHANGED vars
  BY <1>6 DEF vars
<1> QED BY <1>1, <1>2, <1>3, <1>4, <1>5, <1>6 DEF Next, Begin

(* Whoever was trusted was signed with that key over that content, for any  *)
(* number of processes, artifacts and keys.                                 *)
THEOREM TrustedCorrect == Spec => []TrustedMeansSigned
<1>1. Init => TrustedMeansSigned
  BY DEF Init, TrustedMeansSigned
<1>2. IInv /\ Stored /\ TrustedMeansSigned /\ [Next]_vars => TrustedMeansSigned'
  <2> SUFFICES ASSUME IInv, Stored, TrustedMeansSigned, [Next]_vars,
                      NEW v \in Procs, pc'[v] = "trusted"
               PROVE  \E s \in Procs :
                        /\ SignsAs(s, Name[job[v].file])' /\ pc'[s] = "done"
                        /\ key'[s] = key'[v] /\ content'[s] = content'[v]
    BY DEF TrustedMeansSigned
  <2>1. ASSUME NEW s \in Procs, SignsAs(s, Name[job[v].file]), pc[s] = "done",
               key[s] = key[v], content[s] = content[v],
               job'[v] = job[v], key'[v] = key[v], content'[v] = content[v]
        PROVE  /\ SignsAs(s, Name[job[v].file])' /\ pc'[s] = "done"
               /\ key'[s] = key'[v] /\ content'[s] = content'[v]
    BY <2>1, WroteStays DEF SignsAs, Runs, Begun
  <2>2. CASE pc[v] = "trusted"
    BY <2>1, <2>2, EndedStays DEF TrustedMeansSigned, Ended
  <2>3. CASE pc[v] # "trusted"
    <3>1. Verify(v)
      BY <2>3, OnlyVerifyTrusts
    <3> DEFINE n == Name[job[v].file]
    <3>2. "trusted" \in Verdict(signature[n], v) /\ pc[v] = "read signature"
      BY <3>1 DEF Verify, Step, IInv, TypeOK
    <3>3. signature[n] = [key |-> key[v], content |-> content[v]] /\ signature[n] # Missing
          /\ signature[n] # Torn
      BY <3>2 DEF Verdict
    <3>4. n \in Names
      BY <3>2, JobTypes DEF IInv, Doing, Knows, VerifySteps
    <3>5. signature[n] \in Signature
      BY <3>3, <3>4 DEF IInv, TypeOK
    <3>6. PICK s \in Procs : Wrote(s, n, signature[n])
      BY <3>4, <3>5 DEF Stored
    <3>7. key[s] = key[v] /\ content[s] = content[v]
      BY <3>3, <3>6 DEF Wrote
    <3>8. job'[v] = job[v] /\ key'[v] = key[v] /\ content'[v] = content[v]
      BY <3>1 DEF Verify, Step, mind
    <3> QED BY <2>1, <3>6, <3>7, <3>8 DEF Wrote
  <2> QED BY <2>2, <2>3
<1> QED BY <1>1, <1>2, IInvAlways, StoredAlways, PTL DEF Spec
-------------------------------------------------------------------------------
(* The pair on disk. *)
KeypairsApart ==
  \A p, q \in Procs : p # q /\ Runs(p, "keypair") /\ Runs(q, "keypair") => Apart(p, q)

AllDone == \A p \in Procs : Runs(p, "keypair") => pc[p] = "done"

Paired ==
  KeypairsApart =>
    /\ \A p \in Procs : pc[p] \in {"create public", "write public"} => private = p
    /\ AllDone => private = public

Generates(p) ==
  \/ \E j \in Jobs : KeypairBegins(p, j)
  \/ WritePrivate(p) \/ CreatePublic(p) \/ WritePublic(p)

(* Runs that overlap keep doing so. *)
LEMMA ApartBefore ==
  ASSUME IInv, [Next]_vars, KeypairsApart'
  PROVE  KeypairsApart
<1> SUFFICES ASSUME NEW p \in Procs, NEW q \in Procs, p # q,
                    Runs(p, "keypair"), Runs(q, "keypair")
             PROVE  Apart(p, q)
  BY DEF KeypairsApart
<1>1. /\ pc'[p] # "new" /\ job'[p] = job[p] /\ before'[p] = before[p]
      /\ pc'[q] # "new" /\ job'[q] = job[q] /\ before'[q] = before[q]
  BY BegunStays DEF Runs, Begun
<1>2. Apart(p, q)'
  BY <1>1 DEF KeypairsApart, Runs, Begun
<1> QED BY <1>1, <1>2 DEF Apart, Begun

(* Of runs that are apart, one is at work at most. *)
LEMMA OneAtWork ==
  ASSUME IInv, History, KeypairsApart, NEW p \in Procs, NEW q \in Procs,
         pc[p] \in KeypairSteps, pc[q] \in KeypairSteps
  PROVE  p = q
<1>1. Runs(p, "keypair") /\ Runs(q, "keypair")
  BY DEF IInv, Doing, Knows, Runs, Begun, KeypairSteps
<1> QED BY <1>1 DEF KeypairsApart, Apart, History, Runs, Ended, KeypairSteps

(* No other step touches the pair, begins a run of keypair or ends one well. *)
LEMMA PairStays ==
  ASSUME IInv, [Next]_vars, \A p \in Procs : ~Generates(p)
  PROVE  /\ private' = private /\ public' = public
         /\ \A q \in Procs : Runs(q, "keypair")' /\ pc'[q] # "failed" =>
              Runs(q, "keypair") /\ pc'[q] = pc[q]
<1>1. private' = private /\ public' = public
  BY DEF Next, vars, disk, Begin, Continue, Generates, SignBegins, VerifyBegins,
     ReferBegins, ReadPrivate, WriteCopy, CreateSignature, WriteSignature,
     ReadPublic, Verify, WriteBlobs, WriteBlob, WriteIndex, Dies, DiesWriting, Build
<1>2. ASSUME NEW q \in Procs, Runs(q, "keypair")', pc'[q] # "failed"
      PROVE  Runs(q, "keypair") /\ pc'[q] = pc[q]
  <2> USE DEF IInv, TypeOK, Runs, Begun
  <2>1. ASSUME NEW p \in Procs, NEW j \in Jobs,
               SignBegins(p, j) \/ VerifyBegins(p, j) \/ ReferBegins(p, j)
        PROVE  Runs(q, "keypair") /\ pc'[q] = pc[q]
    <3>1. PICK to \in Steps \union {"failed"} : Begins(p, j, to)
      BY <2>1 DEF SignBegins, VerifyBegins, ReferBegins, Steps
    <3>2. j.cmd # "keypair"
      BY <2>1 DEF SignBegins, VerifyBegins, ReferBegins
    <3>3. q # p
      BY <1>2, <3>1, <3>2 DEF Begins
    <3> QED BY <1>2, <3>1, <3>3 DEF Begins
  <2>2. ASSUME NEW p \in Procs,
               \/ ReadPrivate(p) \/ WriteCopy(p) \/ CreateSignature(p) \/ WriteSignature(p)
               \/ ReadPublic(p) \/ Verify(p) \/ WriteBlobs(p) \/ WriteIndex(p)
        PROVE  Runs(q, "keypair") /\ pc'[q] = pc[q]
    <3>1. pc[p] \in SignSteps \union VerifySteps \union ReferSteps
      <4>1. /\ WriteOf["layer"] = "write layer" /\ WriteOf["config"] = "write config"
            /\ WriteOf["manifest"] = "write manifest"
        BY DEF WriteOf
      <4>2. CASE WriteBlobs(p)
        BY <4>1, <4>2 DEF WriteBlobs, WriteBlob, Step, ReferSteps
      <4>3. CASE ~WriteBlobs(p)
        BY <2>2, <4>3 DEF ReadPrivate, WriteCopy, CreateSignature, WriteSignature,
           ReadPublic, Verify, WriteIndex, Step, SignSteps, VerifySteps, ReferSteps
      <4> QED BY <4>2, <4>3
    <3>2. job[p].cmd # "keypair"
      BY <3>1 DEF Doing, Knows
    <3>3. job' = job /\ \E to : pc' = [pc EXCEPT ![p] = to]
      <4>1. CASE WriteBlobs(p)
        BY <4>1 DEF WriteBlobs, WriteBlob, Step
      <4>2. CASE ~WriteBlobs(p)
        BY <2>2, <4>2 DEF ReadPrivate, WriteCopy, CreateSignature, WriteSignature,
           ReadPublic, Verify, WriteIndex, Step
      <4> QED BY <4>1, <4>2
    <3> QED BY <1>2, <3>2, <3>3
  <2>3. ASSUME NEW p \in Procs, Dies(p) \/ DiesWriting(p)
        PROVE  Runs(q, "keypair") /\ pc'[q] = pc[q]
    <3>1. pc' = [pc EXCEPT ![p] = "failed"] /\ job' = job
      BY <2>3 DEF Dies, DiesWriting, Step
    <3> QED BY <1>2, <3>1
  <2>4. ASSUME NEW f \in Files, Build(f)
        PROVE  Runs(q, "keypair") /\ pc'[q] = pc[q]
    BY <1>2, <2>4 DEF Build
  <2>5. CASE UNCHANGED vars
    BY <1>2, <2>5 DEF vars
  <2> QED BY <2>1, <2>2, <2>3, <2>4, <2>5 DEF Next, Begin, Continue, Generates
<1> QED BY <1>1, <1>2

LEMMA PairedAlways == Spec => []Paired
<1>1. Init => Paired
  BY DEF Init, Paired
<1>2. IInv /\ IInv' /\ History /\ Paired /\ [Next]_vars => Paired'
  <2> SUFFICES ASSUME IInv, IInv', History, Paired, [Next]_vars, KeypairsApart'
               PROVE  /\ \A q \in Procs :
                           pc'[q] \in {"create public", "write public"} => private' = q
                      /\ AllDone' => private' = public'
    BY DEF Paired
  <2>0. KeypairsApart
    BY ApartBefore
  <2>1. ASSUME NEW p \in Procs, NEW j \in Jobs, KeypairBegins(p, j)
        PROVE  /\ ~AllDone'
               /\ \A q \in Procs : pc'[q] \notin {"create public", "write public"}
    <3>1. /\ pc[p] = "new" /\ pc'[p] = "write private" /\ job'[p].cmd = "keypair"
          /\ before'[p] = {q \in Procs : pc[q] \in Ended}
          /\ \A q \in Procs \ {p} : /\ pc'[q] = pc[q] /\ job'[q] = job[q]
                                   /\ before'[q] = before[q]
      <4>1. /\ pc[p] = "new" /\ pc' = [pc EXCEPT ![p] = "write private"]
            /\ job' = [job EXCEPT ![p] = j] /\ j.cmd = "keypair"
            /\ before' = [before EXCEPT ![p] = {q \in Procs : pc[q] \in Ended}]
        BY <2>1 DEF KeypairBegins, Begins
      <4>2. /\ pc \in [Procs -> {"new"} \union Steps \union Ended]
            /\ job \in [Procs -> Jobs \union {NoJob}] /\ before \in [Procs -> SUBSET Procs]
        BY DEF IInv, TypeOK
      <4> QED BY <4>1, <4>2
    <3>2. ~AllDone'
      BY <3>1 DEF AllDone, Runs, Begun
    <3>3. ASSUME NEW q \in Procs, pc'[q] \in {"create public", "write public"} PROVE FALSE
      <4>1. q # p /\ pc[q] \in KeypairSteps
        BY <3>1, <3>3 DEF KeypairSteps
      <4>2. Runs(q, "keypair") /\ Runs(q, "keypair")' /\ Runs(p, "keypair")'
        BY <3>1, <4>1 DEF Runs, Begun, IInv, Doing, Knows, KeypairSteps
      <4>3. p \in before[q] \/ q \in before'[p]
        BY <3>1, <4>1, <4>2 DEF KeypairsApart, Apart, Runs
      <4> QED BY <3>1, <4>1, <4>3 DEF History, Ended, KeypairSteps
    <3> QED BY <3>2, <3>3
  <2>2. ASSUME NEW p \in Procs, WritePrivate(p) \/ CreatePublic(p) \/ WritePublic(p)
        PROVE  /\ \A q \in Procs :
                    pc'[q] \in {"create public", "write public"} => private' = q
               /\ AllDone' => private' = public'
    <3>1. /\ pc[p] \in KeypairSteps /\ job[p].cmd = "keypair" /\ key[p] = p
          /\ job'[p] = job[p]
      BY <2>2 DEF WritePrivate, CreatePublic, WritePublic, Step, KeypairSteps, IInv,
         Doing, Knows
    <3>2. \A q \in Procs \ {p} : pc'[q] = pc[q] /\ pc[q] \notin KeypairSteps
      BY <2>0, <2>2, <3>1, OneAtWork
         DEF WritePrivate, CreatePublic, WritePublic, Step, IInv, TypeOK
    <3>3. \/ /\ pc'[p] = "create public" /\ private' = p
          \/ /\ pc[p] = "create public" /\ pc'[p] = "write public" /\ private' = private
          \/ /\ pc[p] = "write public" /\ pc'[p] = "done" /\ private' = private
             /\ public' = p
      BY <2>2, <3>1 DEF WritePrivate, CreatePublic, WritePublic, Step, IInv, TypeOK
    <3>4. pc[p] \in {"create public", "write public"} => private = p
      BY <2>0 DEF Paired
    <3>5. pc'[p] # "done" => ~AllDone'
      BY <3>1, <3>3 DEF AllDone, Runs, Begun
    <3> QED BY <3>2, <3>3, <3>4, <3>5 DEF KeypairSteps
  <2>3. CASE \A p \in Procs : ~Generates(p)
    <3>1. ASSUME NEW q \in Procs, pc'[q] \in {"create public", "write public"}
          PROVE  private' = q
      <4>1. Runs(q, "keypair")'
        BY <3>1 DEF IInv, Doing, Knows, Runs, Begun, KeypairSteps
      <4> QED BY <2>0, <2>3, <3>1, <4>1, PairStays DEF Paired
    <3>2. ASSUME AllDone' PROVE private' = public'
      <4>1. ASSUME NEW q \in Procs, Runs(q, "keypair") PROVE pc[q] = "done"
        <5>1. Runs(q, "keypair")'
          BY <4>1, BegunStays DEF Runs, Begun
        <5>2. pc'[q] = "done"
          BY <3>2, <5>1 DEF AllDone
        <5> QED BY <2>3, <5>1, <5>2, PairStays
      <4>2. AllDone
        BY <4>1 DEF AllDone
      <4> QED BY <2>0, <2>3, <4>2, PairStays DEF Paired
    <3> QED BY <3>1, <3>2
  <2> QED BY <2>1, <2>2, <2>3 DEF Generates
<1> QED BY <1>1, <1>2, IInvAlways, HistoryAlways, PTL DEF Spec

(* Runs of keypair that took turns and ended well leave two halves of one   *)
(* pair, for any number of them.                                            *)
THEOREM PairsCorrect == Spec => []PairsMatch
<1>1. Paired => PairsMatch
  BY DEF Paired, PairsMatch, KeypairsApart, AllDone
<1> QED BY <1>1, PairedAlways, PTL

-------------------------------------------------------------------------------
(* What a referral embeds. *)
TornBy ==
  \A n \in Names : signature[n] = Torn =>
    \E s \in Procs : SignsAs(s, n) /\ pc[s] \in {"write signature", "failed"}

Made(s, p) ==
  /\ SignsAs(s, job[p].name)
  /\ \/ pc[s] = "done" /\ sig[p] = [key |-> key[s], content |-> content[s]]
     \/ sig[p] = Torn /\ (pc[s] = "failed" \/ ~Apart(s, p))

Referred ==
  \A p \in Procs : Runs(p, "refer") /\ pc[p] # "failed" => \E s \in Procs : Made(s, p)

(* A signer at its last step leaves it by writing or dying. *)
LEMMA WriterMoves ==
  ASSUME IInv, [Next]_vars, NEW s \in Procs, pc[s] = "write signature"
  PROVE  WriteSignature(s) \/ pc'[s] \in {"write signature", "failed"}
<1> USE DEF IInv, TypeOK
<1>1. ASSUME NEW p \in Procs, Begin(p) PROVE pc'[s] = pc[s]
  BY <1>1, ZenonT(60)
  DEF Begin, KeypairBegins, SignBegins, VerifyBegins, ReferBegins, Begins
<1>2. ASSUME NEW p \in Procs, Dies(p) \/ DiesWriting(p)
      PROVE  pc'[s] \in {"write signature", "failed"}
  BY <1>2 DEF Dies, DiesWriting, Step
<1>3. ASSUME NEW p \in Procs, Continue(p), ~WriteSignature(p)
      PROVE  pc'[s] = pc[s]
  <2>1. CASE WriteBlobs(p)
    <3>1. /\ WriteOf["layer"] = "write layer" /\ WriteOf["config"] = "write config"
          /\ WriteOf["manifest"] = "write manifest"
      BY DEF WriteOf
    <3> QED BY <2>1, <3>1 DEF WriteBlobs, WriteBlob, Step
  <2>2. CASE ~WriteBlobs(p)
    BY <1>3, <2>2 DEF Continue, WritePrivate, CreatePublic, WritePublic, ReadPrivate,
       WriteCopy, CreateSignature, ReadPublic, Verify, WriteIndex, Step
  <2> QED BY <2>1, <2>2
<1>4. ASSUME NEW p \in Procs, WriteSignature(p), p # s PROVE pc'[s] = pc[s]
  BY <1>4 DEF WriteSignature, Step
<1>5. ASSUME NEW f \in Files, Build(f) PROVE pc'[s] = pc[s]
  BY <1>5 DEF Build
<1>6. CASE UNCHANGED vars
  BY <1>6 DEF vars
<1> QED BY <1>1, <1>2, <1>3, <1>4, <1>5, <1>6 DEF Next

LEMMA TornAlways == Spec => []TornBy
<1>1. Init => TornBy
  BY SigningAssumption DEF Init, TornBy
<1>2. IInv /\ TornBy /\ [Next]_vars => TornBy'
  <2> SUFFICES ASSUME IInv, TornBy, [Next]_vars, NEW n \in Names, signature'[n] = Torn
               PROVE  \E s \in Procs :
                        SignsAs(s, n)' /\ pc'[s] \in {"write signature", "failed"}
    BY DEF TornBy
  <2>1. ASSUME signature'[n] = signature[n],
               \A s \in Procs : SignsAs(s, n) => ~WriteSignature(s)
        PROVE  \E s \in Procs :
                 SignsAs(s, n)' /\ pc'[s] \in {"write signature", "failed"}
    <3>1. PICK s \in Procs : SignsAs(s, n) /\ pc[s] \in {"write signature", "failed"}
      BY <2>1 DEF TornBy
    <3>2. pc'[s] \in {"write signature", "failed"}
      BY <2>1, <3>1, WriterMoves, EndedStays DEF Ended
    <3>3. SignsAs(s, n)'
      BY <3>1, BegunStays DEF SignsAs, Runs, Begun
    <3> QED BY <3>2, <3>3
  <2>2. ASSUME NEW p \in Procs, CreateSignature(p)
        PROVE  \E s \in Procs :
                 SignsAs(s, n)' /\ pc'[s] \in {"write signature", "failed"}
    <3>1. CASE n = Name[job[p].file]
      <4>1. /\ pc'[p] = "write signature" /\ job'[p] = job[p] /\ job[p].cmd = "sign"
        BY <2>2 DEF CreateSignature, Step, IInv, TypeOK, Doing, Knows, SignSteps
      <4> QED BY <3>1, <4>1 DEF SignsAs, Runs, Begun
    <3>2. CASE n # Name[job[p].file]
      <4>1. signature'[n] = signature[n]
        BY <2>2, <3>2 DEF CreateSignature, IInv, TypeOK
      <4>2. \A s \in Procs : ~WriteSignature(s)
        BY <2>2 DEF CreateSignature, WriteSignature, Step, IInv, TypeOK
      <4> QED BY <2>1, <4>1, <4>2
    <3> QED BY <3>1, <3>2
  <2>3. ASSUME NEW p \in Procs, WriteSignature(p)
        PROVE  \E s \in Procs :
                 SignsAs(s, n)' /\ pc'[s] \in {"write signature", "failed"}
    <3>1. n # Name[job[p].file]
      <4>1. SUFFICES ASSUME n = Name[job[p].file] PROVE FALSE
        OBVIOUS
      <4>2. signature'[n] = [key |-> key[p], content |-> content[p]]
        BY <2>3, <4>1 DEF WriteSignature, IInv, TypeOK
      <4>3. [key |-> key[p], content |-> content[p]] \in Signature
        BY <2>3 DEF WriteSignature, Step, Signature, IInv, Doing, Knows, SignSteps
      <4> QED BY <4>2, <4>3, SigningAssumption
    <3>2. signature'[n] = signature[n]
      BY <2>3, <3>1 DEF WriteSignature, IInv, TypeOK
    <3>3. \A s \in Procs : WriteSignature(s) => s = p
      BY <2>3 DEF WriteSignature, Step, IInv, TypeOK
    <3> QED BY <2>1, <3>1, <3>2, <3>3 DEF SignsAs
  <2>4. CASE \A p \in Procs : ~CreateSignature(p) /\ ~WriteSignature(p)
    BY <2>1, <2>4, SignatureStays
  <2> QED BY <2>2, <2>3, <2>4
<1> QED BY <1>1, <1>2, IInvAlways, PTL DEF Spec

(* What was made for a process stays so. *)
LEMMA MadeStays ==
  ASSUME IInv, [Next]_vars, NEW s \in Procs, NEW p \in Procs, pc[p] # "new",
         Made(s, p), sig'[p] = sig[p]
  PROVE  Made(s, p)'
<1>1. /\ pc'[s] # "new" /\ job'[s] = job[s] /\ before'[s] = before[s]
      /\ pc'[p] # "new" /\ job'[p] = job[p] /\ before'[p] = before[p]
  BY BegunStays DEF Made, SignsAs, Runs, Begun
<1>2. SignsAs(s, job[p].name)'
  BY <1>1 DEF Made, SignsAs, Runs, Begun
<1>3. pc[s] \in {"done", "failed"} =>
        pc'[s] = pc[s] /\ key'[s] = key[s] /\ content'[s] = content[s]
  BY EndedStays DEF Ended
<1>4. ~Apart(s, p) => ~Apart(s, p)'
  BY <1>1 DEF Apart, Begun
<1> QED BY <1>1, <1>2, <1>3, <1>4 DEF Made

(* Only the beginning of a referral reads a signature. *)
LEMMA SigStays ==
  ASSUME IInv, [Next]_vars, NEW p \in Procs, pc[p] # "new"
  PROVE  sig'[p] = sig[p]
<1> USE DEF IInv, TypeOK, mind
<1>1. ASSUME NEW q \in Procs, NEW j \in Jobs,
             \/ KeypairBegins(q, j) \/ SignBegins(q, j) \/ VerifyBegins(q, j)
      PROVE  sig'[p] = sig[p]
  BY <1>1 DEF KeypairBegins, SignBegins, VerifyBegins
<1>2. ASSUME NEW q \in Procs, NEW j \in Jobs, ReferBegins(q, j)
      PROVE  sig'[p] = sig[p]
  BY <1>2 DEF ReferBegins, Begins
<1>3. ASSUME NEW q \in Procs, Continue(q) \/ Dies(q) \/ DiesWriting(q)
      PROVE  sig'[p] = sig[p]
  BY <1>3 DEF Continue, WritePrivate, CreatePublic, WritePublic, ReadPrivate, WriteCopy,
     CreateSignature, WriteSignature, ReadPublic, Verify, WriteBlobs, WriteBlob,
     WriteIndex, Dies, DiesWriting
<1>4. ASSUME NEW f \in Files, Build(f) PROVE sig'[p] = sig[p]
  BY <1>4 DEF Build
<1>5. CASE UNCHANGED vars
  BY <1>5 DEF vars
<1> QED BY <1>1, <1>2, <1>3, <1>4, <1>5 DEF Next, Begin

(* Who begins as a referral has read a signature, or has failed. *)
LEMMA ReferBegun ==
  ASSUME IInv, [Next]_vars, NEW p \in Procs, pc[p] = "new",
         Runs(p, "refer")', pc'[p] # "failed"
  PROVE  \E j \in Jobs : ReferBegins(p, j)
<1> USE DEF IInv, TypeOK, Runs, Begun
<1>1. ASSUME NEW q \in Procs, NEW j \in Jobs,
             \/ KeypairBegins(q, j) \/ SignBegins(q, j) \/ VerifyBegins(q, j)
      PROVE  FALSE
  BY <1>1 DEF KeypairBegins, SignBegins, VerifyBegins, Begins
<1>2. ASSUME NEW q \in Procs, NEW j \in Jobs, ReferBegins(q, j) PROVE q = p
  BY <1>2 DEF ReferBegins, Begins
<1>3. ASSUME NEW q \in Procs, Continue(q) \/ Dies(q) \/ DiesWriting(q) PROVE FALSE
  <2>1. pc[q] # "new" /\ \E to : pc' = [pc EXCEPT ![q] = to]
    <3>1. CASE WriteBlobs(q)
      <4>1. /\ WriteOf["layer"] = "write layer" /\ WriteOf["config"] = "write config"
            /\ WriteOf["manifest"] = "write manifest"
        BY DEF WriteOf
      <4> QED BY <3>1, <4>1 DEF WriteBlobs, WriteBlob, Step
    <3>2. CASE DiesWriting(q)
      <4>1. /\ WriteOf["layer"] = "write layer" /\ WriteOf["config"] = "write config"
            /\ WriteOf["manifest"] = "write manifest"
        BY DEF WriteOf
      <4> QED BY <3>2, <4>1 DEF DiesWriting, Step
    <3>3. CASE ~WriteBlobs(q) /\ ~DiesWriting(q)
      BY <1>3, <3>3 DEF Continue, WritePrivate, CreatePublic, WritePublic, ReadPrivate,
         WriteCopy, CreateSignature, WriteSignature, ReadPublic, Verify, WriteIndex,
         Dies, Running, Step
    <3> QED BY <3>1, <3>2, <3>3
  <2> QED BY <2>1
<1>4. ASSUME NEW f \in Files, Build(f) PROVE FALSE
  BY <1>4 DEF Build
<1>5. CASE UNCHANGED vars
  BY <1>5 DEF vars
<1> QED BY <1>1, <1>2, <1>3, <1>4, <1>5 DEF Next, Begin

LEMMA ReferredAlways == Spec => []Referred
<1>1. Init => Referred
  BY DEF Init, Referred, Runs, Begun
<1>2. IInv /\ History /\ Stored /\ TornBy /\ Referred /\ [Next]_vars => Referred'
  <2> SUFFICES ASSUME IInv, History, Stored, TornBy, Referred, [Next]_vars,
                      NEW p \in Procs, Runs(p, "refer")', pc'[p] # "failed"
               PROVE  \E s \in Procs : Made(s, p)'
    BY DEF Referred
  <2>1. CASE pc[p] # "new"
    <3>1. Runs(p, "refer") /\ pc[p] # "failed"
      BY <2>1, BegunStays, EndedStays DEF Runs, Begun, Ended
    <3>2. PICK s \in Procs : Made(s, p)
      BY <3>1 DEF Referred
    <3> QED BY <2>1, <3>2, MadeStays, SigStays
  <2>2. CASE pc[p] = "new"
    <3>1. PICK j \in Jobs : ReferBegins(p, j)
      BY <2>2, ReferBegun
    <3> DEFINE n == j.name
    <3>2. /\ job' = [job EXCEPT ![p] = j] /\ sig' = [sig EXCEPT ![p] = signature[n]]
          /\ before' = [before EXCEPT ![p] = {q \in Procs : pc[q] \in Ended}]
          /\ \E to : pc' = [pc EXCEPT ![p] = to]
          /\ key' = key /\ content' = content
          /\ pc'[p] # "failed" => signature[n] # Missing
      BY <3>1 DEF ReferBegins, Begins, IInv, TypeOK
    <3>3. n \in Names
      BY <3>1, JobTypes DEF ReferBegins
    <3>4. job'[p] = j /\ sig'[p] = signature[n] /\ signature[n] # Missing
      BY <3>2 DEF IInv, TypeOK
    <3>5. \A s \in Procs : SignsAs(s, n) =>
            /\ s # p /\ job'[s] = job[s] /\ pc'[s] = pc[s] /\ before'[s] = before[s]
            /\ SignsAs(s, n)'
      BY <2>2, <3>2 DEF SignsAs, Runs, Begun, IInv, TypeOK
    <3>6. signature[n] \in Signature \/ signature[n] = Torn
      BY <3>3, <3>4 DEF IInv, TypeOK
    <3>7. CASE signature[n] \in Signature
      <4>1. PICK s \in Procs : Wrote(s, n, signature[n])
        BY <3>3, <3>7 DEF Stored
      <4>2. SignsAs(s, n)' /\ pc'[s] = "done"
        BY <3>5, <4>1 DEF Wrote
      <4>3. sig'[p] = [key |-> key'[s], content |-> content'[s]]
        BY <3>2, <3>4, <4>1 DEF Wrote
      <4> QED BY <3>4, <4>2, <4>3 DEF Made
    <3>8. CASE signature[n] = Torn
      <4>1. PICK s \in Procs : SignsAs(s, n) /\ pc[s] \in {"write signature", "failed"}
        BY <3>3, <3>8 DEF TornBy
      <4>2. CASE pc[s] = "failed"
        BY <3>4, <3>5, <3>8, <4>1, <4>2 DEF Made
      <4>3. CASE pc[s] = "write signature"
        <5>1. s \notin before'[p]
          BY <3>2, <4>3 DEF Ended, IInv, TypeOK
        <5>2. p \notin before'[s]
          BY <2>2, <3>5, <4>1 DEF History, Ended
        <5>3. ~Apart(s, p)'
          BY <3>5, <4>1, <4>3, <5>1, <5>2 DEF Apart, Begun, Runs
        <5> QED BY <3>4, <3>5, <3>8, <4>1, <5>3 DEF Made
      <4> QED BY <4>1, <4>2, <4>3
    <3> QED BY <3>6, <3>7, <3>8
  <2> QED BY <2>1, <2>2
<1> QED BY <1>1, <1>2, IInvAlways, HistoryAlways, StoredAlways, TornAlways, PTL DEF Spec

(* A referral carries a signature that some run of sign made for its name,  *)
(* or a torn one of a run that died or overlapped, for any number of them.  *)
THEOREM ReferralsSignedCorrect == Spec => []ReferralsAreSigned
<1>1. Referred => ReferralsAreSigned
  BY DEF Referred, Made, ReferralsAreSigned
<1> QED BY <1>1, ReferredAlways, PTL

-------------------------------------------------------------------------------
(* The blobs under a referral. *)
Parts == {"layer", "config", "manifest"}

Spoilt(n, fmt) ==
  \E p \in Procs : /\ Runs(p, "refer") /\ pc[p] = "failed"
                    /\ job[p].name = n /\ job[p].format = fmt

Has(p) ==
  /\ pc[p] \in {"write config", "write manifest", "write index"} =>
       Blob(ReferralOf(p), "layer") \in blobs
  /\ pc[p] \in {"write manifest", "write index"} => Blob(ReferralOf(p), "config") \in blobs
  /\ pc[p] = "write index" /\ job[p].format = "oci" =>
       Blob(ReferralOf(p), "manifest") \in blobs

Complete(n, fmt) ==
  /\ index[n][fmt] \in Referral => BlobsOf(index[n][fmt]) \subseteq blobs
  /\ \A p \in Procs :
       pc[p] \in ReferSteps /\ job[p].name = n /\ job[p].format = fmt => Has(p)

Labelled ==
  \A n \in Names : \A fmt \in Formats :
    index[n][fmt] \in Referral => index[n][fmt].name = n /\ index[n][fmt].format = fmt

Whole ==
  /\ Labelled
  /\ \A n \in Names : \A fmt \in Formats : Spoilt(n, fmt) \/ Complete(n, fmt)

(* Referrals of different directories or formats share no blob. *)
LEMMA BlobsDiffer ==
  ASSUME NEW r, NEW q, NEW a \in Parts, NEW b \in Parts,
         r.name # q.name \/ r.format # q.format
  PROVE  Blob(r, a) # Blob(q, b)
<1>1. CASE a = "config" /\ b = "config"
  BY <1>1 DEF Blob
<1>2. CASE a # "config" /\ b # "config"
  BY <1>2 DEF Blob
<1>3. CASE a # b
  <2>1. Blob(r, a)[1] = a /\ Blob(q, b)[1] = b
    BY DEF Blob
  <2> QED BY <1>3, <2>1
<1> QED BY <1>1, <1>2, <1>3

LEMMA BlobsOfParts ==
  ASSUME NEW r
  PROVE  \A b \in BlobsOf(r) : \E a \in Parts : b = Blob(r, a)
BY DEF BlobsOf, Parts

LEMMA ReferLabel ==
  ASSUME NEW p \in Procs
  PROVE  /\ ReferralOf(p).name = job[p].name
         /\ ReferralOf(p).format = job[p].format
BY DEF ReferralOf

LEMMA SpoiltStays ==
  ASSUME IInv, [Next]_vars, NEW n, NEW fmt, Spoilt(n, fmt)
  PROVE  Spoilt(n, fmt)'
<1>1. PICK p \in Procs : /\ Runs(p, "refer") /\ pc[p] = "failed"
                         /\ job[p].name = n /\ job[p].format = fmt
  BY DEF Spoilt
<1>2. pc'[p] = pc[p] /\ job'[p] = job[p]
  BY <1>1, EndedStays DEF Ended
<1> QED BY <1>1, <1>2 DEF Spoilt, Runs, Begun

(* All other steps leave the blobs alone, and every referral at work. *)
LEMMA QuietStays ==
  ASSUME IInv, [Next]_vars,
         \A p \in Procs : ~WriteBlobs(p) /\ ~WriteIndex(p) /\ ~DiesWriting(p)
  PROVE  /\ blobs' = blobs /\ index' = index
         /\ \A q \in Procs : pc'[q] \in ReferSteps \ {"write layer"} =>
              pc'[q] = pc[q] /\ job'[q] = job[q] /\ sig'[q] = sig[q]
<1>1. blobs' = blobs /\ index' = index
  BY DEF Next, vars, disk, Begin, Continue, KeypairBegins, SignBegins, VerifyBegins,
     ReferBegins, WritePrivate, CreatePublic, WritePublic, ReadPrivate, WriteCopy,
     CreateSignature, WriteSignature, ReadPublic, Verify, Dies, Build
<1>2. ASSUME NEW q \in Procs, pc'[q] \in ReferSteps \ {"write layer"}
      PROVE  pc'[q] = pc[q]
  <2> USE DEF IInv, TypeOK
  <2> DEFINE Later == {"write config", "write manifest", "write index"}
  <2>0. pc'[q] \in Later
    BY <1>2 DEF ReferSteps
  <2>1. ASSUME NEW p \in Procs, NEW j \in Jobs,
               \/ KeypairBegins(p, j) \/ SignBegins(p, j) \/ VerifyBegins(p, j) \/ ReferBegins(p, j)
        PROVE  pc'[q] = pc[q]
    <3>1. PICK to \in (Steps \union {"failed"}) \ Later : Begins(p, j, to)
      BY <2>1 DEF KeypairBegins, SignBegins, VerifyBegins, ReferBegins, Steps
    <3> QED BY <2>0, <3>1 DEF Begins
  <2>2. ASSUME NEW p \in Procs, Continue(p), ~WriteBlobs(p), ~WriteIndex(p)
        PROVE  pc'[q] = pc[q]
    <3>1. PICK to \in (Steps \union Ended) \ Later : pc' = [pc EXCEPT ![p] = to]
      BY <2>2 DEF Continue, WritePrivate, CreatePublic, WritePublic, ReadPrivate, WriteCopy,
         CreateSignature, WriteSignature, ReadPublic, Verify, Verdict, Step, Steps, Ended
    <3> QED BY <2>0, <3>1
  <2>3. ASSUME NEW p \in Procs, Dies(p) PROVE pc'[q] = pc[q]
    BY <2>0, <2>3 DEF Dies
  <2>4. ASSUME NEW f \in Files, Build(f) PROVE pc'[q] = pc[q]
    BY <2>4 DEF Build
  <2>5. CASE UNCHANGED vars
    BY <2>5 DEF vars
  <2> QED BY <2>1, <2>2, <2>3, <2>4, <2>5 DEF Next, Begin
<1>3. ASSUME NEW q \in Procs, pc'[q] \in ReferSteps \ {"write layer"}
      PROVE  pc'[q] = pc[q] /\ job'[q] = job[q] /\ sig'[q] = sig[q]
  BY <1>2, <1>3, BegunStays, SigStays DEF ReferSteps
<1> QED BY <1>1, <1>3

(* What one process has stays, whatever another writes. *)
LEMMA HasStays ==
  ASSUME NEW p \in Procs, Has(p), pc'[p] = pc[p], job'[p] = job[p], sig'[p] = sig[p],
         \A a \in Parts : Blob(ReferralOf(p), a) \in blobs =>
                            Blob(ReferralOf(p), a) \in blobs'
  PROVE  Has(p)'
<1>1. ReferralOf(p)' = ReferralOf(p)
  BY DEF ReferralOf
<1>2. \A a : Blob(ReferralOf(p), a)' = Blob(ReferralOf(p), a)
  BY <1>1 DEF Blob
<1> QED BY <1>1, <1>2 DEF Has, Parts, Blob

LEMMA LabelledStays ==
  ASSUME IInv, Labelled, [Next]_vars
  PROVE  Labelled'
<1> SUFFICES ASSUME NEW n \in Names, NEW fmt \in Formats,
                    index'[n][fmt] \in Referral
             PROVE  index'[n][fmt].name = n /\ index'[n][fmt].format = fmt
  BY DEF Labelled, Referral, Signature, Keys
<1>1. ASSUME NEW p \in Procs, WriteIndex(p)
      PROVE  index'[n][fmt].name = n /\ index'[n][fmt].format = fmt
  <2>1. index' = [index EXCEPT ![job[p].name][job[p].format] = ReferralOf(p)]
    BY <1>1 DEF WriteIndex
  <2>2. index \in [Names -> [Formats -> Referral \union {Missing, Torn}]]
    BY DEF IInv, TypeOK
  <2>3. CASE n = job[p].name /\ fmt = job[p].format
    <3>1. index'[n][fmt] = ReferralOf(p)
      BY <2>1, <2>2, <2>3
    <3> QED BY <2>3, <3>1, ReferLabel
  <2>4. CASE n # job[p].name \/ fmt # job[p].format
    <3>1. index'[n][fmt] = index[n][fmt]
      BY <2>1, <2>2, <2>4
    <3> QED BY <3>1 DEF Labelled
  <2> QED BY <2>3, <2>4
<1>2. ASSUME NEW p \in Procs, DiesWriting(p)
      PROVE  index'[n][fmt].name = n /\ index'[n][fmt].format = fmt
  <2>1. \/ index' = index
        \/ index' = [index EXCEPT ![job[p].name][job[p].format] = Torn]
    BY <1>2 DEF DiesWriting
  <2>2. index'[n][fmt] = index[n][fmt] \/ index'[n][fmt] = Torn
    BY <2>1, SMTT(30) DEF IInv, TypeOK
  <2>3. CASE index'[n][fmt] = index[n][fmt]
    BY <2>3 DEF Labelled
  <2>4. CASE index'[n][fmt] = Torn
    BY <2>4, SigningAssumption
  <2> QED BY <2>2, <2>3, <2>4
<1>3. CASE \A p \in Procs : ~WriteIndex(p) /\ ~DiesWriting(p)
  <2>1. index' = index
    BY <1>3, ZenonT(60)
    DEF Next, vars, disk, Begin, Continue, KeypairBegins, SignBegins, VerifyBegins,
       ReferBegins, WritePrivate, CreatePublic, WritePublic, ReadPrivate, WriteCopy,
       CreateSignature, WriteSignature, ReadPublic, Verify, WriteBlobs, WriteBlob, Dies,
       Build
  <2> QED BY <2>1 DEF Labelled
<1> QED BY <1>1, <1>2, <1>3

LEMMA WholeAlways == Spec => []Whole
<1>1. Init => Whole
  <2> SUFFICES ASSUME Init PROVE Whole
    OBVIOUS
  <2>1. \A n \in Names : \A fmt \in Formats : index[n][fmt] = Missing
    BY DEF Init
  <2>2. \A p \in Procs : pc[p] = "new"
    BY DEF Init
  <2> QED BY <2>1, <2>2, SigningAssumption DEF Whole, Labelled, Complete, ReferSteps
<1>2. IInv /\ IInv' /\ Whole /\ [Next]_vars => Whole'
  <2> SUFFICES ASSUME IInv, IInv', Whole, [Next]_vars,
                      NEW n \in Names, NEW fmt \in Formats, ~Spoilt(n, fmt)'
               PROVE  Complete(n, fmt)'
    BY LabelledStays DEF Whole
  <2>1. Complete(n, fmt) /\ Labelled
    BY SpoiltStays DEF Whole
  <2>2. ASSUME index'[n][fmt] = index[n][fmt],
               \A r : r.name = n /\ r.format = fmt =>
                 \A a \in Parts : Blob(r, a) \in blobs => Blob(r, a) \in blobs'
        PROVE  index'[n][fmt] \in Referral => BlobsOf(index'[n][fmt]) \subseteq blobs'
    <3> DEFINE r == index[n][fmt]
    <3>1. SUFFICES ASSUME r \in Referral, NEW b \in BlobsOf(r) PROVE b \in blobs'
      BY <2>2
    <3>2. r.name = n /\ r.format = fmt /\ b \in blobs
      BY <2>1, <3>1 DEF Labelled, Complete
    <3>3. PICK a \in Parts : b = Blob(r, a)
      BY <3>1, BlobsOfParts
    <3> HIDE DEF r
    <3> QED BY <2>2, <3>2, <3>3
  <2>3. ASSUME NEW p \in Procs, DiesWriting(p) PROVE Complete(n, fmt)'
    <3>1. /\ pc' = [pc EXCEPT ![p] = "failed"] /\ job' = job /\ sig' = sig
      BY <2>3 DEF DiesWriting, Step, mind
    <3>2. CASE pc[p] \in ReferSteps /\ job[p].name = n /\ job[p].format = fmt
      <4>1. Spoilt(n, fmt)'
        <5>1. job[p].cmd = "refer"
          BY <3>2 DEF IInv, Doing, Knows
        <5>2. pc'[p] = "failed" /\ job'[p] = job[p]
          BY <3>1 DEF IInv, TypeOK
        <5> QED BY <3>2, <5>1, <5>2 DEF Spoilt, Runs, Begun
      <4> QED BY <4>1
    <3>3. CASE ~(pc[p] \in ReferSteps /\ job[p].name = n /\ job[p].format = fmt)
      <4>1. \A r : r.name = n /\ r.format = fmt =>
              \A a \in Parts : Blob(r, a) \in blobs => Blob(r, a) \in blobs'
        <5>1. CASE blobs' = blobs
          BY <5>1
        <5>2. CASE \E part \in Parts :
                Step(p, WriteOf[part], "failed") /\ blobs' = blobs \ {Blob(ReferralOf(p), part)}
          <6>1. PICK part \in Parts : /\ Step(p, WriteOf[part], "failed")
                                      /\ blobs' = blobs \ {Blob(ReferralOf(p), part)}
            BY <5>2
          <6>2. pc[p] \in ReferSteps
            <7>1. /\ WriteOf["layer"] = "write layer" /\ WriteOf["config"] = "write config"
                  /\ WriteOf["manifest"] = "write manifest"
              BY DEF WriteOf
            <7> QED BY <6>1, <7>1 DEF Step, ReferSteps, Parts
          <6>3. job[p].name # n \/ job[p].format # fmt
            BY <3>3, <6>2
          <6>4. ReferralOf(p).name # n \/ ReferralOf(p).format # fmt
            BY <6>3, ReferLabel
          <6>5. ASSUME NEW r, r.name = n, r.format = fmt, NEW a \in Parts
                PROVE  Blob(r, a) # Blob(ReferralOf(p), part)
            BY <6>4, <6>5, BlobsDiffer
          <6> QED BY <6>1, <6>5
        <5> QED BY <2>3, <5>1, <5>2 DEF DiesWriting, Parts
      <4>2. index'[n][fmt] = index[n][fmt]
        <5>1. CASE index' = index
          BY <5>1
        <5>2. CASE /\ Step(p, "write index", "failed")
                   /\ index' = [index EXCEPT ![job[p].name][job[p].format] = Torn]
          <6>1. job[p].name # n \/ job[p].format # fmt
            BY <3>3, <5>2 DEF Step, ReferSteps
          <6> QED BY <5>2, <6>1 DEF IInv, TypeOK
        <5> QED BY <2>3, <5>1, <5>2 DEF DiesWriting
      <4>3. ASSUME NEW q \in Procs, pc'[q] \in ReferSteps, job'[q].name = n,
                   job'[q].format = fmt
            PROVE  Has(q)'
        <5>1. q # p
          BY <3>1, <4>3 DEF IInv, TypeOK, ReferSteps
        <5>2. pc'[q] = pc[q] /\ job'[q] = job[q] /\ sig'[q] = sig[q]
          BY <3>1, <5>1 DEF IInv, TypeOK
        <5>3. Has(q)
          BY <2>1, <4>3, <5>2 DEF Complete
        <5>4. \A a \in Parts : Blob(ReferralOf(q), a) \in blobs =>
                                Blob(ReferralOf(q), a) \in blobs'
          BY <4>1, <4>3, <5>2, ReferLabel
        <5> QED BY <5>2, <5>3, <5>4, HasStays
      <4> QED BY <2>2, <4>1, <4>2, <4>3 DEF Complete
    <3> QED BY <3>2, <3>3
  <2>4. ASSUME NEW p \in Procs, WriteIndex(p) PROVE Complete(n, fmt)'
    <3>1. /\ pc[p] = "write index" /\ pc' = [pc EXCEPT ![p] = "done"] /\ job' = job
          /\ sig' = sig /\ blobs' = blobs
          /\ index' = [index EXCEPT ![job[p].name][job[p].format] = ReferralOf(p)]
      BY <2>4 DEF WriteIndex, Step, mind
    <3>2. ASSUME NEW q \in Procs, pc'[q] \in ReferSteps, job'[q].name = n,
                 job'[q].format = fmt
          PROVE  Has(q)'
      <4>1. pc'[q] = pc[q] /\ job'[q] = job[q] /\ sig'[q] = sig[q]
        BY <3>1, <3>2 DEF IInv, TypeOK, ReferSteps
      <4>2. Has(q)
        BY <2>1, <3>2, <4>1 DEF Complete
      <4> QED BY <3>1, <4>1, <4>2, HasStays
    <3>3. CASE job[p].name = n /\ job[p].format = fmt
      <4>1. index'[n][fmt] = ReferralOf(p)
        BY <3>1, <3>3 DEF IInv, TypeOK
      <4>2. Has(p)
        BY <2>1, <3>1, <3>3 DEF Complete, ReferSteps
      <4>3. BlobsOf(ReferralOf(p)) \subseteq blobs
        BY <3>1, <4>2, ReferLabel DEF Has, BlobsOf
      <4> QED BY <3>1, <3>2, <4>1, <4>3 DEF Complete
    <3>4. CASE ~(job[p].name = n /\ job[p].format = fmt)
      <4>1. index'[n][fmt] = index[n][fmt]
        BY <3>1, <3>4 DEF IInv, TypeOK
      <4> QED BY <2>2, <3>1, <3>2, <4>1 DEF Complete
    <3> QED BY <3>3, <3>4
  <2>5. ASSUME NEW p \in Procs, WriteBlobs(p) PROVE Complete(n, fmt)'
    <3>1. PICK part \in Parts, to \in {"write config", "write manifest", "write index"} :
            /\ WriteBlob(p, part, to)
            /\ \/ part = "layer" /\ to = "write config"
               \/ /\ part = "config"
                  /\ to = IF job[p].format = "oci" THEN "write manifest" ELSE "write index"
               \/ part = "manifest" /\ to = "write index"
      BY <2>5 DEF WriteBlobs, Parts
    <3>2. /\ pc[p] = WriteOf[part] /\ pc' = [pc EXCEPT ![p] = to] /\ job' = job
          /\ sig' = sig /\ index' = index
          /\ blobs' = blobs \union {Blob(ReferralOf(p), part)}
      BY <3>1 DEF WriteBlob, Step, mind
    <3>3. /\ WriteOf["layer"] = "write layer" /\ WriteOf["config"] = "write config"
          /\ WriteOf["manifest"] = "write manifest"
      BY DEF WriteOf
    <3>4. ASSUME NEW q \in Procs, pc'[q] \in ReferSteps, job'[q].name = n,
                 job'[q].format = fmt, q # p
          PROVE  Has(q)'
      <4>1. pc'[q] = pc[q] /\ job'[q] = job[q] /\ sig'[q] = sig[q]
        BY <3>2, <3>4 DEF IInv, TypeOK
      <4>2. Has(q)
        BY <2>1, <3>4, <4>1 DEF Complete
      <4> QED BY <3>2, <4>1, <4>2, HasStays
    <3>5. ASSUME job'[p].name = n, job'[p].format = fmt PROVE Has(p)'
      <4>1. Has(p)
        BY <2>1, <3>1, <3>2, <3>3, <3>5 DEF Complete, ReferSteps, Parts
      <4>2. ReferralOf(p)' = ReferralOf(p)
        BY <3>2 DEF ReferralOf
      <4>3. \A a : Blob(ReferralOf(p), a)' = Blob(ReferralOf(p), a)
        BY <4>2 DEF Blob
      <4>4. pc'[p] = to
        BY <3>2 DEF IInv, TypeOK
      <4>5. CASE part = "layer"
        BY <3>1, <3>2, <4>3, <4>4, <4>5 DEF Has
      <4>6. CASE part = "config"
        <5>1. Blob(ReferralOf(p), "layer") \in blobs
          BY <3>2, <3>3, <4>1, <4>6 DEF Has
        <5> QED BY <3>1, <3>2, <4>3, <4>4, <4>6, <5>1 DEF Has
      <4>7. CASE part = "manifest"
        <5>1. Blob(ReferralOf(p), "layer") \in blobs /\ Blob(ReferralOf(p), "config") \in blobs
          BY <3>2, <3>3, <4>1, <4>7 DEF Has
        <5> QED BY <3>1, <3>2, <4>3, <4>4, <4>7, <5>1 DEF Has
      <4> QED BY <3>1, <4>5, <4>6, <4>7
    <3> QED BY <2>2, <3>2, <3>4, <3>5 DEF Complete
  <2>6. CASE \A p \in Procs : ~WriteBlobs(p) /\ ~WriteIndex(p) /\ ~DiesWriting(p)
    <3>1. blobs' = blobs /\ index' = index
      BY <2>6, QuietStays
    <3>2. ASSUME NEW q \in Procs, pc'[q] \in ReferSteps, job'[q].name = n,
                 job'[q].format = fmt
          PROVE  Has(q)'
      <4>1. CASE pc'[q] = "write layer"
        BY <4>1 DEF Has
      <4>2. CASE pc'[q] # "write layer"
        <5>1. pc'[q] = pc[q] /\ job'[q] = job[q] /\ sig'[q] = sig[q]
          BY <2>6, <3>2, <4>2, QuietStays
        <5>2. Has(q)
          BY <2>1, <3>2, <5>1 DEF Complete
        <5> QED BY <3>1, <5>1, <5>2, HasStays
      <4> QED BY <4>1, <4>2
    <3> QED BY <2>2, <3>1, <3>2 DEF Complete
  <2> QED BY <2>3, <2>4, <2>5, <2>6
<1> QED BY <1>1, <1>2, IInvAlways, PTL DEF Spec

(* Every blob that a referral leads to is there, unless a run for the same  *)
(* directory and format is at work or died, for any number of them.         *)
THEOREM ReferralsWholeCorrect == Spec => []ReferralsAreWhole
<1>1. Whole /\ IInv => ReferralsAreWhole
  <2> SUFFICES ASSUME Whole, IInv, NEW n \in Names, NEW fmt \in Formats,
                      index[n][fmt] \in Referral
               PROVE  \/ BlobsOf(index[n][fmt]) \subseteq blobs
                      \/ \E p \in Procs : /\ Runs(p, "refer") /\ pc[p] # "done"
                                          /\ job[p].name = n /\ job[p].format = fmt
    BY DEF ReferralsAreWhole
  <2>1. CASE Spoilt(n, fmt)
    BY <2>1 DEF Spoilt
  <2>2. CASE Complete(n, fmt)
    BY <2>2 DEF Complete
  <2> QED BY <2>1, <2>2 DEF Whole
<1> QED BY <1>1, WholeAlways, IInvAlways, PTL

-------------------------------------------------------------------------------
(* What a signer that is past the reading of its key holds, what a verifier *)
(* holds, and what is stored, as long as nobody replaced it.  Runs of       *)
(* keypair that begin after p make Settled(p) false for good, and so does   *)
(* another signer of the name for LastSigned(p): both are about the present *)
(* only, and InTurn is brought down to them at the step of Verify.          *)
Settled(p) ==
  \A q \in Procs : Runs(q, "keypair") =>
    /\ q \in before[p] /\ pc[q] = "done"
    /\ \A r \in Procs \ {q} : Runs(r, "keypair") => Apart(q, r)

LastSigned(s) ==
  \A q \in Procs \ {s} : SignsAs(q, Name[job[s].file]) => q \in before[s]

Signer(s) == Runs(s, "sign") /\ pc[s] \notin {"read private", "failed"}
Signed(s) == Runs(s, "sign") /\ pc[s] = "done"

HoldsKey ==
  \A s \in Procs : Signer(s) =>
    /\ key[s] \in Keys /\ content[s] \in Contents
    /\ Settled(s) => key[s] = private

ReadsKey ==
  \A s, v \in Procs :
    Signed(s) /\ Settled(s) /\ s \in before[v] /\ pc[v] = "read signature" =>
      key[v] = key[s]

StoredLast ==
  \A s \in Procs : Signed(s) /\ LastSigned(s) =>
    signature[Name[job[s].file]] = [key |-> key[s], content |-> content[s]]

Trusting == HoldsKey /\ ReadsKey /\ StoredLast

(* If the pair is settled for p after a step, it was before, and the step   *)
(* left it alone.                                                           *)
LEMMA SettledBefore ==
  ASSUME IInv, History, [Next]_vars, NEW p \in Procs, pc[p] # "new", Settled(p)'
  PROVE  Settled(p) /\ private' = private /\ public' = public
<1>0. pc'[p] # "new" /\ before'[p] = before[p]
  BY BegunStays
<1>1. ASSUME NEW q \in Procs, Runs(q, "keypair")
      PROVE  /\ Runs(q, "keypair")' /\ q \in before[p] /\ pc[q] = "done"
             /\ before'[q] = before[q]
  <2>1. Runs(q, "keypair")' /\ before'[q] = before[q]
    BY <1>1, BegunStays DEF Runs, Begun
  <2>2. q \in before[p] /\ pc'[q] = "done"
    BY <1>0, <2>1 DEF Settled
  <2> QED BY <2>1, <2>2, EndedStays DEF History
<1>2. Settled(p)
  BY <1>1 DEF Settled, Apart, Runs, Begun
<1>3. ASSUME NEW q \in Procs, Generates(q) PROVE FALSE
  <2>1. Runs(q, "keypair")' /\ pc[q] \notin Ended
    <3>1. ASSUME NEW j \in Jobs, KeypairBegins(q, j)
          PROVE  Runs(q, "keypair")' /\ pc[q] \notin Ended
      BY <3>1 DEF KeypairBegins, Begins, Runs, Begun, Ended, IInv, TypeOK
    <3>2. ASSUME WritePrivate(q) \/ CreatePublic(q) \/ WritePublic(q)
          PROVE  Runs(q, "keypair")' /\ pc[q] \notin Ended
      BY <3>2 DEF WritePrivate, CreatePublic, WritePublic, Step, Runs, Begun, Ended,
         KeypairSteps, IInv, TypeOK, Doing, Knows
    <3> QED BY <1>3, <3>1, <3>2 DEF Generates
  <2>2. q \in before[p]
    BY <1>0, <2>1 DEF Settled
  <2> QED BY <2>1, <2>2 DEF History
<1> QED BY <1>2, <1>3, PairStays

(* A settled pair is one. *)
LEMMA SettledPair ==
  ASSUME Paired, NEW p \in Procs, Settled(p)
  PROVE  private = public
<1>1. KeypairsApart
  BY DEF KeypairsApart, Settled
<1>2. AllDone
  BY DEF AllDone, Settled
<1> QED BY <1>1, <1>2 DEF Paired

(* Whose step it is. *)
LEMMA BeginsItself ==
  ASSUME IInv, [Next]_vars, NEW p \in Procs, pc[p] = "new", pc'[p] # "new"
  PROVE  Begin(p)
<1> USE DEF IInv, TypeOK
<1>1. ASSUME NEW q \in Procs, Begin(q) PROVE q = p
  BY <1>1, ZenonT(60)
  DEF Begin, KeypairBegins, SignBegins, VerifyBegins, ReferBegins, Begins
<1>2. ASSUME NEW q \in Procs, Continue(q) \/ Dies(q) \/ DiesWriting(q) PROVE FALSE
  <2>0. /\ WriteOf["layer"] = "write layer" /\ WriteOf["config"] = "write config"
        /\ WriteOf["manifest"] = "write manifest"
    BY DEF WriteOf
  <2>1. pc[q] # "new" /\ \E to : pc' = [pc EXCEPT ![q] = to]
    <3>1. CASE WriteBlobs(q)
      BY <2>0, <3>1 DEF WriteBlobs, WriteBlob, Step
    <3>2. CASE DiesWriting(q)
      BY <2>0, <3>2 DEF DiesWriting, Step
    <3>3. CASE ~WriteBlobs(q) /\ ~DiesWriting(q)
      BY <1>2, <3>3 DEF Continue, WritePrivate, CreatePublic, WritePublic, ReadPrivate,
         WriteCopy, CreateSignature, WriteSignature, ReadPublic, Verify, WriteIndex,
         Dies, Running, Step
    <3> QED BY <3>1, <3>2, <3>3
  <2> QED BY <2>1
<1>3. ASSUME NEW f \in Files, Build(f) PROVE FALSE
  BY <1>3 DEF Build
<1>4. CASE UNCHANGED vars
  BY <1>4 DEF vars
<1> QED BY <1>1, <1>2, <1>3, <1>4 DEF Next

LEMMA ContinuesItself ==
  ASSUME IInv, [Next]_vars, NEW p \in Procs, pc[p] # "new",
         pc'[p] # pc[p], pc'[p] # "failed"
  PROVE  Continue(p)
<1> USE DEF IInv, TypeOK
<1>1. ASSUME NEW q \in Procs, Begin(q) PROVE FALSE
  BY <1>1, ZenonT(60)
  DEF Begin, KeypairBegins, SignBegins, VerifyBegins, ReferBegins, Begins
<1>2. ASSUME NEW q \in Procs, Dies(q) \/ DiesWriting(q) PROVE FALSE
  BY <1>2 DEF Dies, DiesWriting, Step
<1>3. ASSUME NEW q \in Procs, Continue(q) PROVE q = p
  <2>1. \E to : pc' = [pc EXCEPT ![q] = to]
    <3>1. CASE WriteBlobs(q)
      BY <3>1 DEF WriteBlobs, WriteBlob, Step
    <3>2. CASE ~WriteBlobs(q)
      BY <1>3, <3>2 DEF Continue, WritePrivate, CreatePublic, WritePublic, ReadPrivate,
         WriteCopy, CreateSignature, WriteSignature, ReadPublic, Verify, WriteIndex, Step
    <3> QED BY <3>1, <3>2
  <2> QED BY <2>1
<1>4. ASSUME NEW f \in Files, Build(f) PROVE FALSE
  BY <1>4 DEF Build
<1>5. CASE UNCHANGED vars
  BY <1>5 DEF vars
<1> QED BY <1>1, <1>2, <1>3, <1>4, <1>5 DEF Next

(* A process that has begun reads a key in two steps, and its artifact in   *)
(* none.                                                                    *)
LEMMA KeyStays ==
  ASSUME IInv, [Next]_vars, NEW p \in Procs, pc[p] # "new"
  PROVE  /\ content'[p] = content[p]
         /\ ~ReadPrivate(p) /\ ~ReadPublic(p) => key'[p] = key[p]
<1> USE DEF IInv, TypeOK, mind
<1>1. ASSUME NEW q \in Procs, NEW j \in Jobs,
             \/ KeypairBegins(q, j) \/ SignBegins(q, j) \/ VerifyBegins(q, j)
             \/ ReferBegins(q, j)
      PROVE  content'[p] = content[p] /\ key'[p] = key[p]
  BY <1>1 DEF KeypairBegins, SignBegins, VerifyBegins, ReferBegins, Begins
<1>2. ASSUME NEW q \in Procs, Continue(q) \/ Dies(q) \/ DiesWriting(q)
      PROVE  /\ content'[p] = content[p]
             /\ ~ReadPrivate(p) /\ ~ReadPublic(p) => key'[p] = key[p]
  BY <1>2 DEF Continue, WritePrivate, CreatePublic, WritePublic, ReadPrivate, WriteCopy,
     CreateSignature, WriteSignature, ReadPublic, Verify, WriteBlobs, WriteBlob,
     WriteIndex, Dies, DiesWriting
<1>3. ASSUME NEW f \in Files, Build(f) PROVE content' = content /\ key' = key
  BY <1>3 DEF Build
<1>4. CASE UNCHANGED vars
  BY <1>4 DEF vars
<1> QED BY <1>1, <1>2, <1>3, <1>4 DEF Next, Begin

(* A signer was one before, or has just read its key. *)
LEMMA SignerBefore ==
  ASSUME IInv, [Next]_vars, NEW s \in Procs, Signer(s)'
  PROVE  /\ pc[s] # "new" /\ Runs(s, "sign") /\ job'[s] = job[s]
         /\ \/ Signer(s) /\ key'[s] = key[s] /\ content'[s] = content[s]
            \/ ReadPrivate(s)
<1>1. pc[s] # "new"
  <2>1. SUFFICES ASSUME pc[s] = "new" PROVE FALSE
    OBVIOUS
  <2>2. PICK j \in Jobs :
          KeypairBegins(s, j) \/ SignBegins(s, j) \/ VerifyBegins(s, j) \/ ReferBegins(s, j)
    BY <2>1, BeginsItself DEF Signer, Runs, Begun, Begin
  <2> QED BY <2>2 DEF KeypairBegins, SignBegins, VerifyBegins, ReferBegins, Begins,
         Signer, Runs, IInv, TypeOK
<1>2. Runs(s, "sign") /\ job'[s] = job[s]
  <2>1. job'[s] = job[s]
    BY <1>1, BegunStays
  <2> QED BY <1>1, <2>1 DEF Signer, Runs, Begun
<1>3. CASE Signer(s)
  <2>1. ~ReadPrivate(s) /\ ~ReadPublic(s)
    BY <1>3 DEF Signer, Runs, ReadPrivate, ReadPublic, Step, IInv, Doing, Knows,
       VerifySteps
  <2> QED BY <1>1, <1>2, <1>3, <2>1, KeyStays
<1>4. CASE ~Signer(s)
  <2>1. pc[s] = "read private"
    BY <1>2, <1>4, EndedStays DEF Signer, Ended
  <2>2. Continue(s)
    BY <1>1, <2>1, ContinuesItself DEF Signer
  <2>3. ~WriteBlobs(s)
    <3>1. /\ WriteOf["layer"] = "write layer" /\ WriteOf["config"] = "write config"
          /\ WriteOf["manifest"] = "write manifest"
      BY DEF WriteOf
    <3> QED BY <2>1, <3>1 DEF WriteBlobs, WriteBlob, Step
  <2>4. ReadPrivate(s)
    BY <2>1, <2>2, <2>3 DEF Continue, WritePrivate, CreatePublic, WritePublic, WriteCopy,
       CreateSignature, WriteSignature, ReadPublic, Verify, WriteIndex, Step
  <2> QED BY <1>1, <1>2, <2>4
<1> QED BY <1>3, <1>4

LEMMA HoldsKeyStep ==
  ASSUME IInv, History, Paired, HoldsKey, [Next]_vars
  PROVE  HoldsKey'
<1> SUFFICES ASSUME NEW s \in Procs, Signer(s)'
             PROVE  /\ key'[s] \in Keys /\ content'[s] \in Contents
                    /\ Settled(s)' => key'[s] = private'
  BY DEF HoldsKey, Keys
<1>1. CASE Signer(s) /\ key'[s] = key[s] /\ content'[s] = content[s]
  <2>1. pc[s] # "new"
    BY SignerBefore
  <2> QED BY <1>1, <2>1, SettledBefore DEF HoldsKey
<1>2. CASE ReadPrivate(s)
  <2>1. key'[s] = private /\ private' = private
    BY <1>2 DEF ReadPrivate, disk, IInv, TypeOK
  <2>2. private \in Keys
    BY <1>2 DEF ReadPrivate, Step, Signer, IInv, TypeOK
  <2>3. content'[s] \in Contents
    BY <1>2 DEF ReadPrivate, Step, IInv, TypeOK, Doing, Knows, SignSteps
  <2> QED BY <2>1, <2>2, <2>3
<1> QED BY <1>1, <1>2, SignerBefore

LEMMA ReadsKeyStep ==
  ASSUME IInv, History, Paired, HoldsKey, ReadsKey, [Next]_vars
  PROVE  ReadsKey'
<1> SUFFICES ASSUME NEW s \in Procs, NEW v \in Procs, Signed(s)', Settled(s)',
                    s \in before'[v], pc'[v] = "read signature"
             PROVE  key'[v] = key'[s]
  BY DEF ReadsKey
<1>1. pc[v] # "new"
  <2>1. SUFFICES ASSUME pc[v] = "new" PROVE FALSE
    OBVIOUS
  <2>2. PICK j \in Jobs :
          KeypairBegins(v, j) \/ SignBegins(v, j) \/ VerifyBegins(v, j) \/ ReferBegins(v, j)
    BY <2>1, BeginsItself DEF Begin
  <2> QED BY <2>2 DEF KeypairBegins, SignBegins, VerifyBegins, ReferBegins, Begins,
         IInv, TypeOK
<1>2. s \in before[v] /\ pc[s] \in Ended
  BY <1>1, BegunStays DEF History
<1>3. Signed(s) /\ key'[s] = key[s] /\ pc[s] # "new"
  BY <1>2, EndedStays DEF Signed, Runs, Begun, Ended
<1>4. Settled(s)
  BY <1>3, SettledBefore
<1>5. CASE pc[v] = "read signature"
  <2>1. key'[v] = key[v]
    BY <1>1, <1>5, KeyStays DEF ReadPrivate, ReadPublic, Step
  <2> QED BY <1>2, <1>3, <1>4, <1>5, <2>1 DEF ReadsKey
<1>6. CASE pc[v] # "read signature"
  <2>1. Continue(v)
    BY <1>1, <1>6, ContinuesItself
  <2>2. ReadPublic(v)
    BY <2>1 DEF Continue, WritePrivate, CreatePublic, WritePublic, ReadPrivate, WriteCopy,
       CreateSignature, WriteSignature, Verify, Verdict, WriteBlobs, WriteBlob,
       WriteIndex, Step, IInv, TypeOK
  <2>3. key'[v] = public
    BY <2>2 DEF ReadPublic, IInv, TypeOK
  <2>4. key[s] = private
    BY <1>3, <1>4 DEF HoldsKey, Signed, Signer
  <2> QED BY <1>3, <1>4, <2>3, <2>4, SettledPair
<1> QED BY <1>5, <1>6

LEMMA StoredLastStep ==
  ASSUME IInv, History, StoredLast, [Next]_vars
  PROVE  StoredLast'
<1> SUFFICES ASSUME NEW s \in Procs, Signed(s)', LastSigned(s)'
             PROVE  signature'[Name[job'[s].file]] =
                      [key |-> key'[s], content |-> content'[s]]
  BY DEF StoredLast
<1> DEFINE n == Name[job[s].file]
<1>1. pc[s] # "new" /\ Runs(s, "sign") /\ job'[s] = job[s] /\ before'[s] = before[s]
  BY SignerBefore, BegunStays DEF Signer, Signed
<1>2. CASE pc[s] = "done"
  <2>1. Signed(s) /\ key'[s] = key[s] /\ content'[s] = content[s]
    BY <1>1, <1>2, EndedStays DEF Signed, Ended
  <2>2. LastSigned(s)
    BY <1>1, BegunStays DEF LastSigned, SignsAs, Runs, Begun
  <2>3. ASSUME NEW q \in Procs, CreateSignature(q) \/ WriteSignature(q)
        PROVE  Name[job[q].file] # n
    <3>1. /\ pc[q] \notin Ended /\ job[q].cmd = "sign" /\ pc'[q] # "new"
          /\ job'[q] = job[q]
      BY <2>3, ZenonT(60)
      DEF CreateSignature, WriteSignature, Step, Ended, IInv, TypeOK, Doing,
         Knows, SignSteps
    <3>2. q # s /\ q \notin before[s]
      BY <1>2, <3>1 DEF History, Ended
    <3> QED BY <1>1, <3>1, <3>2 DEF LastSigned, SignsAs, Runs, Begun
  <2>4. signature'[n] = signature[n]
    <3>0. n \in Names
      BY <1>1, JobTypes DEF Runs, IInv, Doing, Knows
    <3>1. ASSUME NEW q \in Procs, CreateSignature(q) \/ WriteSignature(q)
          PROVE  signature'[n] = signature[n]
      BY <2>3, <3>0, <3>1 DEF CreateSignature, WriteSignature, IInv, TypeOK
    <3>2. CASE \A q \in Procs : ~CreateSignature(q) /\ ~WriteSignature(q)
      BY <3>2, SignatureStays
    <3> QED BY <3>1, <3>2
  <2> QED BY <1>1, <2>1, <2>2, <2>4 DEF StoredLast
<1>3. CASE pc[s] # "done"
  <2>1. Continue(s)
    BY <1>1, <1>3, ContinuesItself DEF Signed
  <2>2. /\ pc'[s] = "done" /\ job[s].cmd = "sign"
        /\ pc \in [Procs -> {"new"} \union Steps \union Ended]
    BY <1>1 DEF Signed, Runs, IInv, TypeOK
  <2>3. ~WriteBlobs(s) /\ ~Verify(s)
    BY <2>2 DEF WriteBlobs, WriteBlob, Verify, Verdict, Step
  <2>4. ~WritePublic(s) /\ ~WriteIndex(s)
    BY <2>2 DEF WritePublic, WriteIndex, Step, IInv, Doing, Knows, KeypairSteps, ReferSteps
  <2>5. WriteSignature(s)
    BY <2>1, <2>2, <2>3, <2>4 DEF Continue, WritePrivate, CreatePublic, ReadPrivate,
       WriteCopy, CreateSignature, ReadPublic, Step
  <2>6. n \in Names
    BY <2>5, JobTypes DEF WriteSignature, Step, IInv, Doing, Knows, SignSteps
  <2> QED BY <1>1, <2>5, <2>6 DEF WriteSignature, Step, mind, IInv, TypeOK
<1> QED BY <1>2, <1>3

LEMMA TrustingAlways == Spec => []Trusting
<1>1. Init => Trusting
  BY DEF Init, Trusting, HoldsKey, ReadsKey, StoredLast, Signer, Signed, Runs, Begun
<1>2. IInv /\ History /\ Paired /\ Trusting /\ [Next]_vars => Trusting'
  BY HoldsKeyStep, ReadsKeyStep, StoredLastStep DEF Trusting
<1> QED BY <1>1, <1>2, IInvAlways, HistoryAlways, PairedAlways, PTL DEF Spec

(* What was signed, and has not changed, is trusted, when the runs that     *)
(* write what that depends on took turns: for any number of runs.           *)
THEOREM SignedCorrect == Spec => []SignedIsTrusted
<1>1. Init => SignedIsTrusted
  BY DEF Init, SignedIsTrusted, Runs, Begun
<1>2. IInv /\ History /\ Paired /\ Trusting /\ SignedIsTrusted /\ [Next]_vars
        => SignedIsTrusted'
  <2> SUFFICES ASSUME IInv, History, Paired, Trusting, SignedIsTrusted, [Next]_vars,
                      NEW s \in Procs, NEW v \in Procs,
                      Signed(s)', Runs(v, "verify")',
                      pc'[v] \in {"trusted", "untrusted"}, InTurn(s, v)',
                      job'[v].file = job'[s].file, content'[v] = content'[s]
               PROVE  pc'[v] = "trusted"
    BY DEF SignedIsTrusted, Signed
  <2>1. pc[v] # "new"
    <3>1. SUFFICES ASSUME pc[v] = "new" PROVE FALSE
      OBVIOUS
    <3>2. PICK j \in Jobs :
            KeypairBegins(v, j) \/ SignBegins(v, j) \/ VerifyBegins(v, j) \/ ReferBegins(v, j)
      BY <3>1, BeginsItself DEF Begin
    <3> QED BY <3>2 DEF KeypairBegins, SignBegins, VerifyBegins, ReferBegins, Begins,
           IInv, TypeOK
  <2>2. job'[v] = job[v] /\ before'[v] = before[v] /\ Runs(v, "verify")
    BY <2>1, BegunStays DEF Runs, Begun
  <2>3. s \in before[v] /\ pc[s] \in Ended
    BY <2>2 DEF InTurn, History
  <2>4. /\ Signed(s) /\ job'[s] = job[s] /\ before'[s] = before[s]
        /\ key'[s] = key[s] /\ content'[s] = content[s] /\ pc'[s] = pc[s]
    BY <2>3, EndedStays DEF Signed, Runs, Begun, Ended
  <2>5. content'[v] = content[v]
    BY <2>1, KeyStays
  <2>6. ASSUME NEW q \in Procs, pc[q] # "new"
        PROVE  /\ pc'[q] # "new" /\ job'[q] = job[q] /\ before'[q] = before[q]
               /\ q \in before[s] => pc'[q] = pc[q]
    BY <2>6, BegunStays, EndedStays DEF History
  <2>7. InTurn(s, v)
    BY <2>2, <2>3, <2>4, <2>6 DEF InTurn, SignsAs, Runs, Begun, Apart
  <2>8. CASE pc[v] \in {"trusted", "untrusted"}
    BY <2>2, <2>4, <2>5, <2>7, <2>8, EndedStays DEF SignedIsTrusted, Signed, Ended
  <2>9. CASE pc[v] \notin {"trusted", "untrusted"}
    <3>1. Continue(v)
      BY <2>1, <2>9, ContinuesItself
    <3>2. Verify(v)
      BY <3>1 DEF Continue, WritePrivate, CreatePublic, WritePublic, ReadPrivate,
         WriteCopy, CreateSignature, WriteSignature, ReadPublic, WriteBlobs, WriteBlob,
         WriteIndex, Step, IInv, TypeOK
    <3>3. pc[v] = "read signature" /\ pc'[v] \in Verdict(signature[Name[job[v].file]], v)
      BY <3>2 DEF Verify, Step, IInv, TypeOK
    <3>4. \A q \in Procs : v \notin before[q]
      BY <3>3 DEF History, Ended
    <3>5. Settled(s) /\ LastSigned(s)
      BY <2>7, <3>4 DEF InTurn, Settled, LastSigned
    <3>6. key[s] \in Keys /\ content[s] \in Contents
      BY <2>4 DEF Trusting, HoldsKey, Signer, Signed
    <3>7. key[v] = key[s]
      BY <2>3, <2>4, <3>3, <3>5 DEF Trusting, ReadsKey
    <3>8. signature[Name[job[v].file]] = [key |-> key[v], content |-> content[v]]
      BY <2>2, <2>4, <2>5, <3>5, <3>7 DEF Trusting, StoredLast
    <3>9. [key |-> key[v], content |-> content[v]] \in Signature
      BY <2>4, <2>5, <3>6, <3>7 DEF Signature
    <3>10. key[v] # Torn
      BY <3>6, <3>7, SigningAssumption
    <3> QED BY <3>3, <3>8, <3>9, <3>10, SigningAssumption DEF Verdict
  <2> QED BY <2>8, <2>9
<1> QED BY <1>1, <1>2, IInvAlways, HistoryAlways, PairedAlways, TrustingAlways, PTL DEF Spec
===============================================================================
