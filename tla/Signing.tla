-------------------------------- MODULE Signing --------------------------------
(***************************************************************************)
(* The sub commands over .ssh/: keypair, sign (also the first thing that   *)
(* package does for a service), verify, and create-referral-manifest.      *)
(* Each is a process of its own that ends by itself; several may run at    *)
(* once in one directory, nothing locks a file, and any of them may die    *)
(* between two steps.                                                      *)
(*                                                                         *)
(* Creating a file empties it; the bytes come in a later step.  In between *)
(* it is Torn, and the other commands may see that.  Files none of them    *)
(* reads (copies, referrals) are written in one step, and left Torn by a   *)
(* death in it.  A key pair is named after the process that generated it.  *)
(***************************************************************************)
EXTENDS FiniteSets

CONSTANTS
  Procs,     \* runs of the program with one of the four sub commands
  Files,     \* artifacts
  Name,      \* Name[f]: the part of the path of f after its last "/"
  Contents,  \* what an artifact may contain
  Jobs,      \* sub commands with their arguments
  OldKey,    \* the pair an earlier run of keypair left, if any
  Missing, Torn

VARIABLES
  artifact,   \* artifact[f]: the contents of f
  copy,       \* copy[f]: the contents of f.signed
  private,    \* .ssh/private.pem
  public,     \* .ssh/public.pem
  signature,  \* signature[n]: .ssh/n-signature
  blobs,      \* complete blobs under the directories generated/n/signature/
  index,      \* index[n][fmt]: what the index.json or manifest.json of n says
  pc,         \* pc[p]: what process p does next, or how it ended
  job,        \* job[p]: its sub command
  content,    \* content[p]: what it read of its artifact
  key,        \* key[p]: the key it generated, or read
  sig,        \* sig[p]: the signature it read (create-referral-manifest)
  before      \* before[p]: the processes that had ended when p began

disk == <<artifact, copy, private, public, signature, blobs, index>>
mind == <<content, key, sig>>
vars == <<disk, pc, job, mind, before>>

Names    == {Name[f] : f \in Files}
Formats  == {"oci", "dockerv2"}
Subjects == {j.subject : j \in {i \in Jobs : i.cmd = "refer"}}
NoJob    == [cmd |-> "none"]

Keys      == Procs \union {OldKey}
Signature == [key : Keys, content : Contents]
Referral  == [name : Names, format : Formats, sig : Signature \union {Torn},
              subject : Subjects]

(* "failed" is an error, a panic or a kill: the files do not tell. *)
Ended == {"done", "trusted", "untrusted", "failed"}
Steps == {"write private", "create public", "write public",
          "read private", "write copy",
          "create signature", "write signature",
          "read public", "read signature",
          "write layer", "write config", "write manifest", "write index"}

ASSUME SigningAssumption ==
  /\ DOMAIN Name = Files
  /\ Missing # Torn /\ OldKey \notin Procs
  /\ {Missing, Torn} \intersect (Contents \union Keys \union Signature \union Referral) = {}
  /\ \A j \in Jobs :
       \/ j.cmd = "keypair"
       \/ j.cmd \in {"sign", "verify"} /\ j.file \in Files
       \/ j.cmd = "refer" /\ j.name \in Names /\ j.format \in Formats

Running(p)  == pc[p] \notin Ended \union {"new"}
Begun(p)    == pc[p] # "new"
Runs(p, c)  == Begun(p) /\ job[p].cmd = c
SignsAs(p, n) == Runs(p, "sign") /\ Name[job[p].file] = n

Init ==
  /\ artifact \in [Files -> Contents]
  /\ copy = [f \in Files |-> Missing]
  /\ private \in {Missing, OldKey}
  /\ public = private
  /\ signature = [n \in Names |-> Missing]
  /\ blobs = {}
  /\ index = [n \in Names |-> [fmt \in Formats |-> Missing]]
  /\ pc = [p \in Procs |-> "new"]
  /\ job = [p \in Procs |-> NoJob]
  /\ content = [p \in Procs |-> Missing]
  /\ key = [p \in Procs |-> Missing]
  /\ sig = [p \in Procs |-> Missing]
  /\ before = [p \in Procs |-> {}]

Begins(p, j, to) ==
  /\ pc[p] = "new"
  /\ pc' = [pc EXCEPT ![p] = to]
  /\ job' = [job EXCEPT ![p] = j]
  /\ before' = [before EXCEPT ![p] = {q \in Procs : pc[q] \in Ended}]

Step(p, from, to) ==
  /\ pc[p] = from
  /\ pc' = [pc EXCEPT ![p] = to]
  /\ UNCHANGED <<job, before>>

-------------------------------------------------------------------------------
(* create_keypair *)

KeypairBegins(p, j) ==
  /\ j.cmd = "keypair"
  /\ Begins(p, j, "write private")
  /\ private' = Torn
  /\ key' = [key EXCEPT ![p] = p]
  /\ UNCHANGED <<artifact, copy, public, signature, blobs, index, content, sig>>

(* Mutant: a public half that is there is kept. *)
WritePrivateKeepsPublic(p) ==
  /\ Step(p, "write private", IF public = Missing THEN "create public" ELSE "done")
  /\ private' = key[p]
  /\ UNCHANGED <<artifact, copy, public, signature, blobs, index, mind>>

WritePrivate(p) ==
  /\ Step(p, "write private", "create public")
  /\ private' = key[p]
  /\ UNCHANGED <<artifact, copy, public, signature, blobs, index, mind>>

CreatePublic(p) ==
  /\ Step(p, "create public", "write public")
  /\ public' = Torn
  /\ UNCHANGED <<artifact, copy, private, signature, blobs, index, mind>>

WritePublic(p) ==
  /\ Step(p, "write public", "done")
  /\ public' = key[p]
  /\ UNCHANGED <<artifact, copy, private, signature, blobs, index, mind>>

-------------------------------------------------------------------------------
(* sign_artifact *)

(* The artifact is read whole, before anything else.  One that cannot be   *)
(* opened is a process that begins and then dies.                          *)
SignBegins(p, j) ==
  /\ j.cmd = "sign"
  /\ Begins(p, j, "read private")
  /\ content' = [content EXCEPT ![p] = artifact[j.file]]
  /\ UNCHANGED <<disk, key, sig>>

(* Mutant: the key is not parsed before it is used. *)
ReadPrivateUnparsed(p) ==
  /\ Step(p, "read private", IF private = Missing THEN "failed" ELSE "write copy")
  /\ key' = [key EXCEPT ![p] = private]
  /\ UNCHANGED <<disk, content, sig>>

(* A missing key is an unwrap() of no error, a torn one does not parse. *)
ReadPrivate(p) ==
  /\ Step(p, "read private", IF private \in Keys THEN "write copy" ELSE "failed")
  /\ key' = [key EXCEPT ![p] = private]
  /\ UNCHANGED <<disk, content, sig>>

WriteCopy(p) ==
  /\ Step(p, "write copy", "create signature")
  /\ copy' = [copy EXCEPT ![job[p].file] = content[p]]
  /\ UNCHANGED <<artifact, private, public, signature, blobs, index, mind>>

CreateSignature(p) ==
  /\ Step(p, "create signature", "write signature")
  /\ signature' = [signature EXCEPT ![Name[job[p].file]] = Torn]
  /\ UNCHANGED <<artifact, copy, private, public, blobs, index, mind>>

(* Mutant: what is signed is read again when the signature is written. *)
WriteSignatureOfFile(p) ==
  LET f == job[p].file IN
  /\ Step(p, "write signature", "done")
  /\ signature' = [signature EXCEPT ![Name[f]] =
       [key |-> key[p], content |-> artifact[f]]]
  /\ UNCHANGED <<artifact, copy, private, public, blobs, index, mind>>

(* Stored under the base name, whatever the directory of the artifact. *)
WriteSignature(p) ==
  /\ Step(p, "write signature", "done")
  /\ signature' = [signature EXCEPT ![Name[job[p].file]] =
       [key |-> key[p], content |-> content[p]]]
  /\ UNCHANGED <<artifact, copy, private, public, blobs, index, mind>>

-------------------------------------------------------------------------------
(* verify_artifact; the opens of the artifact and the key are unwrapped. *)

VerifyBegins(p, j) ==
  /\ j.cmd = "verify"
  /\ Begins(p, j, "read public")
  /\ content' = [content EXCEPT ![p] = artifact[j.file]]
  /\ UNCHANGED <<disk, key, sig>>

ReadPublic(p) ==
  /\ Step(p, "read public", IF public = Missing THEN "failed" ELSE "read signature")
  /\ key' = [key EXCEPT ![p] = public]
  /\ UNCHANGED <<disk, content, sig>>

(* Mutant: only the contents are compared. *)
VerdictIgnoresKey(s, p) ==
  IF s = Missing THEN {"untrusted"}
  ELSE IF key[p] = Torn THEN {"failed"}
  ELSE IF s = Torn THEN {"untrusted", "failed"}
  ELSE IF s.content = content[p] THEN {"trusted"}
  ELSE {"untrusted"}

(* What Verifier says of the signature s: the key is only parsed when      *)
(* there is a signature, and one that is too short is false or an error.   *)
Verdict(s, p) ==
  IF s = Missing THEN {"untrusted"}
  ELSE IF key[p] = Torn THEN {"failed"}
  ELSE IF s = Torn THEN {"untrusted", "failed"}
  ELSE IF s = [key |-> key[p], content |-> content[p]] THEN {"trusted"}
  ELSE {"untrusted"}

Verify(p) ==
  /\ pc[p] = "read signature"
  /\ \E v \in Verdict(signature[Name[job[p].file]], p) :
       Step(p, "read signature", v)
  /\ UNCHANGED <<disk, mind>>

-------------------------------------------------------------------------------
(* create_referral_manifest.  Blobs are named after what they contain, so  *)
(* the same signature for the same subject rewrites the same blobs.        *)

ReferralOf(p) ==
  [name |-> job[p].name, format |-> job[p].format, sig |-> sig[p],
   subject |-> job[p].subject]

(* The config is the same for all referrals of a directory. *)
Blob(r, part) ==
  IF part = "config" THEN <<part, r.name, r.format>> ELSE <<part, r>>

(* The manifest in dockerv2 format is a file of its own, not a blob. *)
BlobsOf(r) ==
  {Blob(r, part) : part \in IF r.format = "oci" THEN {"layer", "config", "manifest"}
                                                ELSE {"layer", "config"}}

(* Mutant: an artifact that was never signed gets an empty signature. *)
ReferBeginsUnsigned(p, j) ==
  /\ j.cmd = "refer"
  /\ LET s == signature[j.name] IN
       /\ Begins(p, j, "write layer")
       /\ sig' = [sig EXCEPT ![p] = IF s = Missing THEN Torn ELSE s]
  /\ UNCHANGED <<disk, content, key>>

(* The bytes of the signature are not looked at: a torn file will do. *)
ReferBegins(p, j) ==
  /\ j.cmd = "refer"
  /\ LET s == signature[j.name] IN
       /\ Begins(p, j, IF s = Missing THEN "failed" ELSE "write layer")
       /\ sig' = [sig EXCEPT ![p] = s]
  /\ UNCHANGED <<disk, content, key>>

WriteOf == [layer |-> "write layer", config |-> "write config",
            manifest |-> "write manifest"]

WriteBlob(p, part, to) ==
  /\ Step(p, WriteOf[part], to)
  /\ blobs' = blobs \union {Blob(ReferralOf(p), part)}
  /\ UNCHANGED <<artifact, copy, private, public, signature, index, mind>>

(* Mutant: the dockerv2 format is written without its config. *)
WriteBlobsNoConfig(p) ==
  \/ WriteBlob(p, "layer",
       IF job[p].format = "oci" THEN "write config" ELSE "write index")
  \/ WriteBlob(p, "config", "write manifest")
  \/ WriteBlob(p, "manifest", "write index")

(* dockerv2 has one manifest.json, written over the last one, in place of  *)
(* a blob and an index.                                                    *)
WriteBlobs(p) ==
  \/ WriteBlob(p, "layer", "write config")
  \/ WriteBlob(p, "config",
       IF job[p].format = "oci" THEN "write manifest" ELSE "write index")
  \/ WriteBlob(p, "manifest", "write index")

WriteIndex(p) ==
  /\ Step(p, "write index", "done")
  /\ index' = [index EXCEPT ![job[p].name][job[p].format] = ReferralOf(p)]
  /\ UNCHANGED <<artifact, copy, private, public, signature, blobs, mind>>

-------------------------------------------------------------------------------
(* An error that the code hands on, a panic, or a kill.  What was written  *)
(* stays.  After an error the sign command says "successfully signed" all  *)
(* the same.                                                               *)
Dies(p) ==
  /\ Running(p)
  /\ pc' = [pc EXCEPT ![p] = "failed"]
  /\ UNCHANGED <<disk, job, mind, before>>

(* The same in the middle of a write. *)
DiesWriting(p) ==
  /\ \/ /\ Step(p, "write copy", "failed")
        /\ copy' = [copy EXCEPT ![job[p].file] = Torn]
        /\ UNCHANGED <<blobs, index>>
     \/ \E part \in {"layer", "config", "manifest"} :
        /\ Step(p, WriteOf[part], "failed")
        /\ blobs' = blobs \ {Blob(ReferralOf(p), part)}
        /\ UNCHANGED <<copy, index>>
     \/ /\ Step(p, "write index", "failed")
        /\ index' = [index EXCEPT ![job[p].name][job[p].format] = Torn]
        /\ UNCHANGED <<copy, blobs>>
  /\ UNCHANGED <<artifact, private, public, signature, mind>>

(* The operator builds an artifact anew. *)
Build(f) ==
  /\ \E c \in Contents : artifact' = [artifact EXCEPT ![f] = c]
  /\ UNCHANGED <<copy, private, public, signature, blobs, index, pc, job, mind,
                 before>>

Begin(p) ==
  \E j \in Jobs :
    KeypairBegins(p, j) \/ SignBegins(p, j) \/ VerifyBegins(p, j) \/ ReferBegins(p, j)

Continue(p) ==
  \/ WritePrivate(p) \/ CreatePublic(p) \/ WritePublic(p)
  \/ ReadPrivate(p) \/ WriteCopy(p)
  \/ CreateSignature(p) \/ WriteSignature(p)
  \/ ReadPublic(p) \/ Verify(p)
  \/ WriteBlobs(p) \/ WriteIndex(p)

Next ==
  \/ \E p \in Procs : Begin(p) \/ Continue(p) \/ Dies(p) \/ DiesWriting(p)
  \/ \E f \in Files : Build(f)

Spec == Init /\ [][Next]_vars

-------------------------------------------------------------------------------
KeyFile == Keys \union {Missing, Torn}

(* Types, and what each step knows of the data of its process. *)
TypeOK ==
  /\ artifact \in [Files -> Contents]
  /\ copy \in [Files -> Contents \union {Missing, Torn}]
  /\ private \in KeyFile /\ public \in KeyFile
  /\ signature \in [Names -> Signature \union {Missing, Torn}]
  /\ index \in [Names -> [Formats -> Referral \union {Missing, Torn}]]
  /\ pc \in [Procs -> {"new"} \union Steps \union Ended]
  /\ job \in [Procs -> Jobs \union {NoJob}]
  /\ content \in [Procs -> Contents \union {Missing}]
  /\ key \in [Procs -> KeyFile]
  /\ sig \in [Procs -> Signature \union {Missing, Torn}]
  /\ before \in [Procs -> SUBSET Procs]

(* p and q did not overlap, if both ran: one had ended when the other began. *)
Apart(p, q) == Begun(p) /\ Begun(q) => p \in before[q] \/ q \in before[p]

(* Whoever verify calls trusted, was signed: some run of sign read that very *)
(* content from an artifact of the same base name and held the private half *)
(* of the public key verify read, whatever else ran, died or was built in   *)
(* between (verify_artifact, sign_artifact).                                *)
TrustedMeansSigned ==
  \A v \in Procs : pc[v] = "trusted" =>
    \E s \in Procs :
      /\ SignsAs(s, Name[job[v].file]) /\ pc[s] = "done"
      /\ key[s] = key[v] /\ content[s] = content[v]

(* Verify answers "trusted" for what was signed and has not changed, if the *)
(* commands that write what it depends on took turns: the runs of keypair   *)
(* had all ended well, one after the other, before the signing began, the   *)
(* signing had ended before the verification began, and no other signing    *)
(* for that base name came between them or overlapped either; whatever      *)
(* came before or after, and however it ended.                              *)
InTurn(s, v) ==
  /\ s \in before[v]
  /\ \A q \in Procs : Runs(q, "keypair") =>
       \/ v \in before[q]
       \/ /\ q \in before[s] /\ pc[q] = "done"
          /\ \A r \in Procs \ {q} : Runs(r, "keypair") => Apart(q, r)
  /\ \A q \in Procs \ {s} :
       SignsAs(q, Name[job[s].file]) => q \in before[s] \/ v \in before[q]

SignedIsTrusted ==
  \A s, v \in Procs :
    /\ Runs(s, "sign") /\ pc[s] = "done"
    /\ Runs(v, "verify") /\ pc[v] \in {"trusted", "untrusted"}
    /\ InTurn(s, v)
    /\ job[v].file = job[s].file /\ content[v] = content[s]
    => pc[v] = "trusted"

(* The two halves on disk belong together when every run of keypair ended   *)
(* well and none overlapped another: only a run that died half-way, or two  *)
(* at once, leave a pair that does not match (create_keypair replaces the   *)
(* private half first).                                                     *)
PairsMatch ==
  (\A p, q \in Procs : p # q /\ Runs(p, "keypair") /\ Runs(q, "keypair") => Apart(p, q))
  /\ (\A p \in Procs : Runs(p, "keypair") => pc[p] = "done")
  => private = public

(* Every blob that a referral's index or manifest.json leads to is there,   *)
(* complete, unless a run for the same directory is at work or died: it may *)
(* rewrite a blob of that name (create_referral_manifest writes bottom up,  *)
(* and in place).                                                           *)
ReferralsAreWhole ==
  \A n \in Names : \A fmt \in Formats :
    index[n][fmt] \in Referral =>
      \/ BlobsOf(index[n][fmt]) \subseteq blobs
      \/ \E p \in Procs : /\ Runs(p, "refer") /\ pc[p] # "done"
                          /\ job[p].name = n /\ job[p].format = fmt

(* A referral carries a signature some run of sign made for its name, and a *)
(* torn one only if it overlapped with a run of sign, or one died.          *)
ReferralsAreSigned ==
  \A p \in Procs : Runs(p, "refer") /\ pc[p] = "done" =>
    \E s \in Procs :
      /\ SignsAs(s, job[p].name)
      /\ \/ sig[p] = [key |-> key[s], content |-> content[s]]
         \/ sig[p] = Torn /\ (pc[s] # "done" \/ ~Apart(s, p))

===============================================================================
