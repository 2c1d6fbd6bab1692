--------------------------- MODULE StorageProofs ----------------------------
(*****************************************************************************)
(* Blobs are what their digests say, for any clients and chunks; backups are *)
(* made one at a time, each slot's once, and a restore is quiet and can be   *)
(* undone, for any numbers of jobs and limits.                               *)
(*****************************************************************************)
EXTENDS Registry, Backups, Integers, FiniteSetTheorems, WellFoundedInduction,
        TLAPS

(* Where there is a file there is the content its name stands for, and no   *)
(* file has another name than a digest.                                     *)
BlobsSound ==
  blobs \in [Content -> Content \cup {NoFile}] /\ StoredBlobIsItsDigest

(* Of all that is done to an upload, only its end touches the blobs.        *)
LEMMA FinalizeSound ==
  ASSUME BlobsSound, NEW u, NEW data, NEW d, FinalizeUpload(u, data, d)
  PROVE  BlobsSound'
<1>1. CASE data = d /\ blobs[d] = NoFile
  <2>1. blobs' = [blobs EXCEPT ![d] = d]
    BY <1>1 DEF FinalizeUpload
  <2>. QED BY <2>1 DEF BlobsSound, StoredBlobIsItsDigest
<1>2. CASE ~(data = d /\ blobs[d] = NoFile)
  BY <1>2 DEF FinalizeUpload, BlobsSound, StoredBlobIsItsDigest
<1>. QED BY <1>1, <1>2

(* The collection only takes files away.                                    *)
LEMMA SweepSound ==
  ASSUME BlobsSound, CollectSweep
  PROVE  BlobsSound'
BY DEF BlobsSound, StoredBlobIsItsDigest, CollectSweep

(* Everything else leaves the blobs alone.                                  *)
LEMMA BlobMoves ==
  ASSUME [RegistryNext]_registryVars
  PROVE  \/ UNCHANGED blobs
         \/ CollectSweep
         \/ \E u, data, d : FinalizeUpload(u, data, d)
<1>. USE DEF registryVars, files, rows, people, uploadRest
<1>1. CASE UNCHANGED registryVars
  BY <1>1
<1>2. CASE UploadsNext
  <2>1. CASE \E c \in Clients, u \in UploadIds : CompleteUpload(c, u)
    BY <2>1 DEF CompleteUpload
  <2>2. CASE \E c \in Clients : GetToken(c) \/ TokenLapses(c)
    BY <2>2 DEF GetToken, TokenLapses
  <2>3. CASE \E c \in Clients, r \in Repos : StartUpload(c, r)
    BY <2>3 DEF StartUpload
  <2>4. CASE \E c \in Clients, u \in UploadIds : UploadChunk(c, u) \/ CancelUpload(c, u)
    BY <2>4 DEF UploadChunk, CancelUpload
  <2>5. CASE \E c \in Holders :
               CreateDeployToken(c) \/ RevokeDeployToken(c) \/ DeleteDeployToken(c)
    BY <2>5 DEF CreateDeployToken, RevokeDeployToken, DeleteDeployToken, SetToken
  <2>. QED BY <1>2, <2>1, <2>2, <2>3, <2>4, <2>5 DEF UploadsNext
<1>3. CASE ImagesNext
  <2>1. CASE CollectMark \/ CollectSweep
    BY <2>1 DEF CollectMark
  <2>2. CASE \E c \in Clients :
               \/ PutStore(c) \/ PutCommit(c)
               \/ \E r \in Repos, m \in Manifests :
                    DeleteManifest(c, r, m) \/ \E t \in Tags : PutCheck(c, r, t, m)
    BY <2>2 DEF PutStore, PutCommit, DeleteManifest, PutCheck
  <2>3. CASE \E r \in Repos :
               \/ UpdateRepository(r) \/ DeleteRepository(r)
               \/ \E t \in Tags : DeleteTag(r, t)
    BY <2>3 DEF UpdateRepository, DeleteRepository, DeleteTag
  <2>. QED BY <1>3, <2>1, <2>2, <2>3 DEF ImagesNext
<1>. QED BY <1>1, <1>2, <1>3 DEF RegistryNext

(* So every step keeps the blobs sound. *)
LEMMA BlobsStep == BlobsSound /\ [RegistryNext]_registryVars => BlobsSound'
<1>. SUFFICES ASSUME BlobsSound, [RegistryNext]_registryVars
              PROVE  BlobsSound'
  OBVIOUS
<1>1. CASE UNCHANGED blobs
  BY <1>1 DEF BlobsSound, StoredBlobIsItsDigest
<1>. QED BY <1>1, BlobMoves, FinalizeSound, SweepSound

(* Every blob is the content its digest names, whatever chunks were sent    *)
(* and however often, and whatever was collected in between.                *)
THEOREM BlobsAlways == RegistrySpec => []StoredBlobIsItsDigest
<1>1. RegistryInit => BlobsSound
  BY DEF RegistryInit, BlobsSound, StoredBlobIsItsDigest
<1>. QED BY <1>1, BlobsStep, PTL DEF RegistrySpec, BlobsSound

-----------------------------------------------------------------------------
(* The registry's files and rows: what they may hold...                      *)
Pushes == [at : {"checked", "stored"}, repo : Repos, tag : Tags, manifest : Manifests,
           creates : BOOLEAN, hadImage : BOOLEAN, hadTag : BOOLEAN, lost : BOOLEAN]
RegistryTyped ==
  /\ uploads \in [UploadIds -> Content \cup {NoFile}]
  /\ tagFiles \in [Repos -> [Tags -> Manifests \cup {NoFile}]]
  /\ digestFiles \in [Repos -> SUBSET Manifests]
  /\ repos \in [Repos -> [exists : BOOLEAN, immutable : BOOLEAN]]
  /\ images \in [Repos -> SUBSET Manifests]
  /\ image_tags \in [Repos -> [Tags -> Manifests \cup {NoFile}]]
  /\ deploy_tokens \in [Holders -> {"none", "pull", "push", "revoked"}]
  /\ access \in [Clients -> SUBSET {"pull", "push", "delete"}]
  /\ pushing \in [Clients -> {Idle} \cup Pushes]

(* ...a tag is of an image that is there, and an image of a repository that  *)
(* is; for a push that did not find its repository missing finds it there    *)
(* when it commits, or has lost a row.                                       *)
Referential ==
  /\ \A r \in Repos, t \in Tags : image_tags[r][t] \in images[r] \cup {NoFile}
  /\ \A r \in Repos : ~repos[r].exists => repos[r] = NoRepo /\ images[r] = {}
  /\ \A c \in Clients :
       pushing[c] # Idle /\ ~pushing[c].creates /\ ~pushing[c].lost
         => repos[pushing[c].repo].exists
RegistryInv == BlobsSound /\ RegistryTyped /\ Referential

(* A content is a list of at most MaxChunks chunks.                          *)
LEMMA ContentIs ==
  \A w : w \in Content <=> w \in Seq(Chunks) /\ Len(w) <= MaxChunks
<1>. TAKE w
<1>1. ASSUME w \in Content PROVE w \in Seq(Chunks) /\ Len(w) <= MaxChunks
  <2>. PICK n \in 0 .. MaxChunks : w \in [1 .. n -> Chunks]
    BY <1>1 DEF Content
  <2>. QED BY RegistryAssumption
<1>2. ASSUME w \in Seq(Chunks), Len(w) <= MaxChunks PROVE w \in Content
  <2>. PICK n \in Nat : n = Len(w)
    BY <1>2
  <2>1. w \in [1 .. n -> Chunks] /\ n \in 0 .. MaxChunks
    BY <1>2, RegistryAssumption
  <2>. QED BY <2>1 DEF Content
<1>. QED BY <1>1, <1>2

(* A push under way is no idle client. *)
LEMMA PushIs ==
  /\ Idle \notin Pushes /\ Idle.at = "idle"
  /\ \A p \in Pushes : p.at \in {"checked", "stored"}
BY DEF Idle, Pushes

LEMMA UploadsKeep ==
  ASSUME RegistryInv, UploadsNext PROVE RegistryInv'
<1>. USE DEF RegistryInv, RegistryTyped
<1>1. BlobsSound'
  BY BlobsStep DEF RegistryNext
<1>2. ASSUME NEW c \in Clients, GetToken(c) \/ TokenLapses(c) PROVE RegistryInv'
  <2>1. access' \in [Clients -> SUBSET {"pull", "push", "delete"}]
    BY <1>2 DEF GetToken, TokenLapses, Grants
  <2>. QED BY <1>1, <1>2, <2>1 DEF GetToken, TokenLapses, files, rows, Referential
<1>3. ASSUME NEW c \in Holders,
             CreateDeployToken(c) \/ RevokeDeployToken(c) \/ DeleteDeployToken(c)
      PROVE  RegistryInv'
  <2>1. PICK new \in {"none", "pull", "push", "revoked"} : \E old : SetToken(c, old, new)
    BY <1>3 DEF CreateDeployToken, RevokeDeployToken, DeleteDeployToken
  <2>. QED BY <1>1, <2>1 DEF SetToken, files, rows, Referential
<1>4. ASSUME NEW c \in Clients, NEW r \in Repos, StartUpload(c, r) PROVE RegistryInv'
  <2>1. uploads' \in [UploadIds -> Content \cup {NoFile}]
    <3>1. <<>> \in Content
      <4>1. <<>> \in Seq(Chunks) /\ Len(<<>>) = 0 /\ 0 <= MaxChunks
        BY RegistryAssumption
      <4>. QED BY <4>1, ContentIs
    <3>. QED BY <1>4, <3>1 DEF StartUpload
  <2>2. /\ repos' \in [Repos -> [exists : BOOLEAN, immutable : BOOLEAN]]
        /\ \A q \in Repos : repos[q].exists => repos'[q] = repos[q]
        /\ \A q \in Repos : repos'[q] = repos[q] \/ repos'[q].exists
    BY <1>4 DEF StartUpload, GetOrCreateRepo, NewRepo, NoRepo
  <2>3. Referential'
    BY <1>4, <2>2 DEF StartUpload, Referential, Pushes
  <2>. QED BY <1>1, <1>4, <2>1, <2>2, <2>3 DEF StartUpload, files, people
<1>5. ASSUME NEW c \in Clients, NEW u \in UploadIds,
             UploadChunk(c, u) \/ CompleteUpload(c, u) \/ CancelUpload(c, u)
      PROVE  RegistryInv'
  <2>1. uploads' \in [UploadIds -> Content \cup {NoFile}]
    <3>1. CASE UploadChunk(c, u)
      <4>. PICK x \in Chunks :
             uploads' = [uploads EXCEPT ![u] =
                           IF Len(@) + 1 > MaxChunks THEN NoFile ELSE Append(@, x)]
        BY <3>1 DEF UploadChunk
      <4>1. uploads[u] \in Seq(Chunks) /\ uploads[u] \in Content
        BY <3>1, ContentIs DEF UploadChunk
      <4>2. Append(uploads[u], x) \in Seq(Chunks)
            /\ Len(Append(uploads[u], x)) = Len(uploads[u]) + 1 /\ Len(uploads[u]) \in Nat
        BY <4>1
      <4>3. ~(Len(uploads[u]) + 1 > MaxChunks) => Append(uploads[u], x) \in Content
        <5>1. MaxChunks \in Nat
          BY RegistryAssumption
        <5>2. ~(Len(uploads[u]) + 1 > MaxChunks) => Len(Append(uploads[u], x)) <= MaxChunks
          BY <4>2, <5>1
        <5>. QED BY <4>2, <5>2, ContentIs
      <4>. QED BY <4>3
    <3>2. CASE CompleteUpload(c, u) \/ CancelUpload(c, u)
      BY <3>2 DEF CompleteUpload, CancelUpload, FinalizeUpload
    <3>. QED BY <1>5, <3>1, <3>2
  <2>2. UNCHANGED uploadRest
    BY <1>5 DEF UploadChunk, CompleteUpload, CancelUpload
  <2>. QED BY <1>1, <2>1, <2>2 DEF uploadRest, files, rows, people, Referential
<1>. QED BY <1>2, <1>3, <1>4, <1>5 DEF UploadsNext

(* A push takes its files, then its rows. *)
LEMMA PushesKeep ==
  ASSUME RegistryInv, NEW c \in Clients,
         \/ PutStore(c) \/ PutCommit(c)
         \/ \E r \in Repos, m \in Manifests, t \in Tags : PutCheck(c, r, t, m)
  PROVE  RegistryInv'
<1>. USE DEF RegistryInv, RegistryTyped
<1>1. BlobsSound'
  BY BlobsStep DEF RegistryNext, ImagesNext
<1>2. ASSUME NEW r \in Repos, NEW m \in Manifests, NEW t \in Tags, PutCheck(c, r, t, m)
      PROVE  RegistryInv'
  <2>. DEFINE p == [at |-> "checked", repo |-> r, tag |-> t, manifest |-> m,
                    creates |-> ~repos[r].exists,
                    hadImage |-> FALSE, hadTag |-> FALSE, lost |-> FALSE]
  <2>1. p \in Pushes
    BY DEF Pushes
  <2>2. ~p.creates => repos[p.repo].exists
    OBVIOUS
  <2>3. pushing' = [pushing EXCEPT ![c] = p]
        /\ UNCHANGED <<blobs, uploads, files, rows, people, collector>>
    BY <1>2 DEF PutCheck, Push
  <2>. HIDE DEF p
  <2>4. Referential'
    BY <2>2, <2>3 DEF Referential, rows
  <2>. QED BY <1>1, <2>1, <2>3, <2>4 DEF files, rows, people
<1>3. CASE PutStore(c)
  <2>. PICK p : p = pushing[c]
    OBVIOUS
  <2>1. p \in Pushes
    BY <1>3, PushIs DEF PutStore
  <2>2. p.repo \in Repos /\ p.tag \in Tags /\ p.manifest \in Manifests
    BY <2>1 DEF Pushes
  <2>. PICK q : q = [p EXCEPT !.at = "stored", !.hadImage = p.manifest \in images[p.repo],
                              !.hadTag = image_tags[p.repo][p.tag] # NoFile]
    OBVIOUS
  <2>3. q \in Pushes /\ q.repo = p.repo /\ q.creates = p.creates /\ q.lost = p.lost
    <3>1. (p.manifest \in images[p.repo]) \in BOOLEAN
          /\ (image_tags[p.repo][p.tag] # NoFile) \in BOOLEAN
      OBVIOUS
    <3>. QED BY <2>1, <3>1 DEF Pushes
  <2>4. /\ pushing' = [pushing EXCEPT ![c] = q]
        /\ tagFiles' = [tagFiles EXCEPT ![p.repo][p.tag] = p.manifest]
        /\ digestFiles' = [digestFiles EXCEPT ![p.repo] = @ \cup {p.manifest}]
        /\ UNCHANGED <<uploads, rows, people>>
    BY <1>3 DEF PutStore, Push
  <2>5. p # Idle
    BY <2>1, PushIs
  <2>6. Referential'
    BY <2>3, <2>4, <2>5 DEF Referential, rows
  <2>7. tagFiles' \in [Repos -> [Tags -> Manifests \cup {NoFile}]]
    BY <2>2, <2>4
  <2>8. digestFiles' \in [Repos -> SUBSET Manifests]
    BY <2>2, <2>4
  <2>9. pushing' \in [Clients -> {Idle} \cup Pushes]
    BY <2>3, <2>4
  <2>. QED BY <1>1, <2>4, <2>6, <2>7, <2>8, <2>9 DEF rows, people
<1>4. CASE PutCommit(c)
  <2>. PICK p : p = pushing[c]
    OBVIOUS
  <2>1. p \in Pushes /\ p # Idle
    BY <1>4, PushIs DEF PutCommit
  <2>2. p.repo \in Repos /\ p.tag \in Tags /\ p.manifest \in Manifests
    BY <2>1 DEF Pushes
  <2>3. /\ pushing' = [pushing EXCEPT ![c] = Idle]
        /\ UNCHANGED <<uploads, files, people>>
    BY <1>4 DEF PutCommit, Push
  <2>4. CASE Undisturbed(p)
    <3>1. /\ repos' = IF p.creates THEN [repos EXCEPT ![p.repo] = NewRepo] ELSE repos
          /\ images' = [images EXCEPT ![p.repo] = @ \cup {p.manifest}]
          /\ image_tags' = [image_tags EXCEPT ![p.repo][p.tag] = p.manifest]
      BY <1>4, <2>4 DEF PutCommit
    <3>2. NewRepo \in [exists : BOOLEAN, immutable : BOOLEAN] /\ NewRepo.exists
      BY DEF NewRepo, NoRepo
    <3>3. /\ repos' \in [Repos -> [exists : BOOLEAN, immutable : BOOLEAN]]
          /\ \A r \in Repos : repos'[r] = repos[r] \/ repos'[r].exists
      BY <2>2, <3>1, <3>2
    <3>4. /\ images' \in [Repos -> SUBSET Manifests]
          /\ \A r \in Repos : images'[r] = images[r] \/ r = p.repo
          /\ \A r \in Repos : images[r] \subseteq images'[r]
          /\ p.manifest \in images'[p.repo]
      BY <2>2, <3>1
    <3>5. /\ image_tags' \in [Repos -> [Tags -> Manifests \cup {NoFile}]]
          /\ \A r \in Repos, t \in Tags :
               image_tags'[r][t] = image_tags[r][t]
                 \/ (r = p.repo /\ image_tags'[r][t] = p.manifest)
      BY <2>2, <3>1
    <3>6. repos'[p.repo].exists
      <4>1. CASE p.creates
        BY <2>2, <3>1, <3>2, <4>1
      <4>2. CASE ~p.creates
        <5>1. ~p.lost
          BY <2>4 DEF Undisturbed
        <5>. QED BY <2>1, <3>1, <4>2, <5>1 DEF Referential
      <4>. QED BY <4>1, <4>2
    <3>7. \A r \in Repos, t \in Tags : image_tags'[r][t] \in images'[r] \cup {NoFile}
      <4>. SUFFICES ASSUME NEW r \in Repos, NEW t \in Tags
                    PROVE  image_tags'[r][t] \in images'[r] \cup {NoFile}
        OBVIOUS
      <4>1. image_tags[r][t] \in images'[r] \cup {NoFile}
        BY <3>4 DEF Referential
      <4>2. CASE image_tags'[r][t] = image_tags[r][t]
        BY <4>1, <4>2
      <4>3. CASE r = p.repo /\ image_tags'[r][t] = p.manifest
        BY <3>4, <4>3
      <4>. QED BY <3>5, <4>2, <4>3
    <3>8. \A r \in Repos : ~repos'[r].exists => repos'[r] = NoRepo /\ images'[r] = {}
      BY <3>3, <3>4, <3>6 DEF Referential
    <3>9. \A d \in Clients : pushing'[d] # Idle /\ ~pushing'[d].creates /\ ~pushing'[d].lost
                               => repos'[pushing'[d].repo].exists
      BY <2>3, <3>3 DEF Referential, Pushes
    <3>10. Referential'
      BY <3>7, <3>8, <3>9 DEF Referential
    <3>. QED BY <1>1, <2>3, <3>3, <3>4, <3>5, <3>10 DEF files, people
  <2>5. CASE ~Undisturbed(p)
    <3>1. UNCHANGED rows
      BY <1>4, <2>5 DEF PutCommit
    <3>. QED BY <1>1, <2>3, <3>1 DEF rows, files, people, Referential
  <2>. QED BY <2>4, <2>5
<1>. QED BY <1>2, <1>3, <1>4

(* Who loses a row is still pushing what he pushed.                          *)
LEMMA LoseKeeps ==
  ASSUME RegistryTyped, NEW cs, cs \subseteq {c \in Clients : pushing[c] \in Pushes}, Lose(cs)
  PROVE  /\ pushing' \in [Clients -> {Idle} \cup Pushes]
         /\ \A c \in Clients \ cs : pushing'[c] = pushing[c]
         /\ \A c \in cs : /\ pushing'[c].repo = pushing[c].repo
                          /\ pushing'[c].creates = pushing[c].creates
                          /\ pushing'[c].lost
<1>1. \A p \in Pushes : /\ [p EXCEPT !.lost = TRUE] \in Pushes
                        /\ [p EXCEPT !.lost = TRUE].repo = p.repo
                        /\ [p EXCEPT !.lost = TRUE].creates = p.creates
                        /\ [p EXCEPT !.lost = TRUE].lost
  BY DEF Pushes
<1>2. /\ DOMAIN pushing' = Clients /\ pushing' = [c \in Clients |-> pushing'[c]]
      /\ \A c \in Clients \ cs : pushing'[c] = pushing[c]
      /\ \A c \in cs : pushing'[c] = [pushing[c] EXCEPT !.lost = TRUE]
  BY DEF Lose
<1>3. \A c \in Clients : pushing'[c] \in {Idle} \cup Pushes
  <2>. TAKE c \in Clients
  <2>1. CASE c \in cs
    BY <1>1, <1>2, <2>1
  <2>2. CASE c \notin cs
    BY <1>2, <2>2 DEF RegistryTyped
  <2>. QED BY <2>1, <2>2
<1>4. pushing' \in [Clients -> {Idle} \cup Pushes]
  BY <1>2, <1>3
<1>5. ASSUME NEW c \in cs
      PROVE  /\ pushing'[c].repo = pushing[c].repo
             /\ pushing'[c].creates = pushing[c].creates
             /\ pushing'[c].lost
  <2>1. pushing[c] \in Pushes /\ pushing'[c] = [pushing[c] EXCEPT !.lost = TRUE]
    BY <1>2
  <2>. QED BY <1>1, <2>1
<1>. QED BY <1>2, <1>4, <1>5

LEMMA PushingPush ==
  ASSUME RegistryTyped, NEW r
  PROVE  Pushing(r) = {c \in Clients : pushing[c] \in Pushes /\ pushing[c].repo = r}
BY PushIs DEF Pushing, RegistryTyped

(* What is deleted is deleted with what refers to it.                        *)
LEMMA DeletionsKeep ==
  ASSUME RegistryInv,
         \/ \E c \in Clients, r \in Repos, m \in Manifests : DeleteManifest(c, r, m)
         \/ \E r \in Repos : \/ UpdateRepository(r) \/ DeleteRepository(r)
                             \/ \E t \in Tags : DeleteTag(r, t)
         \/ CollectMark \/ CollectSweep
  PROVE  RegistryInv'
<1>. USE DEF RegistryInv, RegistryTyped
<1>1. BlobsSound'
  BY BlobsStep DEF RegistryNext, ImagesNext
<1>2. NoFile \notin Manifests
  BY RegistryAssumption
<1>3. ASSUME NEW c \in Clients, NEW r \in Repos, NEW m \in Manifests, DeleteManifest(c, r, m)
      PROVE  RegistryInv'
  <2>. DEFINE cs == {d \in Pushing(r) :
                       \/ pushing[d].hadImage /\ pushing[d].manifest = m
                       \/ pushing[d].hadTag /\ image_tags[r][pushing[d].tag] = m}
  <2>1. Lose(cs) /\ cs \subseteq {d \in Clients : pushing[d] \in Pushes}
    BY <1>3, PushingPush DEF DeleteManifest
  <2>. HIDE DEF cs
  <2>2. /\ pushing' \in [Clients -> {Idle} \cup Pushes]
        /\ \A d \in Clients \ cs : pushing'[d] = pushing[d]
        /\ \A d \in cs : pushing'[d].lost
    BY <2>1, LoseKeeps
  <2>3. /\ images' = [images EXCEPT ![r] = @ \ {m}]
        /\ image_tags' = [image_tags EXCEPT ![r] = Without(r, m)]
        /\ digestFiles' = [digestFiles EXCEPT ![r] = @ \ {m}]
        /\ UNCHANGED <<uploads, tagFiles, repos, people>>
    BY <1>3 DEF DeleteManifest
  <2>4. /\ Without(r, m) \in [Tags -> Manifests \cup {NoFile}]
        /\ \A t \in Tags : Without(r, m)[t] \in (images[r] \ {m}) \cup {NoFile}
    <3>. SUFFICES ASSUME NEW t \in Tags
                  PROVE  Without(r, m)[t] \in ((images[r] \ {m}) \cup {NoFile})
      BY DEF Without
    <3>1. image_tags[r][t] \in images[r] \cup {NoFile}
      BY DEF Referential
    <3>. QED BY <3>1 DEF Without
  <2>5. images' \in [Repos -> SUBSET Manifests] /\ digestFiles' \in [Repos -> SUBSET Manifests]
        /\ image_tags' \in [Repos -> [Tags -> Manifests \cup {NoFile}]]
    BY <2>3, <2>4
  <2>6. \A q \in Repos, t \in Tags : image_tags'[q][t] \in images'[q] \cup {NoFile}
    <3>. TAKE q \in Repos, t \in Tags
    <3>1. CASE q = r
      BY <2>3, <2>4, <3>1
    <3>2. CASE q # r
      BY <2>3, <3>2 DEF Referential
    <3>. QED BY <3>1, <3>2
  <2>7. \A q \in Repos : ~repos'[q].exists => repos'[q] = NoRepo /\ images'[q] = {}
    BY <2>3 DEF Referential
  <2>8. \A d \in Clients : pushing'[d] # Idle /\ ~pushing'[d].creates /\ ~pushing'[d].lost
                             => repos'[pushing'[d].repo].exists
    BY <2>2, <2>3 DEF Referential
  <2>9. Referential'
    BY <2>6, <2>7, <2>8 DEF Referential
  <2>. QED BY <1>1, <2>2, <2>3, <2>5, <2>9 DEF people
<1>4. ASSUME NEW r \in Repos, UpdateRepository(r) PROVE RegistryInv'
  <2>. PICK i \in BOOLEAN : repos' = [repos EXCEPT ![r].immutable = i]
    BY <1>4 DEF UpdateRepository
  <2>1. repos' \in [Repos -> [exists : BOOLEAN, immutable : BOOLEAN]]
    OBVIOUS
  <2>2. \A q \in Repos : repos'[q].exists = repos[q].exists /\ (q # r => repos'[q] = repos[q])
    OBVIOUS
  <2>3. repos[r].exists
    BY <1>4 DEF UpdateRepository
  <2>4. Referential'
    BY <1>4, <2>2, <2>3 DEF UpdateRepository, Referential, Pushes
  <2>. QED BY <1>1, <1>4, <2>1, <2>4 DEF UpdateRepository, files, people
<1>5. ASSUME NEW r \in Repos, DeleteRepository(r) PROVE RegistryInv'
  <2>. DEFINE cs == {c \in Pushing(r) : ~pushing[c].creates}
  <2>1. Lose(cs) /\ cs \subseteq {d \in Clients : pushing[d] \in Pushes}
    BY <1>5, PushingPush DEF DeleteRepository
  <2>2. \A c \in Clients : pushing[c] \in Pushes /\ pushing[c].repo = r /\ ~pushing[c].creates
                             => c \in cs
    BY PushingPush
  <2>. HIDE DEF cs
  <2>3. /\ pushing' \in [Clients -> {Idle} \cup Pushes]
        /\ \A d \in Clients \ cs : pushing'[d] = pushing[d]
        /\ \A d \in cs : pushing'[d].lost
    BY <2>1, LoseKeeps
  <2>4. /\ repos' = [repos EXCEPT ![r] = NoRepo]
        /\ images' = [images EXCEPT ![r] = {}]
        /\ image_tags' = [image_tags EXCEPT ![r] = Untagged]
        /\ tagFiles' = [tagFiles EXCEPT ![r] = Untagged]
        /\ digestFiles' = [digestFiles EXCEPT ![r] = {}]
        /\ UNCHANGED <<uploads, people>>
    BY <1>5 DEF DeleteRepository
  <2>5. /\ NoRepo \in [exists : BOOLEAN, immutable : BOOLEAN]
        /\ Untagged \in [Tags -> Manifests \cup {NoFile}]
        /\ \A t \in Tags : Untagged[t] = NoFile
    BY DEF NoRepo, Untagged
  <2>6. /\ repos' \in [Repos -> [exists : BOOLEAN, immutable : BOOLEAN]]
        /\ images' \in [Repos -> SUBSET Manifests] /\ digestFiles' \in [Repos -> SUBSET Manifests]
        /\ image_tags' \in [Repos -> [Tags -> Manifests \cup {NoFile}]]
        /\ tagFiles' \in [Repos -> [Tags -> Manifests \cup {NoFile}]]
    BY <2>4, <2>5
  <2>7. \A q \in Repos, t \in Tags : image_tags'[q][t] \in images'[q] \cup {NoFile}
    BY <2>4, <2>5 DEF Referential
  <2>8. \A q \in Repos : ~repos'[q].exists => repos'[q] = NoRepo /\ images'[q] = {}
    BY <2>4 DEF Referential
  <2>9. ASSUME NEW d \in Clients, pushing'[d] # Idle, ~pushing'[d].creates, ~pushing'[d].lost
        PROVE  repos'[pushing'[d].repo].exists
    <3>1. d \notin cs /\ pushing'[d] = pushing[d]
      BY <2>3, <2>9
    <3>2. pushing[d] \in Pushes /\ pushing[d].repo # r /\ repos[pushing[d].repo].exists
      BY <2>2, <2>9, <3>1 DEF Referential
    <3>3. pushing[d].repo \in Repos
      BY <3>2 DEF Pushes
    <3>. QED BY <2>4, <3>1, <3>2, <3>3
  <2>10. Referential'
    BY <2>7, <2>8, <2>9 DEF Referential
  <2>. QED BY <1>1, <2>3, <2>4, <2>6, <2>10 DEF people
<1>6. ASSUME NEW r \in Repos, NEW t \in Tags, DeleteTag(r, t) PROVE RegistryInv'
  <2>. DEFINE cs == {c \in Pushing(r) : pushing[c].hadTag /\ pushing[c].tag = t}
  <2>1. Lose(cs) /\ cs \subseteq {d \in Clients : pushing[d] \in Pushes}
    BY <1>6, PushingPush DEF DeleteTag
  <2>. HIDE DEF cs
  <2>2. /\ pushing' \in [Clients -> {Idle} \cup Pushes]
        /\ \A d \in Clients \ cs : pushing'[d] = pushing[d]
        /\ \A d \in cs : pushing'[d].lost
    BY <2>1, LoseKeeps
  <2>3. /\ tagFiles' = [tagFiles EXCEPT ![r][t] = NoFile]
        /\ image_tags' = [image_tags EXCEPT ![r][t] = NoFile]
        /\ UNCHANGED <<uploads, digestFiles, repos, images, people>>
    BY <1>6 DEF DeleteTag
  <2>4. /\ tagFiles' \in [Repos -> [Tags -> Manifests \cup {NoFile}]]
        /\ image_tags' \in [Repos -> [Tags -> Manifests \cup {NoFile}]]
        /\ \A q \in Repos, s \in Tags : image_tags'[q][s] \in {image_tags[q][s], NoFile}
    BY <2>3
  <2>5. Referential'
    BY <2>2, <2>3, <2>4 DEF Referential
  <2>. QED BY <1>1, <2>2, <2>3, <2>4, <2>5 DEF people
<1>7. CASE CollectMark \/ CollectSweep
  BY <1>1, <1>7 DEF CollectMark, CollectSweep, files, rows, people, Referential
<1>. QED BY <1>3, <1>4, <1>5, <1>6, <1>7

LEMMA RegistryInvariant == RegistrySpec => []RegistryInv
<1>1. RegistryInit => RegistryInv
  <2>. SUFFICES ASSUME RegistryInit PROVE RegistryInv
    OBVIOUS
  <2>1. BlobsSound
    BY DEF RegistryInit, BlobsSound, StoredBlobIsItsDigest
  <2>2. RegistryTyped
    BY DEF RegistryInit, RegistryTyped, NoRepo, Untagged
  <2>3. Referential
    BY DEF RegistryInit, Referential, Untagged
  <2>. QED BY <2>1, <2>2, <2>3 DEF RegistryInv
<1>2. RegistryInv /\ [RegistryNext]_registryVars => RegistryInv'
  <2>. SUFFICES ASSUME RegistryInv, [RegistryNext]_registryVars PROVE RegistryInv'
    OBVIOUS
  <2>1. CASE UNCHANGED registryVars
    BY <2>1 DEF registryVars, RegistryInv, RegistryTyped, Referential, BlobsSound,
                StoredBlobIsItsDigest
  <2>. QED BY <2>1, UploadsKeep, PushesKeep, DeletionsKeep DEF RegistryNext, ImagesNext
<1>. QED BY <1>1, <1>2, PTL DEF RegistrySpec

(* The registry keeps its types, and with them what the database promises:   *)
(* every tag is of an image that is there, and no image outlives its         *)
(* repository, whatever pushes and deletions overlap.                        *)
THEOREM RegistryTypeCorrect == RegistrySpec => []RegistryTypeOK
<1>1. RegistryInv => RegistryTypeOK
  <2>. SUFFICES ASSUME RegistryInv PROVE RegistryTypeOK
    OBVIOUS
  <2>1. \A d \in Content : blobs[d] \in Content \cup {NoFile}
    BY DEF RegistryInv, BlobsSound
  <2>2. ASSUME NEW r \in Repos
        PROVE  /\ tagFiles[r] \in [Tags -> Manifests \cup {NoFile}]
               /\ image_tags[r] \in [Tags -> images[r] \cup {NoFile}]
               /\ digestFiles[r] \subseteq Manifests
               /\ ~repos[r].exists => repos[r] = NoRepo /\ images[r] = {}
    BY DEF RegistryInv, RegistryTyped, Referential
  <2>. QED BY <2>1, <2>2 DEF RegistryInv, RegistryTyped, RegistryTypeOK
<1>. QED BY <1>1, RegistryInvariant, PTL

-----------------------------------------------------------------------------
(* Backups *)

(* Where a job may be, and what it may hold.                                *)
Places == {"idle", "stat", "unlink", "create", "check", "export", "write", "apply", "unlock",
           "state", "save", "remove"}
StateRecords == [saved : Nat, last : Nat]
JobRecords ==
  [at : Places, kind : Kinds \cup {"none"}, write : Kinds \cup {"none", "remote", "last"},
   of : Nat, holds : Nat, ok : BOOLEAN, began : Nat, read : StateRecords, doomed : SUBSET Nat]
HistoryFields == {"begun", "written", "deaths", "replaced", "discarded", "served", "clashed",
                  "overstayed", "surprised"}
HistoryTyped ==
  /\ history = [h \in HistoryFields |-> history[h]]
  /\ history.written \in Nat /\ history.served \in [Slots -> Nat]

(* Where a job of each kind may be, and what it may be about to write into  *)
(* the setting.                                                             *)
Locking == {"stat", "unlink", "create", "check", "export", "write", "apply", "unlock"}
Recording == {"state", "save"}
Fits(r) ==
  \/ r.at = "idle" /\ r.kind = "none"
  \/ r.kind \in {"schedule", "retry"} /\ r.at \in Recording /\ r.write = r.kind
  \/ r.kind = "delete" /\ r.at \in {"remove"} \cup Recording /\ r.write = "delete"
  \/ /\ r.kind \in {"manual", "scheduled", "restore"}
     /\ \/ /\ r.at \in Locking /\ r.write \in {r.kind, "remote"}
           /\ r.at \in {"check", "apply"} => r.kind = "restore"
        \/ r.at \in Recording /\ r.write = "remote"
  \/ r.kind = "scheduled" /\ r.at \in Recording /\ r.write = "last"
  \/ r.kind = "scheduled" /\ r.at \in {"remove"} \cup Recording /\ r.write = "scheduled"

BackupsTyped ==
  /\ clock \in Nat \ {0} /\ configuration \in Nat /\ edits \in Nat /\ lockFile \in Nat
  /\ backups \in [1 .. MaxBackups -> BackupFiles \cup {NoFileThere}]
  /\ backup_state \in StateRecords
  /\ maintenance \in BOOLEAN /\ build \in {"waits", "handed", "running"}
  /\ jobs \in [Jobs -> JobRecords] /\ \A j \in Jobs : Fits(jobs[j])
  /\ HistoryTyped

(* What a step changes of a job; its kind and what it is of stay. *)
JobChanges(j, at, write, holds, read, doomed) ==
  /\ jobs' \in [Jobs -> JobRecords]
  /\ \A i \in Jobs \ {j} : jobs'[i] = jobs[i]
  /\ jobs'[j].at = at /\ jobs'[j].write = write /\ jobs'[j].holds = holds
  /\ jobs'[j].read = read /\ jobs'[j].doomed = doomed
  /\ jobs'[j].kind = jobs[j].kind /\ jobs'[j].of = jobs[j].of /\ jobs'[j].began = jobs[j].began

JobGoes(j, at) ==
  JobChanges(j, at, jobs[j].write, jobs[j].holds, jobs[j].read, jobs[j].doomed)
(* A job that is done leaves its place to another.                          *)
Ends(j) ==
  /\ jobs' \in [Jobs -> JobRecords]
  /\ \A i \in Jobs \ {j} : jobs'[i] = jobs[i]
  /\ jobs'[j] = NoJob

(* Assignments to the fields of a job keep it a job.                        *)
LEMMA Updates ==
  ASSUME NEW r \in JobRecords, NEW at \in Places, NEW n \in Nat, NEW s \in StateRecords,
         NEW d \in SUBSET Nat, NEW w \in {"remote", "last", "scheduled"}
  PROVE  /\ [r EXCEPT !.at = at] \in JobRecords
         /\ [r EXCEPT !.at = at, !.holds = n] \in JobRecords
         /\ [r EXCEPT !.at = at, !.ok = FALSE] \in JobRecords
         /\ [r EXCEPT !.at = at, !.write = w] \in JobRecords
         /\ [r EXCEPT !.at = at, !.read = s] \in JobRecords
         /\ [r EXCEPT !.at = at, !.write = w, !.doomed = d, !.read = s] \in JobRecords
         /\ [r EXCEPT !.at = at, !.doomed = d] \in JobRecords
         /\ [r EXCEPT !.doomed = d] \in JobRecords
<1>. USE DEF JobRecords
<1>1. [r EXCEPT !.at = at] \in JobRecords
  OBVIOUS
<1>2. [r EXCEPT !.at = at, !.holds = n] \in JobRecords
  OBVIOUS
<1>3. [r EXCEPT !.at = at, !.ok = FALSE] \in JobRecords
  OBVIOUS
<1>4. [r EXCEPT !.at = at, !.write = w] \in JobRecords
  BY DEF Kinds
<1>5. [r EXCEPT !.at = at, !.read = s] \in JobRecords
  OBVIOUS
<1>6. [r EXCEPT !.at = at, !.write = w, !.doomed = d, !.read = s] \in JobRecords
  BY DEF Kinds
<1>7. [r EXCEPT !.at = at, !.doomed = d] \in JobRecords
  OBVIOUS
<1>8. [r EXCEPT !.doomed = d] \in JobRecords
  OBVIOUS
<1>. QED BY <1>1, <1>2, <1>3, <1>4, <1>5, <1>6, <1>7, <1>8

(* Two ways to write what a step does to its job.                           *)
LEMMA Going ==
  ASSUME BackupsTyped, NEW j \in Jobs, NEW at \in Places, Go(j, at)
  PROVE  JobGoes(j, at)
<1>1. jobs[j] \in JobRecords
  BY DEF BackupsTyped
<1>2. jobs' \in [Jobs -> JobRecords]
  BY <1>1, Updates DEF Go, BackupsTyped
<1>. QED BY <1>1, <1>2 DEF JobGoes, JobChanges, BackupsTyped, Go, JobRecords

LEMMA Ending ==
  ASSUME BackupsTyped, NEW j \in Jobs, Finish(j)
  PROVE  Ends(j)
<1>1. NoJob \in JobRecords
  BY DEF NoJob, JobRecords, Places, Unread, StateRecords
<1>. QED BY <1>1 DEF Finish, Ends, BackupsTyped

(* What each step of a job does to it: first those that take the lock.      *)
LEMMA StatMoves ==
  ASSUME BackupsTyped, NEW j \in Jobs, Stat(j)
  PROVE  jobs[j].at = "stat" /\ (JobGoes(j, "unlink") \/ JobGoes(j, "create"))
BY Going DEF Stat, Places

LEMMA UnlinkMoves ==
  ASSUME BackupsTyped, NEW j \in Jobs, UnlinkStale(j)
  PROVE  jobs[j].at = "unlink" /\ JobGoes(j, "create")
BY Going DEF UnlinkStale, Places

LEMMA CreateMoves ==
  ASSUME BackupsTyped, NEW j \in Jobs, CreateLock(j)
  PROVE  /\ jobs[j].at = "create"
         /\ \/ Ends(j) /\ lockFile # NoLock /\ lockFile' = lockFile
            \/ /\ lockFile = NoLock /\ lockFile' = clock
               /\ JobGoes(j, IF jobs[j].kind = "restore" THEN "check" ELSE "export")
<1>1. CASE lockFile = NoLock
  <2>1. (IF jobs[j].kind = "restore" THEN "check" ELSE "export") \in Places
    BY DEF Places
  <2>. QED BY <1>1, <2>1, Going DEF CreateLock, Locked
<1>2. CASE lockFile # NoLock
  BY <1>2, Ending DEF CreateLock
<1>. QED BY <1>1, <1>2 DEF CreateLock

(* What follows a job that gives the lock back.                             *)
LEMMA UnlockMoves ==
  ASSUME BackupsTyped, NEW j \in Jobs, Unlock(j)
  PROVE  /\ jobs[j].at = "unlock"
         /\ \/ jobs[j].kind # "scheduled" /\ Ends(j)
            \/ /\ jobs[j].kind = "scheduled"
               /\ JobChanges(j, "state", "last", jobs[j].holds, jobs[j].read, jobs[j].doomed)
<1>1. CASE jobs[j].kind # "scheduled"
  BY <1>1, Ending DEF Unlock
<1>2. CASE jobs[j].kind = "scheduled"
  <2>1. jobs[j] \in JobRecords /\ "state" \in Places
    BY DEF BackupsTyped, Places
  <2>2. jobs' = [jobs EXCEPT ![j].at = "state", ![j].write = "last"]
    BY <1>2 DEF Unlock
  <2>3. jobs' \in [Jobs -> JobRecords]
    BY <2>1, <2>2, Updates DEF BackupsTyped
  <2>. QED BY <1>2, <2>1, <2>2, <2>3 DEF JobChanges, BackupsTyped, Unlock, JobRecords
<1>. QED BY <1>1, <1>2 DEF Unlock

(* What a backup may find, and what it then writes or not.                  *)
LEMMA ExportMoves ==
  ASSUME BackupsTyped, NEW j \in Jobs, Export(j)
  PROVE  /\ jobs[j].at = "export"
         /\ \/ JobChanges(j, "write", jobs[j].write, configuration, jobs[j].read, jobs[j].doomed)
            \/ JobGoes(j, "unlock")
<1>1. jobs[j] \in JobRecords /\ {"write", "unlock"} \subseteq Places /\ configuration \in Nat
  BY DEF BackupsTyped, Places
<1>2. CASE jobs' = [jobs EXCEPT ![j].at = "write", ![j].holds = configuration]
  <2>1. jobs' \in [Jobs -> JobRecords]
    BY <1>1, <1>2, Updates DEF BackupsTyped
  <2>. QED BY <1>1, <1>2, <2>1 DEF JobChanges, BackupsTyped, JobRecords, Export
<1>3. CASE jobs' = [jobs EXCEPT ![j].at = "unlock", ![j].ok = FALSE]
  <2>1. jobs' \in [Jobs -> JobRecords]
    BY <1>1, <1>3, Updates DEF BackupsTyped
  <2>. QED BY <1>1, <1>3, <2>1 DEF JobGoes, JobChanges, BackupsTyped, JobRecords, Export
<1>. QED BY <1>2, <1>3 DEF Export

LEMMA WriteMoves ==
  ASSUME BackupsTyped, NEW j \in Jobs, WriteBackup(j)
  PROVE  /\ jobs[j].at = "write"
         /\ \/ JobChanges(j, "state", "remote", jobs[j].holds, jobs[j].read, jobs[j].doomed)
            \/ JobGoes(j, AfterBackup(jobs[j].kind))
<1>1. jobs[j] \in JobRecords /\ "state" \in Places /\ AfterBackup(jobs[j].kind) \in Places
  BY DEF BackupsTyped, Places, AfterBackup
<1>2. CASE jobs' = [jobs EXCEPT ![j].at = "state", ![j].write = "remote"]
  <2>1. jobs' \in [Jobs -> JobRecords]
    BY <1>1, <1>2, Updates DEF BackupsTyped
  <2>. QED BY <1>1, <1>2, <2>1 DEF JobChanges, BackupsTyped, JobRecords, WriteBackup
<1>. QED BY <1>1, <1>2, Going DEF WriteBackup

(* The setting is read, and then saved with what was read.                  *)
LEMMA ReadMoves ==
  ASSUME BackupsTyped, NEW j \in Jobs, ReadState(j)
  PROVE  /\ jobs[j].at = "state"
         /\ JobChanges(j, "save", jobs[j].write, jobs[j].holds, backup_state, jobs[j].doomed)
<1>1. jobs[j] \in JobRecords /\ "save" \in Places /\ backup_state \in StateRecords
  BY DEF BackupsTyped, Places
<1>2. jobs' \in [Jobs -> JobRecords]
  BY <1>1, Updates DEF BackupsTyped, ReadState
<1>. QED BY <1>1, <1>2 DEF JobChanges, BackupsTyped, JobRecords, ReadState

LEMMA SaveMoves ==
  ASSUME BackupsTyped, NEW j \in Jobs, SaveState(j)
  PROVE  /\ jobs[j].at = "save"
         /\ \/ /\ jobs[j].write = "remote"
               /\ JobChanges(j, AfterBackup(jobs[j].kind), "remote", jobs[j].holds, Unread,
                          jobs[j].doomed)
            \/ /\ jobs[j].write = "last" /\ ToPrune # {}
               /\ JobChanges(j, "remove", "scheduled", jobs[j].holds, Unread, ToPrune)
            \/ /\ jobs[j].write = "scheduled" /\ jobs[j].doomed # {}
               /\ JobChanges(j, "remove", "scheduled", jobs[j].holds, Unread, jobs[j].doomed)
            \/ jobs[j].write # "remote" /\ Ends(j)
<1>1. /\ jobs[j] \in JobRecords /\ {"apply", "unlock", "remove"} \subseteq Places
      /\ AfterBackup(jobs[j].kind) \in Places
      /\ ToPrune \in SUBSET Nat /\ Unread \in StateRecords
  BY DEF BackupsTyped, Places, ToPrune, Written, Unread, StateRecords, AfterBackup
<1>. DEFINE pruned == ToPrune
<1>. HIDE DEF pruned
<1>2. CASE /\ jobs[j].write = "remote"
           /\ jobs' = [jobs EXCEPT ![j].at = AfterBackup(jobs[j].kind), ![j].read = Unread]
  <2>1. jobs' \in [Jobs -> JobRecords]
    BY <1>1, <1>2, Updates DEF BackupsTyped
  <2>. QED BY <1>1, <1>2, <2>1 DEF JobChanges, BackupsTyped, JobRecords, SaveState, Saving
<1>3. CASE /\ jobs[j].write = "last" /\ ToPrune # {}
           /\ jobs' = [jobs EXCEPT ![j].at = "remove", ![j].write = "scheduled",
                                   ![j].doomed = pruned, ![j].read = Unread]
  <2>1. jobs' \in [Jobs -> JobRecords]
    BY <1>1, <1>3, Updates DEF BackupsTyped, pruned
  <2>. QED BY <1>1, <1>3, <2>1 DEF JobChanges, BackupsTyped, JobRecords, SaveState, Saving, pruned
<1>4. CASE /\ jobs[j].write = "scheduled" /\ jobs[j].doomed # {}
           /\ jobs' = [jobs EXCEPT ![j].at = "remove", ![j].read = Unread]
  <2>1. jobs' \in [Jobs -> JobRecords]
    BY <1>1, <1>4, Updates DEF BackupsTyped
  <2>. QED BY <1>1, <1>4, <2>1 DEF JobChanges, BackupsTyped, JobRecords, SaveState, Saving
<1>5. CASE Finish(j) /\ jobs[j].write # "remote"
  BY <1>5, Ending DEF SaveState, Saving
<1>. QED BY <1>2, <1>3, <1>4, <1>5 DEF SaveState, pruned

(* One file is removed at a time, and who asked by name records it after.   *)
LEMMA RemoveMoves ==
  ASSUME BackupsTyped, NEW j \in Jobs, NEW n, Remove(j),
         n = IF jobs[j].kind = "delete" THEN jobs[j].of ELSE Latest(jobs[j].doomed)
  PROVE  /\ jobs[j].at = "remove"
         /\ \/ /\ n \in Written
               /\ JobChanges(j, "state", jobs[j].write, jobs[j].holds, jobs[j].read,
                          jobs[j].doomed \ {n})
            \/ /\ n \notin Written /\ jobs[j].doomed \ {n} # {}
               /\ JobChanges(j, "remove", jobs[j].write, jobs[j].holds, jobs[j].read,
                          jobs[j].doomed \ {n})
            \/ n \notin Written /\ Ends(j)
<1>. DEFINE left == jobs[j].doomed \ {n}
<1>1. jobs[j] \in JobRecords /\ {"state", "remove"} \subseteq Places /\ left \in SUBSET Nat
  BY DEF BackupsTyped, Places, JobRecords
<1>2. /\ jobs[j].at = "remove"
      /\ \/ n \in Written /\ jobs' = [jobs EXCEPT ![j].at = "state", ![j].doomed = left]
         \/ n \notin Written /\ left # {} /\ jobs' = [jobs EXCEPT ![j].doomed = left]
         \/ n \notin Written /\ Finish(j)
  BY DEF Remove
<1>. HIDE DEF left
<1>3. CASE n \in Written /\ jobs' = [jobs EXCEPT ![j].at = "state", ![j].doomed = left]
  <2>1. jobs' \in [Jobs -> JobRecords]
    BY <1>1, <1>3, Updates DEF BackupsTyped
  <2>. QED BY <1>1, <1>2, <1>3, <2>1 DEF JobChanges, BackupsTyped, JobRecords, left
<1>4. CASE n \notin Written /\ left # {} /\ jobs' = [jobs EXCEPT ![j].doomed = left]
  <2>1. jobs' \in [Jobs -> JobRecords]
    BY <1>1, <1>4, Updates DEF BackupsTyped
  <2>. QED BY <1>1, <1>2, <1>4, <2>1 DEF JobChanges, BackupsTyped, JobRecords, left
<1>. QED BY <1>2, <1>3, <1>4, Ending

(* A restore passes its checks or gives up, and is applied once.            *)
LEMMA RestoreMoves ==
  ASSUME BackupsTyped, NEW j \in Jobs, CheckRestore(j) \/ Apply(j)
  PROVE  \/ CheckRestore(j) /\ jobs[j].at = "check" /\ (JobGoes(j, "export") \/ JobGoes(j, "unlock"))
         \/ Apply(j) /\ jobs[j].at = "apply" /\ JobGoes(j, "unlock")
BY Going DEF CheckRestore, Apply, Places
(* What a job is when it begins.                                            *)
JobBegins(j, kind, at, of) ==
  /\ jobs' \in [Jobs -> JobRecords]
  /\ \A i \in Jobs \ {j} : jobs'[i] = jobs[i]
  /\ jobs'[j].at = at /\ jobs'[j].kind = kind /\ jobs'[j].of = of
  /\ jobs'[j].write = kind /\ jobs'[j].doomed = {}
  /\ jobs'[j].holds = 0 /\ jobs'[j].read = Unread
  /\ jobs'[j].began = IF kind \in {"schedule", "scheduled"} THEN clock ELSE 0

LEMMA Beginning ==
  ASSUME BackupsTyped, NEW j \in Jobs, NEW kind \in Kinds, NEW at \in Places, NEW of \in Nat,
         NewJob(j, kind, at, of)
  PROVE  JobBegins(j, kind, at, of)
<1>. DEFINE r == [NoJob EXCEPT !.kind = kind, !.at = at, !.of = of, !.write = kind,
                    !.began = IF kind \in {"schedule", "scheduled"} THEN clock ELSE 0]
<1>1. /\ r \in JobRecords /\ r.kind = kind /\ r.at = at /\ r.of = of /\ r.write = kind
      /\ r.doomed = {} /\ r.holds = 0 /\ r.read = Unread
      /\ r.began = IF kind \in {"schedule", "scheduled"} THEN clock ELSE 0
  BY DEF NoJob, JobRecords, Unread, StateRecords, BackupsTyped
<1>2. jobs' = [jobs EXCEPT ![j] = r]
  BY DEF NewJob
<1>. HIDE DEF r
<1>. QED BY <1>1, <1>2 DEF JobBegins, BackupsTyped

(* The requests and the tick that begin one.                                *)
LEMMA BeginMoves ==
  ASSUME BackupsTyped, NEW j \in Jobs
  PROVE  /\ BeginManual(j) => JobBegins(j, "manual", "stat", 0)
         /\ BeginRestore(j) => \E of \in Nat : JobBegins(j, "restore", "stat", of)
         /\ BeginSettings(j) => \E k \in {"schedule", "retry"} : JobBegins(j, k, "state", 0)
         /\ BeginDelete(j) => \E n \in Written : JobBegins(j, "delete", "remove", n)
         /\ BeginTick(j) => JobBegins(j, "scheduled", "stat", 0)
<1>. USE DEF Kinds, Places
<1>1. \A n \in Written : n \in Nat /\ backups[n].holds \in Nat
  BY DEF Written, BackupFiles, BackupsTyped
<1>2. ASSUME BeginManual(j) PROVE JobBegins(j, "manual", "stat", 0)
  BY <1>2, Beginning DEF BeginManual
<1>3. ASSUME BeginRestore(j) PROVE \E of \in Nat : JobBegins(j, "restore", "stat", of)
  <2>1. PICK n \in Written : NewJob(j, "restore", "stat", backups[n].holds)
    BY <1>3 DEF BeginRestore
  <2>2. JobBegins(j, "restore", "stat", backups[n].holds)
    BY <1>1, <2>1, Beginning
  <2>. QED BY <1>1, <2>2
<1>4. ASSUME BeginSettings(j) PROVE \E k \in {"schedule", "retry"} : JobBegins(j, k, "state", 0)
  <2>1. PICK k \in {"schedule", "retry"} : NewJob(j, k, "state", 0)
    BY <1>4 DEF BeginSettings
  <2>. QED BY <2>1, Beginning
<1>5. ASSUME BeginDelete(j) PROVE \E n \in Written : JobBegins(j, "delete", "remove", n)
  <2>1. PICK n \in Written : NewJob(j, "delete", "remove", n)
    BY <1>5 DEF BeginDelete
  <2>2. JobBegins(j, "delete", "remove", n)
    BY <1>1, <2>1, Beginning
  <2>. QED BY <2>2
<1>6. ASSUME BeginTick(j) PROVE JobBegins(j, "scheduled", "stat", 0)
  BY <1>6, Beginning DEF BeginTick
<1>. QED BY <1>2, <1>3, <1>4, <1>5, <1>6

(* What a step may do to the history, and what of it every step keeps.      *)
LEMMA HistoryKept ==
  ASSUME BackupsTyped, [BackupsNext]_backupsVars
  PROVE  HistoryTyped'
<1>. HistoryTyped
  BY DEF BackupsTyped
<1>. USE DEF HistoryTyped, HistoryFields
<1>1. ASSUME NEW j \in Jobs,
             \/ BeginManual(j) \/ BeginRestore(j) \/ BeginSettings(j) \/ BeginDelete(j)
             \/ BeginTick(j)
      PROVE  HistoryTyped'
  <2>1. PICK c : history' = [history EXCEPT !.begun = @ + 1, !.clashed = c]
    BY <1>1 DEF BeginManual, BeginRestore, BeginSettings, BeginDelete, BeginTick, Started
  <2>. QED BY <2>1
<1>2. ASSUME NEW j \in Jobs,
             UnlinkStale(j) \/ ReadState(j) \/ CheckRestore(j) \/ Apply(j) \/ Remove(j) \/ Die(j)
      PROVE  HistoryTyped'
  BY <1>2 DEF UnlinkStale, ReadState, CheckRestore, Apply, Remove, Die
<1>3. ASSUME NEW j \in Jobs, WriteBackup(j)
      PROVE  HistoryTyped'
  <2>1. history' = [history EXCEPT !.written = @ + 1, !.served = Serving(j)]
    BY <1>3 DEF WriteBackup
  <2>2. Serving(j) \in [Slots -> Nat]
    <3>1. history.served \in [Slots -> Nat]
      OBVIOUS
    <3>. DEFINE slot == ServedSlot(j)
    <3>. HIDE DEF HistoryTyped, slot
    <3>2. [history.served EXCEPT ![slot] = @ + 1] \in [Slots -> Nat]
      <4>1. CASE slot \in Slots
        BY <3>1, <4>1
      <4>2. CASE slot \notin Slots
        BY <3>1, <4>2
      <4>. QED BY <4>1, <4>2
    <3>. QED BY <3>1, <3>2 DEF Serving, slot
  <2>3. history'.written = history.written + 1 /\ history'.served = Serving(j)
    BY <2>1
  <2>4. history' = [h \in HistoryFields |-> history'[h]]
    BY <2>1
  <2>. QED BY <2>2, <2>3, <2>4
<1>4. CASE Upload \/ SetMaintenance
  BY <1>4 DEF Upload, SetMaintenance
<1>5. CASE \/ Edit \/ BuildMoves \/ PassTime \/ UNCHANGED backupsVars
           \/ \E j \in Jobs : Stat(j) \/ CreateLock(j) \/ Unlock(j) \/ Export(j) \/ SaveState(j)
  <2>1. history' = history
    BY <1>5 DEF Edit, BuildMoves, PassTime, backupsVars, Stat, CreateLock, Unlock, Export, SaveState
  <2>. QED BY <2>1
<1>. QED BY <1>1, <1>2, <1>3, <1>4, <1>5 DEF BackupsNext

(* The first state has the types.                                           *)
LEMMA TypedStart == BackupsInit => BackupsTyped
<1>. SUFFICES ASSUME BackupsInit PROVE BackupsTyped
  OBVIOUS
<1>1. NoJob \in JobRecords
  BY DEF NoJob, JobRecords, Places, Unread, StateRecords
<1>2. HistoryTyped
  BY DEF BackupsInit, HistoryTyped, HistoryFields
<1>3. backups \in [1 .. MaxBackups -> BackupFiles \cup {NoFileThere}]
  BY DEF BackupsInit, BackupFiles
<1>4. jobs \in [Jobs -> JobRecords] /\ \A j \in Jobs : Fits(jobs[j])
  BY <1>1 DEF BackupsInit, NoJob, Fits
<1>5. backup_state \in StateRecords
  BY DEF BackupsInit, StateRecords
<1>6. /\ clock \in Nat \ {0} /\ configuration \in Nat /\ edits \in Nat /\ lockFile \in Nat
      /\ maintenance \in BOOLEAN /\ build \in {"waits", "handed", "running"}
  <2>1. /\ clock = 1 /\ configuration = 0 /\ edits = 0 /\ lockFile = 0
        /\ build = "waits"
    BY DEF BackupsInit, NoLock
  <2>2. maintenance \in BOOLEAN
    BY DEF BackupsInit
  <2>. QED BY <2>1, <2>2
<1>. QED BY <1>2, <1>3, <1>4, <1>5, <1>6 DEF BackupsTyped

(* The typing of the jobs is part of what their moves are.                  *)
LEMMA JobsKept ==
  ASSUME BackupsTyped, [BackupsNext]_backupsVars
  PROVE  jobs' \in [Jobs -> JobRecords] /\ \A j \in Jobs : Fits(jobs'[j])
<1>. DEFINE Kept == jobs' \in [Jobs -> JobRecords] /\ \A j \in Jobs : Fits(jobs'[j])
<1>1. ASSUME NEW j \in Jobs, jobs' \in [Jobs -> JobRecords], \A i \in Jobs \ {j} : jobs'[i] = jobs[i],
             Fits(jobs'[j])
      PROVE  Kept
  BY <1>1 DEF BackupsTyped
<1>2. \A j \in Jobs : Fits(jobs[j])
  BY DEF BackupsTyped
<1>. HIDE DEF Kept
<1>. USE DEF JobGoes, JobChanges, Ends, Locking, Recording
<1>3. ASSUME NEW j \in Jobs,
             \/ BeginManual(j) \/ BeginRestore(j) \/ BeginSettings(j) \/ BeginDelete(j)
             \/ BeginTick(j)
      PROVE  Kept
  <2>1. PICK kind, at, of : /\ JobBegins(j, kind, at, of)
                            /\ \/ kind \in {"manual", "restore", "scheduled"} /\ at = "stat"
                               \/ kind \in {"schedule", "retry"} /\ at = "state"
                               \/ kind = "delete" /\ at = "remove"
    BY <1>3, BeginMoves
  <2>2. Fits(jobs'[j])
    BY <2>1 DEF JobBegins, Fits
  <2>. QED BY <1>1, <2>1, <2>2 DEF JobBegins
<1>4. ASSUME NEW j \in Jobs, Ends(j) PROVE Kept
  BY <1>1, <1>4 DEF NoJob, Fits
<1>5. ASSUME NEW j \in Jobs, Stat(j) \/ UnlinkStale(j) PROVE Kept
  BY <1>1, <1>2, <1>5, StatMoves, UnlinkMoves DEF Fits
<1>6. ASSUME NEW j \in Jobs, CreateLock(j) PROVE Kept
  BY <1>1, <1>2, <1>4, <1>6, CreateMoves DEF Fits
<1>7. ASSUME NEW j \in Jobs, Unlock(j) PROVE Kept
  BY <1>1, <1>2, <1>4, <1>7, UnlockMoves DEF Fits
<1>8. ASSUME NEW j \in Jobs, Export(j) PROVE Kept
  BY <1>1, <1>2, <1>8, ExportMoves DEF Fits
<1>9. ASSUME NEW j \in Jobs, WriteBackup(j) PROVE Kept
  BY <1>1, <1>2, <1>9, WriteMoves DEF Fits, AfterBackup
<1>10. ASSUME NEW j \in Jobs, ReadState(j) PROVE Kept
  BY <1>1, <1>2, <1>10, ReadMoves DEF Fits
<1>11. ASSUME NEW j \in Jobs, SaveState(j) PROVE Kept
  BY <1>1, <1>2, <1>4, <1>11, SaveMoves DEF Fits, AfterBackup
<1>12. ASSUME NEW j \in Jobs, Remove(j) PROVE Kept
  BY <1>1, <1>2, <1>4, <1>12, RemoveMoves DEF Fits
<1>13. ASSUME NEW j \in Jobs, CheckRestore(j) \/ Apply(j) PROVE Kept
  BY <1>1, <1>2, <1>13, RestoreMoves DEF Fits
<1>14. ASSUME NEW j \in Jobs, Die(j) PROVE Kept
  BY <1>4, <1>14, Ending DEF Die
<1>15. CASE Upload \/ Edit \/ SetMaintenance \/ BuildMoves \/ PassTime \/ UNCHANGED backupsVars
  BY <1>15 DEF Upload, Edit, SetMaintenance, BuildMoves, PassTime, backupsVars, jobsRest, BackupsTyped, Kept
<1>. QED BY <1>3, <1>5, <1>6, <1>7, <1>8, <1>9, <1>10, <1>11, <1>12, <1>13, <1>14, <1>15
         DEF BackupsNext, Kept

(* Files are written complete, one after another.                           *)
LEMMA FilesKept ==
  ASSUME BackupsTyped, [BackupsNext]_backupsVars
  PROVE  backups' \in [1 .. MaxBackups -> BackupFiles \cup {NoFileThere}]
<1>1. ASSUME NEW j \in Jobs, WriteBackup(j)
      PROVE  backups' \in [1 .. MaxBackups -> BackupFiles \cup {NoFileThere}]
  <2>1. jobs[j] \in JobRecords /\ Fits(jobs[j]) /\ jobs[j].at = "write"
    BY <1>1 DEF WriteBackup, BackupsTyped
  <2>2. jobs[j].kind \in {"manual", "scheduled", "restore"} /\ jobs[j].holds \in Nat
    BY <2>1 DEF Fits, JobRecords, Recording
  <2>3. PICK kind \in {"manual", "scheduled", "pre-restore"} : Keeping(kind, jobs[j].holds)
    BY <1>1, <2>2 DEF WriteBackup
  <2>. QED BY <2>2, <2>3 DEF Keeping, BackupFiles, BackupsTyped
<1>2. CASE Upload
  <2>1. PICK c \in 0 .. edits : Keeping("uploaded", c)
    BY <1>2 DEF Upload
  <2>2. c \in Nat
    BY DEF BackupsTyped
  <2>. QED BY <2>1, <2>2 DEF Keeping, BackupFiles, BackupsTyped
<1>3. ASSUME NEW j \in Jobs, Remove(j)
      PROVE  backups' \in [1 .. MaxBackups -> BackupFiles \cup {NoFileThere}]
  <2>1. \/ backups' = backups
        \/ \E n \in Written : backups' = [backups EXCEPT ![n] = NoFileThere]
    BY <1>3 DEF Remove
  <2>. QED BY <2>1 DEF BackupsTyped
<1>4. ASSUME NEW j \in Jobs,
             \/ BeginManual(j) \/ BeginRestore(j) \/ BeginSettings(j) \/ BeginDelete(j)
             \/ BeginTick(j)
      PROVE  backups' = backups
  BY <1>4 DEF BeginManual, BeginRestore, BeginSettings, BeginDelete, BeginTick, NewJob
<1>5. ASSUME NEW j \in Jobs,
             \/ Stat(j) \/ UnlinkStale(j) \/ CreateLock(j) \/ Unlock(j) \/ Export(j)
             \/ ReadState(j) \/ SaveState(j) \/ CheckRestore(j) \/ Apply(j) \/ Die(j)
      PROVE  backups' = backups
  BY <1>5 DEF Stat, UnlinkStale, CreateLock, Unlock, Export, ReadState, SaveState, CheckRestore,
              Apply, Die
<1>6. CASE Edit \/ SetMaintenance \/ BuildMoves \/ PassTime \/ UNCHANGED backupsVars
  BY <1>6 DEF Edit, SetMaintenance, BuildMoves, PassTime, backupsVars, jobsRest, BackupsTyped
<1>. QED BY <1>1, <1>2, <1>3, <1>4, <1>5, <1>6 DEF BackupsNext, BackupsTyped

(* The rest. *)
LEMMA RestKept ==
  ASSUME BackupsTyped, [BackupsNext]_backupsVars
  PROVE  /\ clock' \in Nat \ {0} /\ configuration' \in Nat /\ edits' \in Nat /\ lockFile' \in Nat
         /\ backup_state' \in StateRecords
         /\ maintenance' \in BOOLEAN /\ build' \in {"waits", "handed", "running"}
<1>. USE DEF BackupsTyped, server, jobsRest
<1>1. ASSUME NEW j \in Jobs,
             \/ BeginManual(j) \/ BeginRestore(j) \/ BeginSettings(j) \/ BeginDelete(j)
             \/ BeginTick(j)
      PROVE  UNCHANGED <<server, lockFile, backup_state>>
  BY <1>1 DEF BeginManual, BeginRestore, BeginSettings, BeginDelete, BeginTick, NewJob
<1>2. ASSUME NEW j \in Jobs,
             \/ Stat(j) \/ UnlinkStale(j) \/ CreateLock(j) \/ Unlock(j)
      PROVE  UNCHANGED <<server, backup_state>> /\ lockFile' \in Nat
  BY <1>2 DEF Stat, UnlinkStale, CreateLock, Locked, Unlock, NoLock
<1>3. ASSUME NEW j \in Jobs,
             Export(j) \/ WriteBackup(j) \/ ReadState(j) \/ CheckRestore(j) \/ Remove(j) \/ Die(j)
      PROVE  UNCHANGED <<server, lockFile, backup_state>>
  BY <1>3 DEF Export, WriteBackup, ReadState, CheckRestore, Remove, Die
<1>4. ASSUME NEW j \in Jobs, SaveState(j)
      PROVE  UNCHANGED <<server, lockFile>> /\ backup_state' \in StateRecords
  <2>1. jobs[j] \in JobRecords
    OBVIOUS
  <2>. QED BY <1>4, <2>1 DEF SaveState, SavedState, JobRecords, StateRecords
<1>5. ASSUME NEW j \in Jobs, Apply(j)
      PROVE  /\ UNCHANGED <<clock, edits, maintenance, lockFile, backup_state>>
             /\ configuration' \in Nat /\ build' \in {"waits", "handed", "running"}
  <2>1. jobs[j].of \in Nat
    BY DEF JobRecords
  <2>. QED BY <1>5, <2>1 DEF Apply
<1>6. CASE Upload \/ UNCHANGED backupsVars
  BY <1>6 DEF Upload, backupsVars
<1>7. CASE Edit
  BY <1>7 DEF Edit
<1>8. CASE SetMaintenance \/ BuildMoves
  BY <1>8 DEF SetMaintenance, BuildMoves
<1>9. CASE PassTime
  BY <1>9 DEF PassTime
<1>. QED BY <1>1, <1>2, <1>3, <1>4, <1>5, <1>6, <1>7, <1>8, <1>9 DEF BackupsNext

(* Every step keeps the types.                                              *)
LEMMA TypedStep ==
  ASSUME BackupsTyped, [BackupsNext]_backupsVars
  PROVE  BackupsTyped'
BY HistoryKept, JobsKept, FilesKept, RestKept DEF BackupsTyped
-----------------------------------------------------------------------------
(* The history only ever notes more. *)
LEMMA Noted ==
  ASSUME BackupsTyped, [BackupsNext]_backupsVars
  PROVE  /\ history.overstayed => history'.overstayed
         /\ history.surprised => history'.surprised
         /\ history.clashed => history'.clashed
<1>. HistoryTyped
  BY DEF BackupsTyped
<1>. USE DEF HistoryTyped, HistoryFields
<1>1. ASSUME NEW j \in Jobs,
             \/ BeginManual(j) \/ BeginRestore(j) \/ BeginSettings(j) \/ BeginDelete(j)
             \/ BeginTick(j)
      PROVE  /\ history.overstayed => history'.overstayed
             /\ history.surprised => history'.surprised
             /\ history.clashed => history'.clashed
  BY <1>1 DEF BeginManual, BeginRestore, BeginSettings, BeginDelete, BeginTick, Started
<1>2. ASSUME NEW j \in Jobs,
             UnlinkStale(j) \/ ReadState(j) \/ CheckRestore(j) \/ Apply(j) \/ Remove(j) \/ Die(j)
      PROVE  /\ history.overstayed => history'.overstayed
             /\ history.surprised => history'.surprised
             /\ history.clashed => history'.clashed
  BY <1>2 DEF UnlinkStale, ReadState, CheckRestore, Apply, Remove, Die
<1>3. ASSUME Upload \/ SetMaintenance \/ \E j \in Jobs : WriteBackup(j)
      PROVE  /\ history.overstayed => history'.overstayed
             /\ history.surprised => history'.surprised
             /\ history.clashed => history'.clashed
  BY <1>3 DEF Upload, SetMaintenance, WriteBackup
<1>4. CASE \/ Edit \/ BuildMoves \/ PassTime \/ UNCHANGED backupsVars
           \/ \E j \in Jobs : Stat(j) \/ CreateLock(j) \/ Unlock(j) \/ Export(j) \/ SaveState(j)
  <2>1. history' = history
    BY <1>4 DEF Edit, BuildMoves, PassTime, backupsVars, Stat, CreateLock, Unlock, Export, SaveState
  <2>. QED BY <2>1
<1>. QED BY <1>1, <1>2, <1>3, <1>4 DEF BackupsNext

(* A job that holds the lock finds it on the disk, and is the only one.     *)
LockSound ==
  /\ \A j \in Jobs : Holds(j) => lockFile # NoLock
  /\ \A i, j \in Jobs : Holds(i) /\ Holds(j) => i = j

(* The invariant of the lock file.                                          *)
LockInv == BackupsTyped /\ (~history.overstayed => LockSound)

(* What a step may be to the lock: nobody takes it...                       *)
Keeps(j) == lockFile' = lockFile /\ (Holds(j)' => Holds(j))
(* Its holder gives it back, or somebody takes it.                          *)
GivesBack(j) == Holds(j) /\ ~Holds(j)'
Takes(j) == lockFile = NoLock /\ lockFile' = clock

(* Each of these keeps the lock sound.                                      *)
LEMMA KeepsSound ==
  ASSUME NEW j \in Jobs, clock \in Nat \ {0}, LockSound, Keeps(j) \/ GivesBack(j) \/ Takes(j),
         \A i \in Jobs \ {j} : jobs'[i] = jobs[i]
  PROVE  LockSound'
<1>1. \A i \in Jobs \ {j} : Holds(i)' <=> Holds(i)
  BY DEF Holds
<1>2. CASE Keeps(j)
  BY <1>1, <1>2 DEF LockSound, Keeps
<1>3. CASE GivesBack(j)
  BY <1>1, <1>3 DEF LockSound, GivesBack
<1>4. CASE Takes(j)
  BY <1>1, <1>4 DEF LockSound, Takes, NoLock
<1>. QED BY <1>2, <1>3, <1>4

(* Of all steps of a job only three touch the lock.                         *)
LEMMA LockStep ==
  ASSUME BackupsTyped, NEW j \in Jobs,
         \/ BeginManual(j) \/ BeginRestore(j) \/ BeginSettings(j) \/ BeginDelete(j)
         \/ BeginTick(j) \/ Stat(j) \/ CreateLock(j) \/ Unlock(j)
         \/ Export(j) \/ WriteBackup(j) \/ ReadState(j) \/ SaveState(j) \/ Remove(j)
         \/ CheckRestore(j) \/ Apply(j) \/ Die(j)
  PROVE  Keeps(j) \/ GivesBack(j) \/ Takes(j)
<1>. USE DEF Holds, Keeps, JobGoes, JobChanges, Ends
<1>1. ASSUME \/ BeginManual(j) \/ BeginRestore(j) \/ BeginSettings(j) \/ BeginDelete(j)
             \/ BeginTick(j)
      PROVE  Keeps(j)
  <2>1. lockFile' = lockFile
    BY <1>1 DEF BeginManual, BeginRestore, BeginSettings, BeginDelete, BeginTick, NewJob
  <2>2. PICK kind \in Kinds, at \in {"stat", "state", "remove"} :
             \E of : JobBegins(j, kind, at, of)
    BY <1>1, BeginMoves DEF Kinds
  <2>. QED BY <2>1, <2>2 DEF JobBegins, Kinds
<1>2. CASE Stat(j)
  BY <1>2, StatMoves DEF Stat
<1>3. CASE CreateLock(j)
  BY <1>3, CreateMoves DEF Takes, NoJob
<1>4. CASE Unlock(j)
  BY <1>4, UnlockMoves DEF GivesBack, NoJob
<1>5. CASE Export(j)
  BY <1>5, ExportMoves DEF Export
<1>6. CASE WriteBackup(j)
  BY <1>6, WriteMoves DEF WriteBackup
<1>7. CASE ReadState(j)
  BY <1>7, ReadMoves DEF ReadState
<1>8. CASE SaveState(j)
  <2>1. lockFile' = lockFile
    BY <1>8 DEF SaveState
  <2>. QED BY <1>8, <2>1, SaveMoves DEF NoJob
<1>9. CASE Remove(j)
  <2>1. lockFile' = lockFile
    BY <1>9 DEF Remove
  <2>2. Fits(jobs[j])
    BY DEF BackupsTyped
  <2>. QED BY <1>9, <2>1, <2>2, RemoveMoves DEF NoJob, Fits, Locking, Recording
<1>10. CASE CheckRestore(j) \/ Apply(j)
  <2>1. lockFile' = lockFile
    BY <1>10 DEF CheckRestore, Apply
  <2>. QED BY <1>10, <2>1, RestoreMoves
<1>11. CASE Die(j)
  BY <1>11, Ending DEF Die, NoJob
<1>. QED BY <1>1, <1>2, <1>3, <1>4, <1>5, <1>6, <1>7, <1>8, <1>9, <1>10, <1>11

(* Only the job that steps changes. *)
LEMMA OthersStay ==
  ASSUME BackupsTyped, NEW j \in Jobs,
         \/ BeginManual(j) \/ BeginRestore(j) \/ BeginSettings(j) \/ BeginDelete(j)
         \/ BeginTick(j) \/ Stat(j) \/ UnlinkStale(j) \/ CreateLock(j) \/ Unlock(j)
         \/ Export(j) \/ WriteBackup(j) \/ ReadState(j) \/ SaveState(j) \/ Remove(j)
         \/ CheckRestore(j) \/ Apply(j) \/ Die(j)
  PROVE  \A i \in Jobs \ {j} : jobs'[i] = jobs[i]
<1>. USE DEF JobGoes, JobChanges, Ends
<1>1. ASSUME \/ BeginManual(j) \/ BeginRestore(j) \/ BeginSettings(j) \/ BeginDelete(j)
             \/ BeginTick(j)
      PROVE  \A i \in Jobs \ {j} : jobs'[i] = jobs[i]
  BY <1>1, BeginMoves DEF JobBegins
<1>2. ASSUME \/ Stat(j) \/ UnlinkStale(j) \/ CreateLock(j) \/ Unlock(j) \/ Export(j)
             \/ WriteBackup(j) \/ ReadState(j)
      PROVE  \A i \in Jobs \ {j} : jobs'[i] = jobs[i]
  BY <1>2, StatMoves, UnlinkMoves, CreateMoves, UnlockMoves, ExportMoves, WriteMoves, ReadMoves
<1>3. ASSUME Remove(j)
      PROVE  \A i \in Jobs \ {j} : jobs'[i] = jobs[i]
  BY <1>3, RemoveMoves
<1>4. ASSUME SaveState(j) \/ CheckRestore(j) \/ Apply(j) \/ Die(j)
      PROVE  \A i \in Jobs \ {j} : jobs'[i] = jobs[i]
  BY <1>4, SaveMoves, RestoreMoves, Ending DEF Die
<1>. QED BY <1>1, <1>2, <1>3, <1>4

(* Every step keeps the lock sound.                                         *)
LEMMA LockKept ==
  ASSUME LockInv, [BackupsNext]_backupsVars
  PROVE  LockInv'
<1>1. BackupsTyped' /\ (history.overstayed => history'.overstayed)
  BY TypedStep, Noted DEF LockInv
<1>2. ASSUME NEW j \in Jobs,
             \/ BeginManual(j) \/ BeginRestore(j) \/ BeginSettings(j) \/ BeginDelete(j)
             \/ BeginTick(j) \/ Stat(j) \/ CreateLock(j) \/ Unlock(j)
             \/ Export(j) \/ WriteBackup(j) \/ ReadState(j) \/ SaveState(j) \/ Remove(j)
             \/ CheckRestore(j) \/ Apply(j) \/ Die(j)
      PROVE  LockSound => LockSound'
  <2>1. Keeps(j) \/ GivesBack(j) \/ Takes(j)
    BY <1>2, LockStep DEF LockInv
  <2>2. \A i \in Jobs \ {j} : jobs'[i] = jobs[i]
    BY <1>2, OthersStay DEF LockInv
  <2>. QED BY <2>1, <2>2, KeepsSound DEF LockInv, BackupsTyped
<1>3. ASSUME NEW j \in Jobs, UnlinkStale(j)
      PROVE  history'.overstayed
  BY <1>3 DEF UnlinkStale, LockInv, BackupsTyped, HistoryTyped, HistoryFields
<1>4. ASSUME Upload \/ Edit \/ SetMaintenance \/ BuildMoves \/ PassTime \/ UNCHANGED backupsVars
      PROVE  LockSound => LockSound'
  <2>1. UNCHANGED <<jobs, lockFile>>
    BY <1>4 DEF Upload, Edit, SetMaintenance, BuildMoves, PassTime, backupsVars, jobsRest
  <2>. QED BY <2>1 DEF LockSound, Holds
<1>. QED BY <1>1, <1>2, <1>3, <1>4 DEF BackupsNext, LockInv

(* The lock is free at first.                                               *)
LEMMA LockStart ==
  ASSUME BackupsInit
  PROVE  LockInv
<1>1. \A j \in Jobs : ~Holds(j)
  BY DEF BackupsInit, NoJob, Holds
<1>. QED BY <1>1, TypedStart DEF LockInv, LockSound

(* At most one holder is what the property counts. *)
LEMMA OneHolder ==
  ASSUME LockInv
  PROVE  OneAtATime
<1>. DEFINE H == {j \in Jobs : Holds(j)}
<1>1. CASE history.overstayed
  BY <1>1 DEF OneAtATime
<1>2. CASE ~history.overstayed
  <2>1. H = {} \/ \E j : H = {j}
    BY <1>2 DEF LockInv, LockSound
  <2>2. Cardinality(H) \in {0, 1}
    BY <2>1, FS_EmptySet, FS_Singleton
  <2>. QED BY <2>2 DEF OneAtATime
<1>. QED BY <1>1, <1>2

(* No two backups or restores are under way at once, in any process, unless *)
(* a lock went stale.                                                       *)
THEOREM OneAtATimeAlways == BackupsSpec => []OneAtATime
<1>1. BackupsInit => LockInv
  BY LockStart
<1>2. LockInv /\ [BackupsNext]_backupsVars => LockInv'
  BY LockKept
<1>3. LockInv => OneAtATime
  BY OneHolder
<1>. QED BY <1>1, <1>2, <1>3, PTL DEF BackupsSpec

-----------------------------------------------------------------------------
(* While a restore is past its checks, the server is quiet, unless somebody *)
(* ended maintenance or a build had been let through.                       *)
QuietInv ==
  /\ BackupsTyped
  /\ ~history.surprised /\ Restoring # {} => maintenance /\ build = "waits"

(* Whether a job restores is seen from the job alone.                       *)
RestoringIn(r) ==
  /\ r.kind = "restore"
  /\ r.at \in {"export", "write", "apply"} \/ (r.at \in Recording /\ r.write = "remote")

LEMMA RestoringIs == \A j \in Jobs : j \in Restoring <=> RestoringIn(jobs[j])
BY DEF Restoring, RestoringIn, Recording, Holds

(* Only the checks make a restore one that is past them. *)
LEMMA RestoringStep ==
  ASSUME BackupsTyped, NEW j \in Jobs,
         \/ BeginManual(j) \/ BeginRestore(j) \/ BeginSettings(j) \/ BeginDelete(j)
         \/ BeginTick(j) \/ Stat(j) \/ UnlinkStale(j) \/ CreateLock(j) \/ Unlock(j)
         \/ Export(j) \/ WriteBackup(j) \/ ReadState(j) \/ SaveState(j) \/ Remove(j)
         \/ Apply(j) \/ Die(j)
  PROVE  RestoringIn(jobs'[j]) => RestoringIn(jobs[j])
<1>. USE DEF RestoringIn, Recording, JobGoes, JobChanges, Ends, NoJob
<1>1. ASSUME \/ BeginManual(j) \/ BeginRestore(j) \/ BeginSettings(j) \/ BeginDelete(j)
             \/ BeginTick(j)
      PROVE  ~RestoringIn(jobs'[j])
  BY <1>1, BeginMoves DEF JobBegins
<1>2. CASE Stat(j) \/ UnlinkStale(j)
  BY <1>2, StatMoves, UnlinkMoves
<1>3. CASE CreateLock(j)
  BY <1>3, CreateMoves
<1>4. CASE Unlock(j)
  BY <1>4, UnlockMoves
<1>5. CASE Export(j)
  BY <1>5, ExportMoves
<1>6. CASE WriteBackup(j)
  BY <1>6, WriteMoves
<1>7. CASE ReadState(j)
  BY <1>7, ReadMoves
<1>8. CASE SaveState(j)
  BY <1>8, SaveMoves
<1>9. CASE Remove(j)
  <2>1. Fits(jobs[j])
    BY DEF BackupsTyped
  <2>. QED BY <1>9, <2>1, RemoveMoves DEF Fits, Locking
<1>10. CASE Apply(j) \/ Die(j)
  BY <1>10, RestoreMoves, Ending DEF Die, Apply, CheckRestore
<1>. QED BY <1>1, <1>2, <1>3, <1>4, <1>5, <1>6, <1>7, <1>8, <1>9, <1>10

(* Every step keeps what a restore has found quiet.                         *)
LEMMA QuietKept ==
  ASSUME QuietInv, [BackupsNext]_backupsVars
  PROVE  QuietInv'
<1>. BackupsTyped
  BY DEF QuietInv
<1>. DEFINE Calm == maintenance /\ build = "waits"
            Some == \E j \in Jobs : RestoringIn(jobs[j])
<1>1. BackupsTyped' /\ (history.surprised => history'.surprised)
  BY TypedStep, Noted
<1>2. (Restoring # {} <=> Some) /\ (Restoring' # {} <=> Some')
  BY RestoringIs DEF Restoring, RestoringIn, Recording, Holds
<1>3. ~history.surprised /\ Some => Calm
  BY <1>2 DEF QuietInv
<1>4. ASSUME NEW j \in Jobs,
             \/ BeginManual(j) \/ BeginRestore(j) \/ BeginSettings(j) \/ BeginDelete(j)
             \/ BeginTick(j) \/ Stat(j) \/ UnlinkStale(j) \/ CreateLock(j) \/ Unlock(j)
             \/ Export(j) \/ WriteBackup(j) \/ ReadState(j) \/ SaveState(j) \/ Remove(j)
             \/ Apply(j) \/ Die(j)
      PROVE  (Some' => Some) /\ (Calm => Calm')
  <2>1. RestoringIn(jobs'[j]) => RestoringIn(jobs[j])
    BY <1>4, RestoringStep
  <2>2. \A i \in Jobs \ {j} : jobs'[i] = jobs[i]
    BY <1>4, OthersStay
  <2>3. Some' => Some
    BY <2>1, <2>2 DEF RestoringIn
  <2>4. CASE Apply(j)
    BY <2>3, <2>4 DEF Apply
  <2>5. CASE BeginManual(j) \/ BeginRestore(j) \/ BeginSettings(j) \/ BeginDelete(j) \/ BeginTick(j)
    <3>1. UNCHANGED <<maintenance, build>>
      <4>. HIDE DEF Some
      <4>. QED BY <2>5 DEF BeginManual, BeginRestore, BeginSettings, BeginDelete, BeginTick,
                           NewJob, server
    <3>. QED BY <2>3, <3>1
  <2>6. CASE \/ Stat(j) \/ UnlinkStale(j) \/ CreateLock(j) \/ Unlock(j) \/ Export(j)
             \/ WriteBackup(j) \/ ReadState(j) \/ SaveState(j) \/ Remove(j) \/ Die(j)
    BY <2>3, <2>6 DEF Stat, UnlinkStale, CreateLock, Unlock, Export, WriteBackup, ReadState,
                      SaveState, Remove, Die, server
  <2>. QED BY <1>4, <2>4, <2>5, <2>6
<1>5. ASSUME NEW j \in Jobs, CheckRestore(j)
      PROVE  ~history'.surprised /\ Some' => Calm'
  <2>1. /\ UNCHANGED <<maintenance, build>>
        /\ \/ maintenance /\ build # "running" /\ (history'.surprised \/ build # "handed")
           \/ Go(j, "unlock")
    BY <1>5 DEF CheckRestore, Ready, server, BackupsTyped, HistoryTyped, HistoryFields
  <2>2. CASE Go(j, "unlock")
    <3>1. ~RestoringIn(jobs'[j])
      BY <2>2, Going DEF JobGoes, JobChanges, RestoringIn, Recording, Places
    <3>2. \A i \in Jobs \ {j} : jobs'[i] = jobs[i]
      BY <1>5, OthersStay
    <3>3. Some' => Some
      BY <3>1, <3>2 DEF RestoringIn
    <3>. QED BY <1>1, <1>3, <2>1, <3>3
  <2>3. CASE maintenance /\ build # "running" /\ (history'.surprised \/ build # "handed")
    BY <2>1, <2>3 DEF BackupsTyped
  <2>. QED BY <2>1, <2>2, <2>3
<1>6. CASE Upload \/ Edit \/ PassTime \/ UNCHANGED backupsVars
  <2>1. UNCHANGED <<jobs, maintenance, build>>
    BY <1>6 DEF Upload, Edit, PassTime, backupsVars, jobsRest, server
  <2>. QED BY <1>1, <1>2, <1>3, <2>1 DEF QuietInv
<1>7. CASE SetMaintenance
  <2>1. UNCHANGED <<jobs, build>>
    BY <1>7 DEF SetMaintenance, jobsRest
  <2>2. maintenance /\ Restoring # {} => history'.surprised
    BY <1>7 DEF SetMaintenance, BackupsTyped, HistoryTyped, HistoryFields
  <2>. QED BY <1>1, <1>2, <1>3, <2>1, <2>2 DEF QuietInv
<1>8. CASE BuildMoves
  <2>1. UNCHANGED <<jobs, maintenance, history>> /\ (maintenance /\ build = "waits" => FALSE)
    BY <1>8 DEF BuildMoves, jobsRest
  <2>. QED BY <1>1, <1>2, <1>3, <2>1 DEF QuietInv
<1>. QED BY <1>1, <1>2, <1>3, <1>4, <1>5, <1>6, <1>7, <1>8 DEF BackupsNext, QuietInv

(* Only a restore that is committed changes the configuration without an    *)
(* edit.                                                                    *)
LEMMA OnlyRestoresReplace ==
  ASSUME BackupsTyped, [BackupsNext]_backupsVars, configuration' # configuration, edits' = edits
  PROVE  Restoring # {}
<1>. USE DEF server, jobsRest
<1>1. PICK j \in Jobs : Apply(j)
  <2>1. CASE Edit
    BY <2>1 DEF Edit, BackupsTyped
  <2>2. CASE Upload \/ SetMaintenance \/ BuildMoves \/ PassTime \/ UNCHANGED backupsVars
    BY <2>2 DEF Upload, SetMaintenance, BuildMoves, PassTime, backupsVars
  <2>3. ASSUME NEW j \in Jobs,
               \/ BeginManual(j) \/ BeginRestore(j) \/ BeginSettings(j) \/ BeginDelete(j)
               \/ BeginTick(j)
        PROVE  FALSE
    BY <2>3 DEF BeginManual, BeginRestore, BeginSettings, BeginDelete, BeginTick, NewJob
  <2>4. ASSUME NEW j \in Jobs,
               \/ Stat(j) \/ UnlinkStale(j) \/ CreateLock(j) \/ Unlock(j) \/ Export(j)
               \/ WriteBackup(j) \/ ReadState(j) \/ SaveState(j) \/ Remove(j)
               \/ CheckRestore(j) \/ Die(j)
        PROVE  FALSE
    BY <2>4 DEF Stat, UnlinkStale, CreateLock, Unlock, Export, WriteBackup, ReadState,
                SaveState, Remove, CheckRestore, Die
  <2>. QED BY <2>1, <2>2, <2>3, <2>4 DEF BackupsNext
<1>2. jobs[j].at = "apply" /\ Fits(jobs[j])
  BY <1>1 DEF Apply, BackupsTyped
<1>3. RestoringIn(jobs[j])
  BY <1>2 DEF Fits, RestoringIn, Locking, Recording
<1>. QED BY <1>3, RestoringIs

(* No restore is applied under a running build, unless somebody ended       *)
(* maintenance meanwhile or the build had been let through before it began. *)
THEOREM RestoreAlwaysQuiet == BackupsSpec => QuietRestore
<1>. DEFINE Stays == configuration' # configuration /\ edits' = edits /\ build = "running"
                       => history.surprised
<1>1. BackupsInit => QuietInv
  <2>. SUFFICES ASSUME BackupsInit PROVE QuietInv
    OBVIOUS
  <2>1. Restoring = {}
    BY DEF BackupsInit, Restoring, NoJob
  <2>. QED BY <2>1, TypedStart DEF QuietInv
<1>2. QuietInv /\ [BackupsNext]_backupsVars => QuietInv'
  BY QuietKept
<1>3. QuietInv /\ [BackupsNext]_backupsVars => [Stays]_backupsVars
  BY OnlyRestoresReplace DEF QuietInv
<1>. QED BY <1>1, <1>2, <1>3, PTL DEF BackupsSpec, QuietRestore

-----------------------------------------------------------------------------
(* The latest of some numbers is one of them. *)
LEMMA SmallestOf ==
  ASSUME NEW T, T \subseteq Nat, T # {}
  PROVE  \E x \in T : \A y \in T : x <= y
<1>. DEFINE R == OpToRel(<, Nat)
<1>1. PICK x \in T : \A y \in T : ~ (<<y, x>> \in R)
  <2>. HIDE DEF R
  <2>1. IsWellFoundedOn(R, Nat)
    BY NatLessThanWellFounded DEF R
  <2>. QED BY <2>1, WFMin, Zenon
<1>2. \A y \in T : ~(y < x)
  BY <1>1 DEF OpToRel
<1>. QED BY <1>2

(* The latest slot is the one no other comes after.                         *)
LEMMA LatestIs ==
  ASSUME NEW n \in Nat, NEW S, S \subseteq 1 .. n, S # {}
  PROVE  Latest(S) \in S /\ \A u \in S : u <= Latest(S)
<1>. DEFINE T == {n - u : u \in S}
<1>0. \A u \in S : u \in Int /\ 1 <= u /\ u <= n
  OBVIOUS
<1>1. T \subseteq Nat /\ T # {}
  <2>1. \A u \in S : n - u \in Nat
    BY <1>0
  <2>. QED BY <2>1
<1>2. PICK x \in T : \A y \in T : x <= y
  <2>. HIDE DEF T
  <2>. QED BY <1>1, SmallestOf
<1>3. PICK t \in S : x = n - t
  OBVIOUS
<1>4. \A u \in S : u <= t
  <2>1. \A u \in S : n - t <= n - u
    BY <1>2, <1>3
  <2>. QED BY <1>0, <2>1
<1>. QED BY <1>4 DEF Latest

-----------------------------------------------------------------------------
(* A tick from its beginning until it has recorded that it ran, and one     *)
(* that may have made its backup.                                           *)
Unrecorded(r) ==
  /\ r.kind = "scheduled"
  /\ r.at \in Locking \/ (r.at \in Recording /\ r.write \in {"remote", "last"})
(* A job that has backed up its slot and not written so yet.                *)
Served(r) == Unrecorded(r) /\ r.at \in {"unlock"} \cup Recording

(* One tick, and one writer of the setting, whose copy of it is right.      *)
OneWriter ==
  /\ \A i, j \in Jobs : jobs[i].kind = "scheduled" /\ jobs[j].kind = "scheduled" => i = j
  /\ \A i, j \in Jobs : Saving(i) /\ Saving(j) => i = j
  /\ \A j \in Jobs : Saving(j) => jobs[j].read = backup_state

(* A tick began when a slot had passed since the last run. *)
Awaiting ==
  \A j \in Jobs : Unrecorded(jobs[j]) =>
    \E s \in Slots : backup_state.last < s /\ s <= jobs[j].began

(* A slot that was served is over, or the tick that served it will say so.  *)
Counted ==
  \A s \in Slots :
    /\ history.served[s] <= 1
    /\ history.served[s] # 0 =>
         s <= backup_state.last \/ \E j \in Jobs : Served(jobs[j]) /\ s <= jobs[j].began

(* The invariant of the slots.                                              *)
SlotsInv == BackupsTyped /\ (~history.clashed => OneWriter /\ Awaiting /\ Counted)

(* What most steps of a job leave as it is. *)
SlotKeeps(j) ==
  /\ jobs'[j].kind = "scheduled" => jobs[j].kind = "scheduled"
  /\ Saving(j)' => Saving(j) /\ jobs'[j].read = jobs[j].read
  /\ Unrecorded(jobs'[j]) => Unrecorded(jobs[j]) /\ jobs'[j].began = jobs[j].began
  /\ Served(jobs[j]) => Served(jobs'[j]) /\ jobs'[j].began = jobs[j].began

(* Most steps neither begin nor end what serves a slot.                     *)
LEMMA SlotKeepsStep ==
  ASSUME BackupsTyped, NEW j \in Jobs,
         \/ BeginManual(j) \/ BeginRestore(j) \/ BeginSettings(j) \/ BeginDelete(j)
         \/ Stat(j) \/ UnlinkStale(j) \/ CreateLock(j) \/ Unlock(j) \/ Export(j) \/ Remove(j)
         \/ CheckRestore(j) \/ Apply(j)
  PROVE  SlotKeeps(j)
<1>. Fits(jobs[j])
  BY DEF BackupsTyped
<1>. USE DEF SlotKeeps, Saving, Unrecorded, Served, Locking, Recording, JobGoes, JobChanges, Ends, NoJob
<1>1. ASSUME BeginManual(j) \/ BeginRestore(j) \/ BeginSettings(j) \/ BeginDelete(j)
      PROVE  SlotKeeps(j)
  <2>1. PICK kind \in {"manual", "restore", "schedule", "retry", "delete"},
             at \in {"stat", "state", "remove"} :
             \E of : JobBegins(j, kind, at, of)
    BY <1>1, BeginMoves
  <2>2. jobs[j].at = "idle"
    BY <1>1 DEF BeginManual, BeginRestore, BeginSettings, BeginDelete, NewJob, Busy
  <2>. QED BY <2>1, <2>2 DEF JobBegins
<1>2. CASE Stat(j) \/ UnlinkStale(j)
  BY <1>2, StatMoves, UnlinkMoves
<1>3. CASE CreateLock(j)
  BY <1>3, CreateMoves
<1>4. CASE Unlock(j)
  BY <1>4, UnlockMoves DEF Fits
<1>5. CASE Export(j)
  BY <1>5, ExportMoves
<1>6. CASE Remove(j)
  BY <1>6, RemoveMoves DEF Fits
<1>7. CASE CheckRestore(j) \/ Apply(j)
  BY <1>7, RestoreMoves
<1>. QED BY <1>1, <1>2, <1>3, <1>4, <1>5, <1>6, <1>7

(* Those keep the invariant.                                                *)
LEMMA SlotKeepsSound ==
  ASSUME NEW j \in Jobs, SlotKeeps(j), \A i \in Jobs \ {j} : jobs'[i] = jobs[i],
         backup_state' = backup_state, history'.served = history.served,
         OneWriter, Awaiting, Counted
  PROVE  OneWriter' /\ Awaiting' /\ Counted'
<1>1. OneWriter'
  BY DEF OneWriter, SlotKeeps, Saving
<1>2. Awaiting'
  BY DEF Awaiting, SlotKeeps
<1>3. Counted'
  BY DEF Counted, SlotKeeps
<1>. QED BY <1>1, <1>2, <1>3
(* A tick finds a slot that nobody has served.                              *)
LEMMA TickSound ==
  ASSUME BackupsTyped, NEW j \in Jobs, BeginTick(j), OneWriter, Awaiting, Counted,
         ~history'.clashed
  PROVE  OneWriter' /\ Awaiting' /\ Counted'
<1>. HistoryTyped /\ \A i \in Jobs : Fits(jobs[i])
  BY DEF BackupsTyped
<1>1. /\ JobBegins(j, "scheduled", "stat", 0) /\ UNCHANGED <<clock, backup_state>>
      /\ \A i \in Jobs \ {j} : jobs'[i] = jobs[i]
  BY BeginMoves, OthersStay DEF BeginTick, NewJob, server
<1>2. /\ history'.served = history.served
      /\ ~ \E i \in Jobs : Busy(i) /\ jobs[i].kind = "scheduled"
  <2>. DEFINE ticking == \E i \in Jobs : Busy(i) /\ jobs[i].kind = "scheduled"
  <2>1. Started(ticking)
    BY DEF BeginTick
  <2>. HIDE DEF ticking
  <2>2. history'.served = history.served /\ ~ticking
    BY <2>1 DEF Started, HistoryTyped, HistoryFields
  <2>. QED BY <2>2 DEF ticking
<1>3. \A i \in Jobs : jobs[i].kind # "scheduled"
  <2>1. \A i \in Jobs : jobs[i].at = "idle" => jobs[i].kind # "scheduled"
    BY DEF Fits, Locking, Recording
  <2>. QED BY <1>2, <2>1 DEF Busy
<1>4. OneWriter'
  BY <1>1, <1>3 DEF OneWriter, Saving, JobBegins
<1>5. \E s \in Slots : backup_state.last < s /\ s <= clock
  <2>1. backup_state.saved \in Nat /\ backup_state.last \in Nat
    BY DEF BackupsTyped, StateRecords
  <2>. DEFINE since == Latest({backup_state.saved, backup_state.last})
  <2>2. since \in Nat /\ backup_state.last <= since
    BY <2>1 DEF Latest
  <2>3. PICK s \in Slots : s > since /\ s <= clock
    BY DEF BeginTick, IsDue
  <2>4. s \in Nat
    BY BackupsAssumption
  <2>. HIDE DEF since
  <2>. QED BY <2>1, <2>2, <2>3, <2>4
<1>6. Awaiting'
  BY <1>1, <1>3, <1>5 DEF Awaiting, JobBegins, Unrecorded
<1>7. Counted'
  BY <1>1, <1>2, <1>3 DEF Counted, Served, Unrecorded
<1>. QED BY <1>4, <1>6, <1>7

(* Reading the setting keeps it.                                            *)
LEMMA ReadSound ==
  ASSUME BackupsTyped, NEW j \in Jobs, ReadState(j), OneWriter, Awaiting, Counted,
         ~history'.clashed
  PROVE  OneWriter' /\ Awaiting' /\ Counted'
<1>. HistoryTyped
  BY DEF BackupsTyped
<1>1. /\ jobs[j].at = "state" /\ backup_state' = backup_state
      /\ JobChanges(j, "save", jobs[j].write, jobs[j].holds, backup_state, jobs[j].doomed)
  BY ReadMoves DEF ReadState
<1>2. history'.served = history.served /\ \A i \in Jobs : ~Saving(i)
  <2>. DEFINE writing == \E i \in Jobs : Saving(i)
  <2>1. history' = [history EXCEPT !.clashed = @ \/ writing]
    BY DEF ReadState
  <2>. HIDE DEF writing
  <2>2. history'.served = history.served /\ ~writing
    BY <2>1 DEF HistoryTyped, HistoryFields
  <2>. QED BY <2>2 DEF writing
<1>3. OneWriter'
  BY <1>1, <1>2 DEF OneWriter, Saving, JobChanges
<1>4. Awaiting'
  BY <1>1 DEF Awaiting, JobChanges, Unrecorded, Locking, Recording
<1>5. Counted'
  BY <1>1, <1>2 DEF Counted, JobChanges, Served, Unrecorded, Locking, Recording
<1>. QED BY <1>3, <1>4, <1>5

(* What is saved keeps the last run, unless it is that of the only tick.    *)
LEMMA SaveSound ==
  ASSUME BackupsTyped, NEW j \in Jobs, SaveState(j), OneWriter, Awaiting, Counted
  PROVE  OneWriter' /\ Awaiting' /\ Counted'
<1>. Fits(jobs[j]) /\ jobs[j] \in JobRecords
  BY DEF BackupsTyped
<1>1. /\ Saving(j) /\ history' = history /\ backup_state' = SavedState(j)
      /\ \A i \in Jobs \ {j} : jobs'[i] = jobs[i]
  BY OthersStay DEF SaveState
<1>2. /\ ~Saving(j)'
      /\ jobs'[j].kind = "scheduled" => jobs[j].kind = "scheduled"
      /\ Unrecorded(jobs'[j]) =>
           Unrecorded(jobs[j]) /\ jobs[j].write # "last" /\ jobs'[j].began = jobs[j].began
      /\ Served(jobs[j]) /\ jobs[j].write # "last" =>
           Served(jobs'[j]) /\ jobs'[j].began = jobs[j].began
  BY SaveMoves DEF JobChanges, Ends, NoJob, Saving, Unrecorded, Served, Locking, Recording, AfterBackup,
                   Fits
<1>3. jobs[j].read = backup_state /\ \A i \in Jobs : Saving(i) => i = j
  BY <1>1 DEF OneWriter
<1>4. OneWriter'
  BY <1>1, <1>2, <1>3 DEF OneWriter, Saving
<1>5. CASE jobs[j].write = "last"
  <2>1. jobs[j].kind = "scheduled" /\ Unrecorded(jobs[j])
    BY <1>1, <1>5 DEF Fits, Saving, Unrecorded, Recording, Locking
  <2>2. backup_state'.last = jobs[j].began
    BY <1>1, <1>3, <1>5 DEF SavedState, BackupsTyped, StateRecords
  <2>3. \A i \in Jobs : ~Unrecorded(jobs'[i])
    BY <1>1, <1>2, <1>5, <2>1 DEF OneWriter, Unrecorded
  <2>4. backup_state.last <= jobs[j].began
    <3>1. PICK s \in Slots : backup_state.last < s /\ s <= jobs[j].began
      BY <2>1 DEF Awaiting
    <3>2. s \in Nat /\ backup_state.last \in Nat /\ jobs[j].began \in Nat
      BY BackupsAssumption DEF BackupsTyped, StateRecords, JobRecords
    <3>. QED BY <3>1, <3>2
  <2>5. ASSUME NEW s \in Slots, history.served[s] # 0
        PROVE  s <= jobs[j].began
    <3>1. CASE s <= backup_state.last
      <4>1. s \in Nat /\ backup_state.last \in Nat /\ jobs[j].began \in Nat
        BY BackupsAssumption DEF BackupsTyped, StateRecords, JobRecords
      <4>. QED BY <2>4, <3>1, <4>1
    <3>2. CASE \E i \in Jobs : Served(jobs[i]) /\ s <= jobs[i].began
      BY <2>1, <3>2 DEF OneWriter, Served, Unrecorded
    <3>. QED BY <2>5, <3>1, <3>2 DEF Counted
  <2>6. Counted'
    BY <1>1, <2>2, <2>5 DEF Counted
  <2>. QED BY <1>4, <2>3, <2>6 DEF Awaiting
<1>6. CASE jobs[j].write # "last"
  <2>1. backup_state'.last = backup_state.last
    BY <1>1, <1>3, <1>6 DEF SavedState, BackupsTyped, StateRecords
  <2>2. Awaiting'
    BY <1>1, <1>2, <2>1 DEF Awaiting
  <2>3. Counted'
    BY <1>1, <1>2, <1>6, <2>1 DEF Counted
  <2>. QED BY <1>4, <2>2, <2>3
<1>. QED BY <1>5, <1>6

(* A tick serves a slot after the last run: nobody did before it.           *)
LEMMA WriteSound ==
  ASSUME BackupsTyped, NEW j \in Jobs, WriteBackup(j), OneWriter, Awaiting, Counted,
         ~history.clashed
  PROVE  OneWriter' /\ Awaiting' /\ Counted'
<1>. Fits(jobs[j]) /\ jobs[j] \in JobRecords /\ HistoryTyped
  BY DEF BackupsTyped
<1>1. /\ jobs[j].at = "write" /\ backup_state' = backup_state
      /\ \A i \in Jobs \ {j} : jobs'[i] = jobs[i]
  BY OthersStay DEF WriteBackup
<1>2. /\ ~Saving(j)' /\ jobs'[j].kind = jobs[j].kind /\ jobs'[j].began = jobs[j].began
      /\ ~Served(jobs[j]) /\ (Unrecorded(jobs'[j]) => Unrecorded(jobs[j]))
      /\ jobs[j].kind = "scheduled" => Unrecorded(jobs[j]) /\ Served(jobs'[j])
  BY <1>1, WriteMoves DEF JobGoes, JobChanges, Saving, Unrecorded, Served, Locking, Recording,
                          AfterBackup
<1>3. OneWriter'
  BY <1>1, <1>2 DEF OneWriter, Saving
<1>4. Awaiting'
  BY <1>1, <1>2 DEF Awaiting
<1>5. history'.served = Serving(j)
  BY DEF WriteBackup, HistoryTyped, HistoryFields
<1>6. CASE jobs[j].kind # "scheduled"
  <2>1. history'.served = history.served
    BY <1>5, <1>6 DEF Serving
  <2>2. \A i \in Jobs : Served(jobs[i]) => Served(jobs'[i]) /\ jobs'[i].began = jobs[i].began
    BY <1>1, <1>2
  <2>. QED BY <1>1, <1>3, <1>4, <2>1, <2>2 DEF Counted
<1>7. CASE jobs[j].kind = "scheduled"
  <2>. DEFINE slot == ServedSlot(j)
              passed == {s \in Slots : s <= jobs[j].began}
  <2>1. PICK due \in Slots : backup_state.last < due /\ due <= jobs[j].began
    BY <1>2, <1>7 DEF Awaiting
  <2>2. slot \in passed /\ due <= slot
    <3>1. passed \subseteq 1 .. MaxClock /\ due \in passed /\ MaxClock \in Nat
      BY <2>1, BackupsAssumption
    <3>2. slot = Latest(passed)
      BY DEF ServedSlot
    <3>. HIDE DEF passed, slot
    <3>. QED BY <3>1, <3>2, LatestIs
  <2>. HIDE DEF slot
  <2>3. /\ slot \in Nat /\ due \in Nat /\ backup_state.last \in Nat /\ jobs[j].began \in Nat
        /\ \A s \in Slots : s \in Nat
    BY <2>2, BackupsAssumption DEF BackupsTyped, StateRecords, JobRecords
  <2>4. slot <= jobs[j].began /\ ~(slot <= backup_state.last) /\ slot \in Slots
    BY <2>1, <2>2, <2>3
  <2>5. \A i \in Jobs : ~Served(jobs[i])
    BY <1>2, <1>7 DEF OneWriter, Served, Unrecorded
  <2>6. history.served[slot] = 0
    BY <2>4, <2>5 DEF Counted
  <2>7. history'.served = [history.served EXCEPT ![slot] = @ + 1]
    BY <1>5, <1>7 DEF Serving, slot
  <2>8. history'.served[slot] = 1 /\ \A s \in Slots \ {slot} : history'.served[s] = history.served[s]
    <3>1. history.served \in [Slots -> Nat]
      BY DEF HistoryTyped
    <3>. QED BY <2>4, <2>6, <2>7, <3>1
  <2>9. Counted'
    BY <1>1, <1>2, <1>7, <2>4, <2>5, <2>8 DEF Counted
  <2>. QED BY <1>3, <1>4, <2>9
<1>. QED BY <1>6, <1>7

(* Every step keeps the invariant of the slots.                             *)
LEMMA SlotsKept ==
  ASSUME SlotsInv, [BackupsNext]_backupsVars
  PROVE  SlotsInv'
<1>. BackupsTyped /\ HistoryTyped
  BY DEF SlotsInv, BackupsTyped
<1>1. BackupsTyped' /\ (history.clashed => history'.clashed)
  BY TypedStep, Noted
<1>. SUFFICES ASSUME ~history'.clashed, ~history.clashed, OneWriter, Awaiting, Counted
              PROVE  OneWriter' /\ Awaiting' /\ Counted'
  BY <1>1 DEF SlotsInv
<1>2. ASSUME NEW j \in Jobs,
             \/ BeginManual(j) \/ BeginRestore(j) \/ BeginSettings(j) \/ BeginDelete(j)
             \/ Stat(j) \/ UnlinkStale(j) \/ CreateLock(j) \/ Unlock(j) \/ Export(j) \/ Remove(j)
             \/ CheckRestore(j) \/ Apply(j)
      PROVE  OneWriter' /\ Awaiting' /\ Counted'
  <2>1. SlotKeeps(j)
    BY <1>2, SlotKeepsStep
  <2>2. \A i \in Jobs \ {j} : jobs'[i] = jobs[i]
    BY <1>2, OthersStay
  <2>3. backup_state' = backup_state /\ history'.served = history.served
    <3>1. CASE BeginManual(j) \/ BeginRestore(j) \/ BeginSettings(j) \/ BeginDelete(j)
      BY <3>1 DEF BeginManual, BeginRestore, BeginSettings, BeginDelete, NewJob, Started,
                  HistoryTyped, HistoryFields
    <3>2. CASE \/ Stat(j) \/ UnlinkStale(j) \/ CreateLock(j) \/ Unlock(j) \/ Export(j)
               \/ Remove(j) \/ CheckRestore(j) \/ Apply(j)
      BY <3>2 DEF Stat, UnlinkStale, CreateLock, Unlock, Export, Remove, CheckRestore, Apply,
                  HistoryTyped, HistoryFields
    <3>. QED BY <1>2, <3>1, <3>2
  <2>. QED BY <2>1, <2>2, <2>3, SlotKeepsSound
<1>3. ASSUME NEW j \in Jobs, Die(j)
      PROVE  FALSE
  BY <1>3 DEF Die, HistoryTyped, HistoryFields
<1>4. CASE Upload \/ Edit \/ SetMaintenance \/ BuildMoves \/ PassTime \/ UNCHANGED backupsVars
  <2>1. UNCHANGED <<jobs, backup_state>> /\ history'.served = history.served
    BY <1>4 DEF Upload, Edit, SetMaintenance, BuildMoves, PassTime, backupsVars, jobsRest,
                HistoryTyped, HistoryFields
  <2>. QED BY <2>1 DEF OneWriter, Awaiting, Counted, Saving
<1>. QED BY <1>2, <1>3, <1>4, TickSound, ReadSound, SaveSound, WriteSound DEF BackupsNext

(* A slot of the schedule gets one backup, unless a tick was killed or two  *)
(* of them, or two writers of the setting, overlapped.                      *)
THEOREM SlotAlwaysOnce == BackupsSpec => []SlotIsServedOnce
<1>1. BackupsInit => SlotsInv
  <2>. SUFFICES ASSUME BackupsInit PROVE SlotsInv
    OBVIOUS
  <2>1. \A j \in Jobs : jobs[j] = NoJob
    BY DEF BackupsInit
  <2>2. OneWriter /\ Awaiting
    BY <2>1 DEF OneWriter, Awaiting, NoJob, Saving, Unrecorded
  <2>3. Counted
    BY DEF BackupsInit, Counted
  <2>. QED BY <2>2, <2>3, TypedStart DEF SlotsInv
<1>2. SlotsInv /\ [BackupsNext]_backupsVars => SlotsInv'
  BY SlotsKept
<1>3. SlotsInv => SlotIsServedOnce
  BY DEF SlotsInv, Counted, SlotIsServedOnce
<1>. QED BY <1>1, <1>2, <1>3, PTL DEF BackupsSpec
-----------------------------------------------------------------------------
(* What was replaced is in a pre-restore backup, or was, until it was       *)
(* deleted by name.                                                         *)
Kept(c) ==
  \/ c \in history.discarded
  \/ \E n \in Written : backups[n].kind = "pre-restore" /\ backups[n].holds = c

(* Numbers are never used again. *)
Filed == \A n \in Written : n <= history.written

(* What a tick lists is gone or its own kind's. *)
PruneSound(r) ==
  /\ r.kind = "scheduled" /\ r.at = "remove" => r.doomed # {}
  /\ \A n \in r.doomed : /\ n \in 1 .. MaxBackups /\ n <= history.written
                         /\ n \in Written => backups[n].kind = "scheduled"

(* A restore that goes on has made its backup. *)
HasKept(r) == r.kind = "restore" /\ r.at \in {"apply"} \cup Recording

(* What makes a restore one that can be undone.                             *)
Undoable ==
  /\ Filed
  /\ \A j \in Jobs : PruneSound(jobs[j]) /\ (HasKept(jobs[j]) => Kept(jobs[j].holds))
  /\ \A c \in history.replaced : Kept(c)
UndoInv == BackupsTyped /\ Undoable

(* What most steps of a job leave as it is. *)
UndoKeeps(j) ==
  /\ jobs'[j].doomed = {} \/ jobs'[j].doomed = jobs[j].doomed
  /\ jobs'[j].kind = "scheduled" /\ jobs'[j].at = "remove" => jobs'[j].doomed # {}
  /\ HasKept(jobs'[j]) => HasKept(jobs[j]) /\ jobs'[j].holds = jobs[j].holds

(* Most steps leave the files and what is to be removed alone.              *)
LEMMA UndoKeepsStep ==
  ASSUME BackupsTyped, NEW j \in Jobs,
         \/ BeginManual(j) \/ BeginRestore(j) \/ BeginSettings(j) \/ BeginDelete(j)
         \/ BeginTick(j) \/ Stat(j) \/ UnlinkStale(j) \/ CreateLock(j) \/ Unlock(j) \/ Export(j)
         \/ ReadState(j) \/ CheckRestore(j) \/ Apply(j) \/ Die(j)
  PROVE  UndoKeeps(j)
<1>. USE DEF UndoKeeps, HasKept, Recording, JobGoes, JobChanges, Ends, NoJob
<1>1. ASSUME \/ BeginManual(j) \/ BeginRestore(j) \/ BeginSettings(j) \/ BeginDelete(j)
             \/ BeginTick(j)
      PROVE  UndoKeeps(j)
  BY <1>1, BeginMoves DEF JobBegins
<1>2. CASE Stat(j) \/ UnlinkStale(j)
  BY <1>2, StatMoves, UnlinkMoves
<1>3. CASE CreateLock(j)
  BY <1>3, CreateMoves
<1>4. CASE Unlock(j)
  BY <1>4, UnlockMoves
<1>5. CASE Export(j)
  BY <1>5, ExportMoves
<1>6. CASE ReadState(j)
  BY <1>6, ReadMoves
<1>7. CASE CheckRestore(j) \/ Apply(j)
  BY <1>7, RestoreMoves
<1>8. CASE Die(j)
  BY <1>8, Ending DEF Die
<1>. QED BY <1>1, <1>2, <1>3, <1>4, <1>5, <1>6, <1>7, <1>8

(* Those keep the invariant.                                                *)
LEMMA UndoKeepsSound ==
  ASSUME Undoable, NEW j \in Jobs, UndoKeeps(j), \A i \in Jobs \ {j} : jobs'[i] = jobs[i],
         backups' = backups,
         history'.discarded = history.discarded, history'.written = history.written,
         \A c \in history'.replaced : Kept(c)
  PROVE  Undoable'
<1>1. Written' = Written /\ \A c : Kept(c)' <=> Kept(c)
  BY DEF Kept, Written
<1>2. \A i \in Jobs : PruneSound(jobs[i])'
  BY <1>1 DEF Undoable, PruneSound, UndoKeeps
<1>3. \A i \in Jobs : HasKept(jobs'[i]) => Kept(jobs[i].holds)'
  BY <1>1 DEF Undoable, UndoKeeps
<1>4. Filed'
  BY <1>1 DEF Undoable, Filed
<1>. QED BY <1>1, <1>2, <1>3, <1>4 DEF Undoable

(* A new file takes nobody's place. *)
LEMMA KeepingKeeps ==
  ASSUME UndoInv, NEW kind, NEW c, Keeping(kind, c),
         [kind |-> kind, holds |-> c] \in BackupFiles,
         history'.discarded = history.discarded, history'.written = history.written + 1
  PROVE  /\ \A d : Kept(d) => Kept(d)'
         /\ kind = "pre-restore" => Kept(c)'
         /\ Filed'
         /\ \A r \in JobRecords : PruneSound(r) => PruneSound(r)'
<1>. DEFINE n == history.written + 1
<1>1. /\ history.written \in Nat /\ n \in 1 .. MaxBackups
      /\ backups' = [backups EXCEPT ![n] = [kind |-> kind, holds |-> c]]
  BY BackupsAssumption DEF Keeping, UndoInv, BackupsTyped, HistoryTyped
<1>2. n \notin Written
  BY <1>1 DEF UndoInv, Undoable, Filed
<1>3. /\ Written' = Written \cup {n} /\ backups'[n] = [kind |-> kind, holds |-> c]
      /\ \A m \in Written : backups'[m] = backups[m]
  BY <1>1, <1>2, NoFileIsNoBackup DEF Written, UndoInv, BackupsTyped
<1>4. \A d : Kept(d) => Kept(d)'
  BY <1>3 DEF Kept
<1>5. kind = "pre-restore" => Kept(c)'
  BY <1>3 DEF Kept
<1>6. Filed'
  BY <1>1, <1>3 DEF Filed, UndoInv, Undoable, Written
<1>7. ASSUME NEW r \in JobRecords, PruneSound(r)
      PROVE  PruneSound(r)'
  BY <1>1, <1>3, <1>7 DEF PruneSound
<1>. QED BY <1>4, <1>5, <1>6, <1>7

(* A restore has what it is about to replace in the file it writes.         *)
LEMMA WriteUndoable ==
  ASSUME UndoInv, NEW j \in Jobs, WriteBackup(j)
  PROVE  Undoable'
<1>. BackupsTyped /\ Undoable /\ HistoryTyped
  BY DEF UndoInv, BackupsTyped
<1>1. jobs[j] \in JobRecords /\ Fits(jobs[j]) /\ jobs[j].at = "write"
  BY WriteMoves DEF BackupsTyped
<1>2. PICK kind, c :
        /\ kind = IF jobs[j].kind = "restore" THEN "pre-restore" ELSE jobs[j].kind
        /\ c = jobs[j].holds
        /\ kind \in {"manual", "scheduled", "pre-restore"} /\ c \in Nat
  BY <1>1 DEF Fits, JobRecords, Recording
<1>3. /\ Keeping(kind, c) /\ [kind |-> kind, holds |-> c] \in BackupFiles
      /\ history'.discarded = history.discarded /\ history'.written = history.written + 1
      /\ history'.replaced = history.replaced
  BY <1>2 DEF WriteBackup, BackupFiles, HistoryTyped, HistoryFields
<1>4. /\ \A i \in Jobs \ {j} : jobs'[i] = jobs[i]
      /\ jobs'[j].kind = jobs[j].kind /\ jobs'[j].doomed = jobs[j].doomed
      /\ jobs'[j].holds = c /\ jobs'[j].at # "remove"
  BY <1>2, WriteMoves DEF JobGoes, JobChanges, AfterBackup
<1>5. /\ \A d : Kept(d) => Kept(d)'
      /\ jobs[j].kind = "restore" => Kept(c)'
      /\ Filed'
      /\ \A r \in JobRecords : PruneSound(r) => PruneSound(r)'
  <2>1. kind = "pre-restore" => Kept(c)'
    BY <1>3, KeepingKeeps
  <2>2. /\ \A d : Kept(d) => Kept(d)'
        /\ Filed'
        /\ \A r \in JobRecords : PruneSound(r) => PruneSound(r)'
    BY <1>3, KeepingKeeps
  <2>. QED BY <1>2, <2>1, <2>2
<1>6. \A i \in Jobs : PruneSound(jobs[i])'
  BY <1>4, <1>5 DEF Undoable, PruneSound, BackupsTyped
<1>7. \A i \in Jobs : HasKept(jobs'[i]) => Kept(jobs[i].holds)'
  BY <1>4, <1>5 DEF Undoable, HasKept
<1>. QED BY <1>3, <1>5, <1>6, <1>7 DEF Undoable

(* An upload is filed as a backup is.                                       *)
LEMMA UploadUndoable ==
  ASSUME UndoInv, Upload
  PROVE  Undoable'
<1>. BackupsTyped /\ Undoable /\ HistoryTyped
  BY DEF UndoInv, BackupsTyped
<1>1. PICK c \in 0 .. edits : Keeping("uploaded", c)
  BY DEF Upload
<1>2. [kind |-> "uploaded", holds |-> c] \in BackupFiles
  BY DEF BackupFiles, BackupsTyped
<1>3. /\ history'.discarded = history.discarded /\ history'.written = history.written + 1
      /\ history'.replaced = history.replaced /\ jobs' = jobs
  BY DEF Upload, HistoryTyped, HistoryFields
<1>4. /\ \A d : Kept(d) => Kept(d)'
      /\ Filed'
      /\ \A r \in JobRecords : PruneSound(r) => PruneSound(r)'
  BY <1>1, <1>2, <1>3, KeepingKeeps
<1>. QED BY <1>3, <1>4 DEF Undoable, BackupsTyped

(* Saving the setting dooms what the limit leaves out.                      *)
LEMMA SaveUndoable ==
  ASSUME UndoInv, NEW j \in Jobs, SaveState(j)
  PROVE  Undoable'
<1>. BackupsTyped /\ Undoable
  BY DEF UndoInv
<1>1. /\ UNCHANGED <<backups, history>> /\ Fits(jobs[j])
      /\ \A i \in Jobs \ {j} : jobs'[i] = jobs[i]
  BY OthersStay DEF SaveState, BackupsTyped
<1>2. Written' = Written /\ \A c : Kept(c)' <=> Kept(c)
  BY <1>1 DEF Kept, Written
<1>3. \A n \in ToPrune : n \in Written /\ backups[n].kind = "scheduled"
  BY DEF ToPrune
<1>4. \/ jobs'[j].doomed = {} \/ jobs'[j].doomed = jobs[j].doomed
      \/ jobs'[j].doomed = ToPrune
  BY SaveMoves DEF JobChanges, Ends, NoJob
<1>5. jobs'[j].kind = "scheduled" /\ jobs'[j].at = "remove" => jobs'[j].doomed # {}
  BY SaveMoves DEF JobChanges, Ends, NoJob, AfterBackup
<1>6. HasKept(jobs'[j]) => HasKept(jobs[j]) /\ jobs'[j].holds = jobs[j].holds
  BY <1>1, SaveMoves DEF JobChanges, Ends, NoJob, AfterBackup, HasKept, Recording
<1>7. \A n \in jobs'[j].doomed :
        /\ n \in 1 .. MaxBackups /\ n <= history.written
        /\ n \in Written => backups[n].kind = "scheduled"
  <2>1. \A n \in ToPrune : /\ n \in 1 .. MaxBackups /\ n <= history.written
                           /\ n \in Written => backups[n].kind = "scheduled"
    BY <1>3 DEF Undoable, Filed, Written
  <2>. HIDE DEF UndoInv
  <2>. QED BY <1>4, <2>1 DEF Undoable, PruneSound
<1>8. \A i \in Jobs : PruneSound(jobs[i])'
  <2>1. ASSUME NEW i \in Jobs \ {j} PROVE PruneSound(jobs[i])'
    BY <1>1, <1>2 DEF Undoable, PruneSound
  <2>2. PruneSound(jobs[j])'
    <3>1. history'.written = history.written /\ backups' = backups
      BY <1>1
    <3>2. \A n \in jobs'[j].doomed :
            /\ n \in 1 .. MaxBackups /\ n <= history'.written
            /\ n \in Written' => backups'[n].kind = "scheduled"
      BY <1>2, <1>7, <3>1
    <3>. QED BY <1>5, <3>2 DEF PruneSound
  <2>. QED BY <2>1, <2>2
<1>9. \A i \in Jobs : HasKept(jobs'[i]) => Kept(jobs[i].holds)'
  BY <1>1, <1>2, <1>6 DEF Undoable
<1>. QED BY <1>1, <1>2, <1>8, <1>9 DEF Undoable, Filed

(* A deletion by name notes what it discards, and a tick takes only files   *)
(* of its kind.                                                             *)
LEMMA RemoveUndoable ==
  ASSUME UndoInv, NEW j \in Jobs, Remove(j)
  PROVE  Undoable'
<1>. BackupsTyped /\ Undoable /\ HistoryTyped /\ Fits(jobs[j]) /\ PruneSound(jobs[j])
  BY DEF UndoInv, BackupsTyped, Undoable
<1>. DEFINE n == IF jobs[j].kind = "delete" THEN jobs[j].of ELSE Latest(jobs[j].doomed)
<1>1. /\ jobs[j].at = "remove"
      /\ jobs[j].kind # "delete" => jobs[j].kind = "scheduled"
  BY DEF Remove, Fits, Locking, Recording
<1>2. jobs[j].kind = "scheduled" => n \in jobs[j].doomed
  <2>1. jobs[j].kind = "scheduled" => jobs[j].doomed # {} /\ jobs[j].doomed \subseteq 1 .. MaxBackups
    BY <1>1 DEF PruneSound
  <2>2. MaxBackups \in Nat
    BY BackupsAssumption
  <2>. QED BY <2>1, <2>2, LatestIs
<1>3. /\ \A i \in Jobs \ {j} : jobs'[i] = jobs[i]
      /\ jobs'[j].doomed \subseteq jobs[j].doomed
      /\ jobs'[j].at = "remove" => jobs'[j].doomed # {}
      /\ ~HasKept(jobs'[j])
  <2>. HIDE DEF n
  <2>1. jobs'[j].doomed \subseteq jobs[j].doomed /\ (jobs'[j].at = "remove" => jobs'[j].doomed # {})
    BY RemoveMoves DEF JobChanges, Ends, NoJob, n
  <2>2. ~HasKept(jobs'[j])
    BY <1>1, RemoveMoves DEF JobChanges, Ends, NoJob, HasKept
  <2>. QED BY <2>1, <2>2, OthersStay
<1>4. \/ UNCHANGED <<backups, history>>
      \/ /\ n \in Written /\ backups' = [backups EXCEPT ![n] = NoFileThere]
         /\ history' = IF jobs[j].kind = "delete" /\ backups[n].kind = "pre-restore"
              THEN [history EXCEPT !.discarded = @ \cup {backups[n].holds}] ELSE history
  BY DEF Remove
<1>. HIDE DEF n
<1>5. history'.written = history.written /\ history'.replaced = history.replaced
  BY <1>4 DEF HistoryTyped, HistoryFields
<1>6. /\ Written' \subseteq Written /\ \A m \in Written' : backups'[m] = backups[m]
      /\ \A c : Kept(c) => Kept(c)'
  <2>1. CASE UNCHANGED <<backups, history>>
    BY <2>1 DEF Kept, Written
  <2>2. CASE /\ n \in Written /\ backups' = [backups EXCEPT ![n] = NoFileThere]
             /\ history' = IF jobs[j].kind = "delete" /\ backups[n].kind = "pre-restore"
                  THEN [history EXCEPT !.discarded = @ \cup {backups[n].holds}] ELSE history
    <3>1. /\ Written' = Written \ {n} /\ \A m \in Written' : backups'[m] = backups[m]
      BY <2>2 DEF Written, BackupsTyped
    <3>2. history.discarded \subseteq history'.discarded
      BY <2>2 DEF HistoryTyped, HistoryFields
    <3>3. backups[n].kind = "pre-restore" => backups[n].holds \in history'.discarded
      <4>1. backups[n].kind = "pre-restore" => jobs[j].kind = "delete"
        BY <1>1, <1>2, <2>2 DEF PruneSound
      <4>2. CASE jobs[j].kind = "delete" /\ backups[n].kind = "pre-restore"
        BY <2>2, <4>2 DEF HistoryTyped, HistoryFields
      <4>. QED BY <4>1, <4>2
    <3>. QED BY <3>1, <3>2, <3>3 DEF Kept
  <2>. QED BY <1>4, <2>1, <2>2
<1>7. \A i \in Jobs : PruneSound(jobs[i])'
  BY <1>3, <1>5, <1>6 DEF Undoable, PruneSound
<1>8. \A i \in Jobs : HasKept(jobs'[i]) => Kept(jobs[i].holds)'
  BY <1>3, <1>6 DEF Undoable
<1>9. Filed'
  BY <1>5, <1>6 DEF Undoable, Filed
<1>. QED BY <1>5, <1>6, <1>7, <1>8, <1>9 DEF Undoable

(* Every step keeps the invariant of the files.                             *)
LEMMA UndoKept ==
  ASSUME UndoInv, [BackupsNext]_backupsVars
  PROVE  UndoInv'
<1>. BackupsTyped /\ Undoable /\ HistoryTyped
  BY DEF UndoInv, BackupsTyped
<1>1. BackupsTyped'
  BY TypedStep
<1>2. ASSUME NEW j \in Jobs,
             \/ BeginManual(j) \/ BeginRestore(j) \/ BeginSettings(j) \/ BeginDelete(j)
             \/ BeginTick(j) \/ Stat(j) \/ UnlinkStale(j) \/ CreateLock(j) \/ Unlock(j)
             \/ Export(j) \/ ReadState(j) \/ CheckRestore(j) \/ Apply(j) \/ Die(j)
      PROVE  Undoable'
  <2>1. UndoKeeps(j)
    BY <1>2, UndoKeepsStep
  <2>2. \A i \in Jobs \ {j} : jobs'[i] = jobs[i]
    BY <1>2, OthersStay
  <2>3. /\ backups' = backups
        /\ history'.discarded = history.discarded /\ history'.written = history.written
    <3>1. CASE BeginManual(j) \/ BeginRestore(j) \/ BeginSettings(j) \/ BeginDelete(j) \/ BeginTick(j)
      BY <3>1 DEF BeginManual, BeginRestore, BeginSettings, BeginDelete, BeginTick, NewJob, Started,
                  HistoryTyped, HistoryFields
    <3>2. CASE \/ Stat(j) \/ UnlinkStale(j) \/ CreateLock(j) \/ Unlock(j) \/ Export(j)
               \/ ReadState(j) \/ CheckRestore(j) \/ Apply(j) \/ Die(j)
      BY <3>2 DEF Stat, UnlinkStale, CreateLock, Unlock, Export, ReadState, CheckRestore, Apply,
                  Die, HistoryTyped, HistoryFields
    <3>. QED BY <1>2, <3>1, <3>2
  <2>4. \A c \in history'.replaced : Kept(c)
    <3>1. CASE Apply(j)
      <4>1. HasKept(jobs[j])
        BY <3>1 DEF Apply, BackupsTyped, Fits, HasKept, Locking, Recording
      <4>2. \/ history'.replaced = history.replaced
            \/ history'.replaced = history.replaced \cup {jobs[j].holds}
        BY <3>1 DEF Apply, HistoryTyped, HistoryFields
      <4>. QED BY <4>1, <4>2 DEF Undoable
    <3>2. CASE ~Apply(j)
      <4>1. history'.replaced = history.replaced
        <5>1. CASE BeginManual(j) \/ BeginRestore(j) \/ BeginSettings(j) \/ BeginDelete(j) \/ BeginTick(j)
          BY <5>1 DEF BeginManual, BeginRestore, BeginSettings, BeginDelete, BeginTick, Started,
                      HistoryTyped, HistoryFields
        <5>2. CASE \/ Stat(j) \/ UnlinkStale(j) \/ CreateLock(j) \/ Unlock(j) \/ Export(j)
                   \/ ReadState(j) \/ CheckRestore(j) \/ Die(j)
          BY <5>2 DEF Stat, UnlinkStale, CreateLock, Unlock, Export, ReadState, CheckRestore,
                      Die, HistoryTyped, HistoryFields
        <5>. QED BY <1>2, <3>2, <5>1, <5>2
      <4>. QED BY <4>1 DEF Undoable
    <3>. QED BY <3>1, <3>2
  <2>. QED BY <2>1, <2>2, <2>3, <2>4, UndoKeepsSound
<1>3. CASE Edit \/ SetMaintenance \/ BuildMoves \/ PassTime \/ UNCHANGED backupsVars
  <2>1. /\ UNCHANGED <<jobs, backups>> /\ history'.discarded = history.discarded
        /\ history'.written = history.written /\ history'.replaced = history.replaced
    BY <1>3 DEF Edit, SetMaintenance, BuildMoves, PassTime, backupsVars, jobsRest,
                HistoryTyped, HistoryFields
  <2>2. Written' = Written /\ \A c : Kept(c)' <=> Kept(c)
    BY <2>1 DEF Kept, Written
  <2>3. \A i \in Jobs : PruneSound(jobs[i])'
    BY <2>1, <2>2 DEF Undoable, PruneSound
  <2>4. \A i \in Jobs : HasKept(jobs'[i]) => Kept(jobs[i].holds)'
    BY <2>1, <2>2 DEF Undoable
  <2>5. Filed'
    BY <2>1, <2>2 DEF Undoable, Filed
  <2>6. \A c \in history'.replaced : Kept(c)'
    BY <2>1, <2>2 DEF Undoable
  <2>. QED BY <1>1, <2>3, <2>4, <2>5, <2>6 DEF Undoable, UndoInv
<1>. QED BY <1>1, <1>2, <1>3, WriteUndoable, UploadUndoable, SaveUndoable, RemoveUndoable
         DEF BackupsNext, UndoInv

(* Every configuration a restore replaced is in a pre-restore backup,       *)
(* however many scheduled backups are pruned, until somebody deletes it.    *)
THEOREM RestoreAlwaysUndone == BackupsSpec => []RestoreCanBeUndone
<1>1. BackupsInit => UndoInv
  <2>. SUFFICES ASSUME BackupsInit PROVE UndoInv
    OBVIOUS
  <2>1. \A j \in Jobs : jobs[j] = NoJob
    BY DEF BackupsInit
  <2>2. \A j \in Jobs : PruneSound(jobs[j]) /\ ~HasKept(jobs[j])
    BY <2>1 DEF NoJob, PruneSound, HasKept
  <2>3. Filed /\ history.replaced = {}
    BY DEF BackupsInit, Filed, Written
  <2>. QED BY <2>2, <2>3, TypedStart DEF UndoInv, Undoable
<1>2. UndoInv /\ [BackupsNext]_backupsVars => UndoInv'
  BY UndoKept
<1>3. UndoInv => RestoreCanBeUndone
  BY DEF UndoInv, Undoable, Kept, RestoreCanBeUndone
<1>. QED BY <1>1, <1>2, <1>3, PTL DEF BackupsSpec

-----------------------------------------------------------------------------
(* Nothing is of a time that has not come, or a configuration there has not *)
(* been.                                                                    *)
StateWithin(s) == s.saved <= MaxClock /\ s.last <= MaxClock
JobWithin(r, e) ==
  /\ r.kind = "restore" => r.of <= e
  /\ r.holds <= e /\ r.began <= MaxClock /\ StateWithin(r.read)
FilesWithin == \A n \in Written : backups[n].holds <= edits
JobsWithin == \A j \in Jobs : JobWithin(jobs[j], edits)
ClockWithin == clock <= MaxClock /\ lockFile <= clock
ConfigurationWithin == configuration <= edits /\ edits <= MaxEdits
WithinInv == /\ ClockWithin /\ ConfigurationWithin /\ FilesWithin /\ JobsWithin
             /\ StateWithin(backup_state)

LEMMA ClockStep ==
  ASSUME BackupsTyped, ClockWithin, [BackupsNext]_backupsVars
  PROVE  ClockWithin'
<1>. USE DEF ClockWithin
<1>0. clock \in Nat /\ lockFile \in Nat
  BY DEF BackupsTyped
<1>1. ASSUME NEW j \in Jobs,
             \/ BeginManual(j) \/ BeginRestore(j) \/ BeginSettings(j) \/ BeginDelete(j)
             \/ BeginTick(j)
      PROVE  UNCHANGED <<clock, lockFile>>
  BY <1>1 DEF BeginManual, BeginRestore, BeginSettings, BeginDelete, BeginTick, NewJob, server
<1>2. ASSUME NEW j \in Jobs,
             \/ Stat(j) \/ UnlinkStale(j) \/ CreateLock(j) \/ Unlock(j)
      PROVE  clock' = clock /\ lockFile' \in {lockFile, clock, 0}
  BY <1>2 DEF Stat, UnlinkStale, CreateLock, Locked, Unlock, NoLock, server
<1>3. ASSUME NEW j \in Jobs,
             \/ Export(j) \/ WriteBackup(j) \/ ReadState(j) \/ SaveState(j) \/ CheckRestore(j)
             \/ Apply(j) \/ Remove(j) \/ Die(j)
      PROVE  UNCHANGED <<clock, lockFile>>
  BY <1>3 DEF Export, WriteBackup, ReadState, SaveState, CheckRestore, Apply, Remove, Die, server
<1>4. CASE PassTime
  BY <1>0, <1>4, BackupsAssumption DEF PassTime
<1>5. CASE Upload \/ Edit \/ SetMaintenance \/ BuildMoves \/ UNCHANGED backupsVars
  BY <1>5 DEF Upload, Edit, SetMaintenance, BuildMoves, backupsVars, server, jobsRest
<1>. QED BY <1>0, <1>1, <1>2, <1>3, <1>4, <1>5 DEF BackupsNext

(* A restore brings back what a file holds; only an edit makes a new one.   *)
LEMMA ConfigurationStep ==
  ASSUME BackupsTyped, ConfigurationWithin, JobsWithin, [BackupsNext]_backupsVars
  PROVE  ConfigurationWithin' /\ edits <= edits'
<1>. USE DEF ConfigurationWithin
<1>0. configuration \in Nat /\ edits \in Nat
  BY DEF BackupsTyped
<1>1. UNCHANGED <<configuration, edits>> => ConfigurationWithin' /\ edits <= edits'
  BY <1>0
<1>2. ASSUME NEW j \in Jobs,
             \/ BeginManual(j) \/ BeginRestore(j) \/ BeginSettings(j) \/ BeginDelete(j)
             \/ BeginTick(j)
      PROVE  UNCHANGED <<configuration, edits>>
  BY <1>2 DEF BeginManual, BeginRestore, BeginSettings, BeginDelete, BeginTick, NewJob, server
<1>3. ASSUME NEW j \in Jobs,
             \/ Stat(j) \/ UnlinkStale(j) \/ CreateLock(j) \/ Unlock(j) \/ Export(j)
             \/ WriteBackup(j) \/ ReadState(j) \/ SaveState(j) \/ CheckRestore(j) \/ Remove(j)
             \/ Die(j)
      PROVE  UNCHANGED <<configuration, edits>>
  BY <1>3 DEF Stat, UnlinkStale, CreateLock, Unlock, Export, WriteBackup, ReadState, SaveState,
              CheckRestore, Remove, Die, server
<1>4. ASSUME NEW j \in Jobs, Apply(j)
      PROVE  ConfigurationWithin' /\ edits <= edits'
  <2>1. jobs[j] \in JobRecords /\ Fits(jobs[j]) /\ jobs[j].at = "apply"
    BY <1>4 DEF BackupsTyped, Apply
  <2>2. jobs[j].kind = "restore" /\ jobs[j].of \in Nat
    BY <2>1 DEF Fits, JobRecords, Recording
  <2>3. jobs[j].of <= edits
    BY <2>2 DEF JobsWithin, JobWithin
  <2>. QED BY <1>0, <1>4, <2>3 DEF Apply
<1>5. CASE Edit
  BY <1>0, <1>5, BackupsAssumption DEF Edit
<1>6. CASE Upload \/ SetMaintenance \/ BuildMoves \/ PassTime \/ UNCHANGED backupsVars
  <2>1. UNCHANGED <<configuration, edits>>
    BY <1>6 DEF Upload, SetMaintenance, BuildMoves, PassTime, backupsVars, server
  <2>. QED BY <1>1, <2>1
<1>. QED BY <1>1, <1>2, <1>3, <1>4, <1>5, <1>6 DEF BackupsNext

(* A file holds what a job read, or what was uploaded.                      *)
LEMMA FilesStep ==
  ASSUME BackupsTyped, FilesWithin, JobsWithin, ConfigurationWithin, [BackupsNext]_backupsVars
  PROVE  FilesWithin'
<1>0. edits \in Nat /\ edits' \in Nat /\ edits <= edits'
      /\ \A n \in Written : backups[n].holds \in Nat
  BY TypedStep, ConfigurationStep DEF BackupsTyped, Written, BackupFiles
<1>1. ASSUME \A n \in Written' : backups'[n] = backups[n] /\ n \in Written
      PROVE  FilesWithin'
  BY <1>0, <1>1 DEF FilesWithin
<1>2. ASSUME NEW kind, NEW c \in Nat, c <= edits, Keeping(kind, c)
      PROVE  FilesWithin'
  <2>1. ASSUME NEW n \in Written'
        PROVE  backups'[n].holds <= edits'
    <3>1. \/ backups'[n] = [kind |-> kind, holds |-> c]
          \/ backups'[n] = backups[n] /\ n \in Written
      BY <1>2, <2>1 DEF Keeping, Written, BackupsTyped
    <3>. QED BY <1>0, <1>2, <3>1 DEF FilesWithin
  <2>. QED BY <2>1 DEF FilesWithin
<1>3. ASSUME NEW j \in Jobs, WriteBackup(j)
      PROVE  FilesWithin'
  <2>1. jobs[j].holds \in Nat /\ jobs[j].holds <= edits
    BY DEF BackupsTyped, JobRecords, JobsWithin, JobWithin
  <2>2. \E kind : Keeping(kind, jobs[j].holds)
    BY <1>3 DEF WriteBackup
  <2>. QED BY <1>2, <2>1, <2>2
<1>4. CASE Upload
  <2>1. PICK c \in 0 .. edits : Keeping("uploaded", c)
    BY <1>4 DEF Upload
  <2>. QED BY <1>0, <1>2, <2>1
<1>5. ASSUME NEW j \in Jobs, Remove(j)
      PROVE  FilesWithin'
  <2>1. backups' = backups \/ \E n : backups' = [backups EXCEPT ![n] = NoFileThere]
    BY <1>5 DEF Remove
  <2>. QED BY <1>1, <2>1 DEF Written, BackupsTyped
<1>6. ASSUME NEW j \in Jobs,
             \/ BeginManual(j) \/ BeginRestore(j) \/ BeginSettings(j) \/ BeginDelete(j)
             \/ BeginTick(j)
      PROVE  backups' = backups
  BY <1>6 DEF BeginManual, BeginRestore, BeginSettings, BeginDelete, BeginTick, NewJob
<1>7. ASSUME NEW j \in Jobs,
             \/ Stat(j) \/ UnlinkStale(j) \/ CreateLock(j) \/ Unlock(j) \/ Export(j)
             \/ ReadState(j) \/ SaveState(j) \/ CheckRestore(j) \/ Apply(j) \/ Die(j)
      PROVE  backups' = backups
  BY <1>7 DEF Stat, UnlinkStale, CreateLock, Unlock, Export, ReadState, SaveState, CheckRestore,
              Apply, Die
<1>8. CASE Edit \/ SetMaintenance \/ BuildMoves \/ PassTime \/ UNCHANGED backupsVars
  BY <1>1, <1>8 DEF Edit, SetMaintenance, BuildMoves, PassTime, backupsVars, jobsRest, Written
<1>9. backups' = backups => FilesWithin'
  BY <1>1 DEF Written
<1>. QED BY <1>3, <1>4, <1>5, <1>6, <1>7, <1>8, <1>9 DEF BackupsNext

(* What is saved was read before, or is the time the job began.             *)
LEMMA StateStep ==
  ASSUME BackupsTyped, StateWithin(backup_state), JobsWithin, [BackupsNext]_backupsVars
  PROVE  StateWithin(backup_state)'
<1>1. ASSUME NEW j \in Jobs, SaveState(j)
      PROVE  StateWithin(backup_state)'
  <2>. DEFINE read == jobs[j].read
              began == jobs[j].began
  <2>1. /\ read \in StateRecords /\ StateWithin(read) /\ began <= MaxClock
    BY DEF BackupsTyped, JobRecords, JobsWithin, JobWithin
  <2>2. \/ backup_state' = read
        \/ backup_state' = [read EXCEPT !.saved = began]
        \/ backup_state' = [read EXCEPT !.last = began]
    BY <1>1 DEF SaveState, SavedState
  <2>. HIDE DEF read, began
  <2>. QED BY <2>1, <2>2 DEF StateWithin, StateRecords
<1>2. ASSUME NEW j \in Jobs,
             \/ BeginManual(j) \/ BeginRestore(j) \/ BeginSettings(j) \/ BeginDelete(j)
             \/ BeginTick(j)
      PROVE  backup_state' = backup_state
  BY <1>2 DEF BeginManual, BeginRestore, BeginSettings, BeginDelete, BeginTick, NewJob
<1>3. ASSUME NEW j \in Jobs,
             \/ Stat(j) \/ UnlinkStale(j) \/ CreateLock(j) \/ Unlock(j) \/ Export(j)
             \/ WriteBackup(j) \/ ReadState(j) \/ CheckRestore(j) \/ Apply(j) \/ Remove(j)
             \/ Die(j)
      PROVE  backup_state' = backup_state
  BY <1>3 DEF Stat, UnlinkStale, CreateLock, Unlock, Export, WriteBackup, ReadState,
              CheckRestore, Apply, Remove, Die
<1>4. CASE Upload \/ Edit \/ SetMaintenance \/ BuildMoves \/ PassTime \/ UNCHANGED backupsVars
  BY <1>4 DEF Upload, Edit, SetMaintenance, BuildMoves, PassTime, backupsVars, jobsRest, StateWithin
<1>. QED BY <1>1, <1>2, <1>3, <1>4 DEF BackupsNext, StateWithin

LEMMA JobsStep ==
  ASSUME BackupsTyped, WithinInv, [BackupsNext]_backupsVars
  PROVE  JobsWithin'
<1>0. /\ edits \in Nat /\ edits' \in Nat /\ edits <= edits' /\ clock \in Nat
      /\ configuration \in Nat /\ configuration <= edits /\ clock <= MaxClock
      /\ StateWithin(backup_state) /\ StateWithin(Unread) /\ MaxClock \in Nat
  BY TypedStep, ConfigurationStep, BackupsAssumption
     DEF BackupsTyped, WithinInv, ConfigurationWithin, ClockWithin, StateWithin, Unread
<1>1. \A j \in Jobs : jobs[j] \in JobRecords /\ JobWithin(jobs[j], edits)
  BY DEF BackupsTyped, WithinInv, JobsWithin
<1>2. \A j \in Jobs : JobWithin(jobs[j], edits')
  BY <1>0, <1>1 DEF JobWithin, JobRecords
<1>3. ASSUME NEW j \in Jobs, \A i \in Jobs \ {j} : jobs'[i] = jobs[i], JobWithin(jobs'[j], edits')
      PROVE  JobsWithin'
  <2>1. \A i \in Jobs : JobWithin(jobs'[i], edits')
    BY <1>2, <1>3
  <2>. QED BY <2>1 DEF JobsWithin, JobWithin, StateWithin
<1>4. ASSUME NEW j \in Jobs, NEW at, NEW write, NEW holds \in Nat, NEW read, NEW doomed,
             JobChanges(j, at, write, holds, read, doomed),
             holds <= edits, StateWithin(read)
      PROVE  JobsWithin'
  <2>1. JobWithin(jobs'[j], edits')
    <3>1. holds <= edits'
      BY <1>0, <1>4
    <3>. QED BY <1>2, <1>4, <3>1 DEF JobChanges, JobWithin
  <2>. QED BY <1>3, <1>4, <2>1 DEF JobChanges
<1>5. \A j \in Jobs : /\ jobs[j].holds \in Nat /\ jobs[j].holds <= edits
                      /\ StateWithin(jobs[j].read)
  BY <1>1 DEF JobWithin, JobRecords
<1>6. ASSUME NEW j \in Jobs, NEW at, NEW write, NEW doomed,
             \E read : JobChanges(j, at, write, jobs[j].holds, read, doomed)
                       /\ read \in {jobs[j].read, backup_state, Unread}
      PROVE  JobsWithin'
  BY <1>0, <1>4, <1>5, <1>6
<1>7. ASSUME NEW j \in Jobs, Ends(j)
      PROVE  JobsWithin'
  <2>1. JobWithin(NoJob, edits')
    BY <1>0 DEF NoJob, JobWithin
  <2>. QED BY <1>3, <1>7, <2>1 DEF Ends
<1>8. ASSUME NEW j \in Jobs, NEW kind, NEW at, NEW of, JobBegins(j, kind, at, of),
             kind = "restore" => of <= edits'
      PROVE  JobsWithin'
  <2>1. JobWithin(jobs'[j], edits')
    BY <1>0, <1>8 DEF JobBegins, JobWithin
  <2>. QED BY <1>3, <1>8, <2>1 DEF JobBegins
<1>9. ASSUME NEW j \in Jobs,
             BeginManual(j) \/ BeginSettings(j) \/ BeginDelete(j) \/ BeginTick(j)
      PROVE  JobsWithin'
  BY <1>8, <1>9, BeginMoves
<1>10. ASSUME NEW j \in Jobs, BeginRestore(j)
       PROVE  JobsWithin'
  <2>1. PICK n \in Written : NewJob(j, "restore", "stat", backups[n].holds)
    BY <1>10 DEF BeginRestore
  <2>2. backups[n].holds \in Nat /\ backups[n].holds <= edits
    BY DEF BackupsTyped, Written, BackupFiles, WithinInv, FilesWithin
  <2>3. JobBegins(j, "restore", "stat", backups[n].holds)
    BY <2>1, <2>2, Beginning DEF Kinds, Places
  <2>4. backups[n].holds <= edits'
    BY <1>0, <2>2
  <2>. QED BY <1>8, <2>3, <2>4
<1>. USE DEF JobGoes
<1>11. ASSUME NEW j \in Jobs, Stat(j) \/ UnlinkStale(j) \/ CreateLock(j) \/ Unlock(j)
       PROVE  JobsWithin'
  BY <1>6, <1>7, <1>11, StatMoves, UnlinkMoves, CreateMoves, UnlockMoves
<1>12. ASSUME NEW j \in Jobs, Export(j)
       PROVE  JobsWithin'
  BY <1>0, <1>4, <1>5, <1>12, ExportMoves
<1>13. ASSUME NEW j \in Jobs, WriteBackup(j) \/ ReadState(j)
       PROVE  JobsWithin'
  BY <1>6, <1>13, WriteMoves, ReadMoves
<1>14. ASSUME NEW j \in Jobs, SaveState(j)
       PROVE  JobsWithin'
  BY <1>6, <1>7, <1>14, SaveMoves
<1>15. ASSUME NEW j \in Jobs, Remove(j)
       PROVE  JobsWithin'
  BY <1>6, <1>7, <1>15, RemoveMoves
<1>16. ASSUME NEW j \in Jobs, CheckRestore(j) \/ Apply(j)
       PROVE  JobsWithin'
  BY <1>6, <1>16, RestoreMoves
<1>17. ASSUME NEW j \in Jobs, Die(j)
       PROVE  JobsWithin'
  BY <1>7, <1>17, Ending DEF Die
<1>18. CASE Upload \/ Edit \/ SetMaintenance \/ BuildMoves \/ PassTime \/ UNCHANGED backupsVars
  <2>1. jobs' = jobs
    BY <1>18 DEF Upload, Edit, SetMaintenance, BuildMoves, PassTime, backupsVars, jobsRest
  <2>2. \A j \in Jobs : JobWithin(jobs'[j], edits')
    BY <1>2, <2>1
  <2>. QED BY <2>2 DEF JobsWithin, JobWithin, StateWithin
<1>. QED BY <1>9, <1>10, <1>11, <1>12, <1>13, <1>14, <1>15, <1>16, <1>17, <1>18 DEF BackupsNext

(* For any schedule and any numbers of jobs, backups and edits: no backup   *)
(* holds a configuration there has not been, and neither the lock nor the   *)
(* schedule is of a time to come, whoever overwrites the other's.           *)
THEOREM BackupsTypeCorrect == BackupsSpec => []BackupsTypeOK
<1>1. BackupsInit => BackupsTyped /\ WithinInv
  <2>. SUFFICES ASSUME BackupsInit PROVE WithinInv
    BY TypedStart
  <2>1. ClockWithin /\ ConfigurationWithin /\ StateWithin(backup_state)
    BY BackupsAssumption DEF BackupsInit, ClockWithin, ConfigurationWithin, StateWithin, NoLock
  <2>2. FilesWithin
    BY DEF BackupsInit, FilesWithin, Written
  <2>3. JobsWithin
    BY BackupsAssumption DEF BackupsInit, JobsWithin, JobWithin, NoJob, StateWithin, Unread
  <2>. QED BY <2>1, <2>2, <2>3 DEF WithinInv
<1>2. BackupsTyped /\ WithinInv /\ [BackupsNext]_backupsVars => BackupsTyped' /\ WithinInv'
  BY TypedStep, ClockStep, ConfigurationStep, FilesStep, StateStep, JobsStep DEF WithinInv
<1>3. BackupsTyped /\ WithinInv => BackupsTypeOK
  <2>. SUFFICES ASSUME BackupsTyped, WithinInv PROVE BackupsTypeOK
    OBVIOUS
  <2>1. /\ configuration \in 0 .. edits /\ edits \in 0 .. MaxEdits /\ lockFile \in 0 .. clock
        /\ build \in {"waits", "handed", "running"}
    BY BackupsAssumption DEF BackupsTyped, WithinInv, ConfigurationWithin, ClockWithin
  <2>2. backup_state \in [saved : 0 .. MaxClock, last : 0 .. MaxClock]
    BY BackupsAssumption DEF BackupsTyped, WithinInv, StateRecords, StateWithin
  <2>3. \A n \in 1 .. MaxBackups : backups[n] # NoFileThere =>
          backups[n] \in BackupFiles /\ backups[n].holds <= edits
    BY DEF BackupsTyped, WithinInv, FilesWithin, Written
  <2>4. \A j \in Jobs : jobs[j].kind \in Kinds \cup {"none"}
    BY DEF BackupsTyped, JobRecords
  <2>. QED BY <2>1, <2>2, <2>3, <2>4 DEF BackupsTypeOK
<1>. QED BY <1>1, <1>2, <1>3, PTL DEF BackupsSpec
=============================================================================
