------------------------------ MODULE Registry ------------------------------
(* The embedded container registry: uploads that become content-addressed   *)
(* blobs, manifests kept as files beside rows of the database, deploy       *)
(* tokens, and the daily collection of blobs.                               *)
(*                                                                          *)
(* A file's digest is modelled by the content itself: a blob stored under d *)
(* is sound exactly when its content is d.                                  *)
EXTENDS Naturals, Sequences, FiniteSets

CONSTANTS
  Repos, Tags, Manifests,
  Clients,         (* docker clients, each with one request at a time *)
  Holders,         (* those that may log in with a deploy token as well as a user *)
  UploadIds,
  Chunks,
  MaxChunks,       (* MEGOOCI_REGISTRY_MAX_UPLOAD_MB, in chunks *)
  LayersOf,        (* the layers a manifest names *)
  ConfigOf,        (* the config blob a manifest names *)
  NoFile

Content == UNION {[1 .. n -> Chunks] : n \in 0 .. MaxChunks}
Named == UNION {LayersOf[m] \cup {ConfigOf[m]} : m \in Manifests}

ASSUME RegistryAssumption ==
  /\ Holders \subseteq Clients /\ MaxChunks \in Nat \ {0}
  /\ LayersOf \in [Manifests -> SUBSET Content]
  /\ ConfigOf \in [Manifests -> Content]
  /\ NoFile \notin Content \cup Manifests

VARIABLES
  blobs,           (* the file under blobs/sha256 of each digest *)
  uploads,         (* the files under _uploads *)
  tagFiles, digestFiles,    (* the files under manifests/<repository> *)
  repos, images, image_tags,      (* the rows *)
  deploy_tokens,   (* the row of each holder's token *)
  access,          (* what the client's registry token allows *)
  pushing,         (* the put_manifest each client has under way *)
  collector        (* the collection: the digests it keeps, or none under way *)

registryVars == <<blobs, uploads, tagFiles, digestFiles, repos, images,
                  image_tags, deploy_tokens, access, pushing, collector>>
files == <<tagFiles, digestFiles>>
rows == <<repos, images, image_tags>>
people == <<deploy_tokens, access>>

NoRepo == [exists |-> FALSE, immutable |-> FALSE]
NewRepo == [NoRepo EXCEPT !.exists = TRUE]
Untagged == [t \in Tags |-> NoFile]
Idle == [at |-> "idle"]
NoCollection == [at |-> "idle", referenced |-> {}, known |-> {}]

RegistryTypeOK ==
  /\ \A d \in Content : blobs[d] \in Content \cup {NoFile}
  /\ uploads \in [UploadIds -> Content \cup {NoFile}]
  /\ \A r \in Repos :
       /\ tagFiles[r] \in [Tags -> Manifests \cup {NoFile}]
       /\ image_tags[r] \in [Tags -> images[r] \cup {NoFile}]
       /\ digestFiles[r] \subseteq Manifests
       /\ ~repos[r].exists => repos[r] = NoRepo /\ images[r] = {}
  /\ access \in [Clients -> SUBSET {"pull", "push", "delete"}]
  /\ deploy_tokens \in [Holders -> {"none", "pull", "push", "revoked"}]

RegistryInit ==
  /\ blobs = [d \in Content |-> NoFile]
  /\ uploads = [u \in UploadIds |-> NoFile]
  /\ tagFiles = [r \in Repos |-> Untagged] /\ digestFiles = [r \in Repos |-> {}]
  /\ repos = [r \in Repos |-> NoRepo]
  /\ images = [r \in Repos |-> {}] /\ image_tags = [r \in Repos |-> Untagged]
  /\ deploy_tokens = [c \in Holders |-> "none"]
  /\ access = [c \in Clients |-> {}]
  /\ pushing = [c \in Clients |-> Idle]
  /\ collector = NoCollection

-----------------------------------------------------------------------------
(* Tokens *)

(* What authenticate_basic grants: a user's permissions, or the scope of an *)
(* active deploy token.                                                     *)
Grants(c) ==
  {{"pull", "push", "delete"}}
    \cup (IF c \in Holders /\ deploy_tokens[c] = "pull" THEN {{"pull"}} ELSE {})
    \cup (IF c \in Holders /\ deploy_tokens[c] = "push" THEN {{"pull", "push"}} ELSE {})

(* A registry token is signed and lives half an hour; a refused login gives *)
(* none.                                                                    *)
GetToken(c) ==
  /\ \E granted \in Grants(c) : access' = [access EXCEPT ![c] = granted]
  /\ UNCHANGED <<blobs, uploads, files, rows, deploy_tokens, pushing, collector>>

TokenLapses(c) ==
  /\ access[c] # {}
  /\ access' = [access EXCEPT ![c] = {}]
  /\ UNCHANGED <<blobs, uploads, files, rows, deploy_tokens, pushing, collector>>

SetToken(c, old, new) ==
  /\ deploy_tokens[c] \in old
  /\ deploy_tokens' = [deploy_tokens EXCEPT ![c] = new]
  /\ UNCHANGED <<blobs, uploads, files, rows, access, pushing, collector>>

CreateDeployToken(c) == \E s \in {"pull", "push"} : SetToken(c, {"none"}, s)
RevokeDeployToken(c) == SetToken(c, {"pull", "push"}, "revoked")
DeleteDeployToken(c) == SetToken(c, {"pull", "push", "revoked"}, "none")

May(c, action) == pushing[c].at = "idle" /\ action \in access[c]

-----------------------------------------------------------------------------
(* Blobs *)

GetBlob(d) == blobs[d] # NoFile

Pushing(r) == {c \in Clients : pushing[c].at # "idle" /\ pushing[c].repo = r}

(* Another client's uncommitted insert of the same repository makes this one *)
(* wait; the savepoint then finds the row.                                  *)
MayCreate(r) == repos[r].exists \/ \A c \in Pushing(r) : ~pushing[c].creates

GetOrCreateRepo(r) ==
  /\ MayCreate(r)
  /\ repos' = IF repos[r].exists THEN repos ELSE [repos EXCEPT ![r] = NewRepo]

(* A mounted blob needs no upload. *)
StartUpload(c, r) ==
  /\ May(c, "push") /\ GetOrCreateRepo(r)
  /\ \/ \E d \in Named : GetBlob(d) /\ UNCHANGED uploads
     \/ \E u \in UploadIds :
          /\ uploads[u] = NoFile
          /\ uploads' = [uploads EXCEPT ![u] = <<>>]
  /\ UNCHANGED <<blobs, files, images, image_tags, people, pushing, collector>>

uploadRest == <<files, rows, people, pushing, collector>>

(* A chunk is appended wherever the file stands: a client that lost an      *)
(* answer sends its chunk again.  One too many cancels the upload.          *)
UploadChunk(c, u) ==
  /\ May(c, "push") /\ uploads[u] # NoFile
  /\ \E x \in Chunks :
       uploads' = [uploads EXCEPT ![u] =
                     IF Len(@) + 1 > MaxChunks THEN NoFile ELSE Append(@, x)]
  /\ UNCHANGED <<blobs, uploadRest>>

(* Mutant of FinalizeUpload: the digest is believed. *)
FinalizeUnverified(u, data, d) ==
  /\ uploads' = [uploads EXCEPT ![u] = NoFile]
  /\ blobs' = IF blobs[d] = NoFile
              THEN [blobs EXCEPT ![d] = data] ELSE blobs

(* The file is moved under its digest when the digest is right and nothing  *)
(* is there yet; it is gone in every case.                                  *)
FinalizeUpload(u, data, d) ==
  /\ uploads' = [uploads EXCEPT ![u] = NoFile]
  /\ blobs' = IF data = d /\ blobs[d] = NoFile
              THEN [blobs EXCEPT ![d] = data] ELSE blobs

(* The last request may carry the trailing bytes, which the code does not   *)
(* count: that they fit is a bound of the model.                            *)
CompleteUpload(c, u) ==
  /\ May(c, "push") /\ uploads[u] # NoFile
  /\ \E d \in Named, tail \in {<<>>} \cup {<<x>> : x \in Chunks} :
       /\ Len(uploads[u] \o tail) <= MaxChunks
       /\ FinalizeUpload(u, uploads[u] \o tail, d)
  /\ UNCHANGED uploadRest

CancelUpload(c, u) ==
  /\ May(c, "push") /\ uploads[u] # NoFile
  /\ uploads' = [uploads EXCEPT ![u] = NoFile]
  /\ UNCHANGED <<blobs, uploadRest>>

-----------------------------------------------------------------------------
(* Manifests *)

GetManifest(r, t) == tagFiles[r][t]
ListTags(r) == {t \in Tags : image_tags[r][t] # NoFile}
Push(c, new) == pushing' = [pushing EXCEPT ![c] = new]

(* put_manifest reads the repository and refuses the tag of an immutable    *)
(* repository that is there already.  A quota that refuses the push as well *)
(* is a push that does not begin.                                           *)
PutCheck(c, r, t, m) ==
  /\ May(c, "push") /\ MayCreate(r)
  /\ repos[r].immutable => image_tags[r][t] = NoFile
  /\ Push(c, [at |-> "checked", repo |-> r, tag |-> t, manifest |-> m,
              creates |-> ~repos[r].exists,
              hadImage |-> FALSE, hadTag |-> FALSE, lost |-> FALSE])
  /\ UNCHANGED <<blobs, uploads, files, rows, people, collector>>

(* It writes both files before any row, then looks for the image and the    *)
(* tag.                                                                     *)
PutStore(c) ==
  LET p == pushing[c]  r == p.repo  m == p.manifest IN
  /\ p.at = "checked"
  /\ tagFiles' = [tagFiles EXCEPT ![r][p.tag] = m]
  /\ digestFiles' = [digestFiles EXCEPT ![r] = @ \cup {m}]
  /\ Push(c, [p EXCEPT !.at = "stored", !.hadImage = m \in images[r],
                       !.hadTag = image_tags[r][p.tag] # NoFile])
  /\ UNCHANGED <<blobs, uploads, rows, people, collector>>

(* The rows are still as it found them: no unique key is taken, and none it *)
(* updates or refers to has been deleted.                                   *)
Undisturbed(p) ==
  /\ ~p.lost
  /\ p.hadImage \/ p.manifest \notin images[p.repo]
  /\ p.hadTag \/ image_tags[p.repo][p.tag] = NoFile

(* A row some pushes rely on is deleted under them. *)
Lose(cs) ==
  pushing' = [c \in Clients |-> IF c \in cs THEN [pushing[c] EXCEPT !.lost = TRUE]
                               ELSE pushing[c]]

(* The rows are committed; on an error they are rolled back and the files   *)
(* stay.                                                                    *)
PutCommit(c) ==
  LET p == pushing[c]  r == p.repo  m == p.manifest IN
  /\ p.at = "stored"
  /\ IF Undisturbed(p)
     THEN /\ repos' = IF p.creates THEN [repos EXCEPT ![r] = NewRepo] ELSE repos
          /\ images' = [images EXCEPT ![r] = @ \cup {m}]
          /\ image_tags' = [image_tags EXCEPT ![r][p.tag] = m]
     ELSE UNCHANGED rows
  /\ Push(c, Idle)
  /\ UNCHANGED <<blobs, uploads, files, people, collector>>

Without(r, m) == [t \in Tags |-> IF image_tags[r][t] = m THEN NoFile
                                 ELSE image_tags[r][t]]

(* delete_manifest, by tag or by digest, drops the image, every tag of it   *)
(* and the file of its digest; the files of its tags stay.                  *)
DeleteManifest(c, r, m) ==
  /\ May(c, "delete") /\ m \in images[r]
  /\ images' = [images EXCEPT ![r] = @ \ {m}]
  /\ image_tags' = [image_tags EXCEPT ![r] = Without(r, m)]
  /\ digestFiles' = [digestFiles EXCEPT ![r] = @ \ {m}]
  /\ Lose({d \in Pushing(r) :
             \/ pushing[d].hadImage /\ pushing[d].manifest = m
             \/ pushing[d].hadTag /\ image_tags[r][pushing[d].tag] = m})
  /\ UNCHANGED <<blobs, uploads, tagFiles, repos, people, collector>>

(* The management API *)

DeleteTag(r, t) ==
  /\ t \in ListTags(r)
  /\ tagFiles' = [tagFiles EXCEPT ![r][t] = NoFile]
  /\ image_tags' = [image_tags EXCEPT ![r][t] = NoFile]
  /\ Lose({c \in Pushing(r) : pushing[c].hadTag /\ pushing[c].tag = t})
  /\ UNCHANGED <<blobs, uploads, digestFiles, repos, images, people, collector>>

UpdateRepository(r) ==
  /\ repos[r].exists
  /\ \E i \in BOOLEAN : repos' = [repos EXCEPT ![r].immutable = i]
  /\ UNCHANGED <<blobs, uploads, files, images, image_tags, people, pushing,
                 collector>>

DeleteRepository(r) ==
  /\ repos[r].exists
  /\ repos' = [repos EXCEPT ![r] = NoRepo]
  /\ images' = [images EXCEPT ![r] = {}]
  /\ image_tags' = [image_tags EXCEPT ![r] = Untagged]
  /\ tagFiles' = [tagFiles EXCEPT ![r] = Untagged]
  /\ digestFiles' = [digestFiles EXCEPT ![r] = {}]
  /\ Lose({c \in Pushing(r) : ~pushing[c].creates})
  /\ UNCHANGED <<blobs, uploads, people, collector>>

-----------------------------------------------------------------------------
(* The collection *)

Rows == UNION {images[r] : r \in Repos}

(* It reads the digests of the manifests and of their configs; a manifest's *)
(* own digest names no blob.                                                *)
CollectMark ==
  /\ collector.at = "idle" /\ \E d \in Content : GetBlob(d)
  /\ collector' = [at |-> "marked", known |-> Rows,
                   referenced |-> {ConfigOf[m] : m \in Rows}]
  /\ UNCHANGED <<blobs, uploads, files, rows, people, pushing>>

(* It lists the blobs after that, and deletes the ones it did not read. *)
CollectSweep ==
  /\ collector.at = "marked"
  /\ blobs' = [d \in Content |-> IF d \in collector.referenced
                                 THEN blobs[d] ELSE NoFile]
  /\ collector' = NoCollection
  /\ UNCHANGED <<uploads, files, rows, people, pushing>>

-----------------------------------------------------------------------------
(* Getting in and uploading, and everything about manifests. *)
UploadsNext ==
  \/ \E c \in Clients :
       \/ GetToken(c) \/ TokenLapses(c)
       \/ \E r \in Repos : StartUpload(c, r)
       \/ \E u \in UploadIds :
            UploadChunk(c, u) \/ CompleteUpload(c, u) \/ CancelUpload(c, u)
  \/ \E c \in Holders :
       CreateDeployToken(c) \/ RevokeDeployToken(c) \/ DeleteDeployToken(c)

ImagesNext ==
  \/ \E c \in Clients :
       \/ PutStore(c) \/ PutCommit(c)
       \/ \E r \in Repos, m \in Manifests :
            DeleteManifest(c, r, m) \/ \E t \in Tags : PutCheck(c, r, t, m)
  \/ \E r \in Repos :
       \/ UpdateRepository(r) \/ DeleteRepository(r)
       \/ \E t \in Tags : DeleteTag(r, t)
  \/ CollectMark \/ CollectSweep

RegistryNext == UploadsNext \/ ImagesNext

RegistrySpec == RegistryInit /\ [][RegistryNext]_registryVars

-----------------------------------------------------------------------------
(* A blob is the content its digest names, whatever chunks were repeated,   *)
(* reordered or cut off on the way: nobody pulls a layer that is not the    *)
(* one that was pushed.                                                     *)
StoredBlobIsItsDigest == \A d \in Content : blobs[d] \in {d, NoFile}

(* The collection is of unreferenced blobs: an image it has read and that   *)
(* is still listed by a tag loses none of the blobs a pull of it gets.      *)
CollectsOnlyGarbage ==
  [][\A r \in Repos : \A t \in ListTags(r) :
       /\ CollectSweep
       /\ GetManifest(r, t) \in collector.known
       => \A d \in LayersOf[GetManifest(r, t)] \cup {ConfigOf[GetManifest(r, t)]} :
            GetBlob(d) => blobs'[d] # NoFile]_registryVars
=============================================================================
