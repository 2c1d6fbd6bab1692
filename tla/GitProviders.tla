----------------------------- MODULE GitProviders -----------------------------
(* Listing what a Git provider has, page by page, while it changes there:   *)
(* list_repositories and list_branches of the adapters.  Repositories come  *)
(* newest first, so that one that is updated moves to the front; branches   *)
(* come by name, so that a new one may appear anywhere.                     *)
EXTENDS Integers, FiniteSets

CONSTANTS
  Remote,      (* the repositories, or branches, there may be *)
  PageSize,    (* 100: what the adapters ask for at most *)
  Limits,      (* the limits a caller asks for *)
  MaxChanges,  (* bound: changes at the provider during a listing *)
  NoLimit      (* list_branches has none *)

ASSUME GitProvidersAssumption ==
  /\ IsFiniteSet(Remote)
  /\ PageSize \in Nat \ {0}
  /\ Limits \subseteq Nat \ {0}
  /\ NoLimit \notin Nat /\ MaxChanges \in Nat

VARIABLES
  there,     (* what the provider has *)
  key,       (* what it is sorted by, the greatest first *)
  listing,   (* the request: where it is, the provider, the limit, the next *)
             (* page, how many entries it has, and of what *)
  disturbed, (* observer: what appeared or moved since the listing began *)
  shrunk,    (* observer: something was removed *)
  changes

gitProvidersVars == <<there, key, listing, disturbed, shrunk, changes>>

Providers == {"github", "gitlab", "generic"}
BranchList == listing.limit = NoLimit
PerPage == IF BranchList \/ PageSize < listing.limit THEN PageSize ELSE listing.limit
Full(n) == ~BranchList /\ n >= listing.limit

Before(r) == {q \in there : key[q] > key[r]}
Page(n) == {r \in there : /\ (n - 1) * PerPage <= Cardinality(Before(r))
                          /\ Cardinality(Before(r)) < n * PerPage}

-----------------------------------------------------------------------------
(* The provider refuses or cannot be reached: nothing is listed. *)
Fails ==
  /\ listing' = [listing EXCEPT !.at = "failed", !.got = 0, !.found = {}]
  /\ UNCHANGED <<there, key, disturbed, shrunk, changes>>

Data == Page(listing.page)

(* One round of the loop.  Of a page that has more than is still wanted the *)
(* first ones are taken.                                                    *)
Take(last) ==
  LET taken == {r \in Data : ~Full(listing.got + Cardinality(Before(r) \cap Data))}
      got == listing.got + Cardinality(taken)
  IN
  /\ listing' = [listing EXCEPT
       !.at = IF last \/ Full(got) THEN "ok" ELSE "loop",
       !.page = @ + 1, !.got = got, !.found = @ \cup taken]
  /\ UNCHANGED <<there, key, disturbed, shrunk, changes>>

(* Mutant of TakePage: a full page is taken for the last one. *)
TakeOnePage == Take(Cardinality(Data) <= PerPage)

(* An empty page, or one that is not full, is the last. *)
TakePage == Take(Cardinality(Data) < PerPage)

Looping(provider) == listing.at = "loop" /\ listing.provider = provider

GitHubRepositories == Looping("github") /\ ~BranchList /\ (TakePage \/ Fails)
GitHubBranches == Looping("github") /\ BranchList /\ (TakePage \/ Fails)
GitLabRepositories == Looping("gitlab") /\ ~BranchList /\ (TakePage \/ Fails)
GitLabBranches == Looping("gitlab") /\ BranchList /\ (TakePage \/ Fails)

(* A generic host has no such interface. *)
Unsupported ==
  /\ Looping("generic")
  /\ listing' = [listing EXCEPT !.at = "unsupported"]
  /\ UNCHANGED <<there, key, disturbed, shrunk, changes>>

-----------------------------------------------------------------------------
(* The provider *)

Changes(r) ==
  /\ listing.at = "loop" /\ changes < MaxChanges
  /\ changes' = changes + 1
  /\ disturbed' = disturbed \cup {r}
  /\ UNCHANGED listing

Unused == 0 .. Cardinality(Remote) + MaxChanges

(* A repository is created or updated and comes first. *)
ToTheFront(r) ==
  /\ ~BranchList /\ Changes(r)
  /\ there' = there \cup {r}
  /\ \E k \in Unused :
       /\ \A q \in there : key[q] < k
       /\ key' = [key EXCEPT ![r] = k]
  /\ UNCHANGED shrunk

(* A branch is created, wherever its name puts it. *)
Anywhere(r) ==
  /\ BranchList /\ r \notin there /\ Changes(r)
  /\ there' = there \cup {r}
  /\ \E k \in Unused :
       /\ \A q \in there : key[q] # k
       /\ key' = [key EXCEPT ![r] = k]
  /\ UNCHANGED shrunk

Removed(r) ==
  /\ r \in there /\ Changes(r)
  /\ there' = there \ {r}
  /\ shrunk' = TRUE
  /\ UNCHANGED key

GitProvidersNext ==
  \/ GitHubRepositories \/ GitHubBranches \/ GitLabRepositories \/ GitLabBranches
  \/ Unsupported
  \/ \E r \in Remote : ToTheFront(r) \/ Anywhere(r) \/ Removed(r)

GitProvidersInit ==
  /\ there \in SUBSET Remote
  /\ key \in [Remote -> 1 .. Cardinality(Remote)]
  /\ \A q, r \in Remote : key[q] = key[r] => q = r
  /\ listing \in [at : {"loop"}, provider : Providers, limit : Limits \cup {NoLimit},
                  page : {1}, got : {0}, found : {{}}]
  /\ disturbed = {} /\ shrunk = FALSE /\ changes = 0

GitProvidersSpec == GitProvidersInit /\ [][GitProvidersNext]_gitProvidersVars

GitProvidersTypeOK ==
  /\ there \subseteq Remote /\ disturbed \subseteq Remote
  /\ key \in [Remote -> Nat]
  /\ listing \in [at : {"loop", "ok", "failed", "unsupported"}, provider : Providers,
                  limit : Limits \cup {NoLimit}, page : Nat \ {0}, got : Nat,
                  found : SUBSET Remote]
  /\ shrunk \in BOOLEAN /\ changes \in 0 .. MaxChanges

-----------------------------------------------------------------------------
(* Of what neither appeared nor moved during a listing, the listing has     *)
(* everything, or as much as was asked for and then the first of it, though *)
(* the pages are of different moments: what is created or updated meanwhile *)
(* may be missed or come twice, but makes nothing else be missed.  Only a   *)
(* removal does.                                                            *)
Still == there \ disturbed
UntouchedIsListed ==
  listing.at = "ok" /\ ~shrunk =>
    \A r \in Still \ listing.found :
      /\ Full(listing.got)
      /\ \A q \in Still \cap listing.found : key[q] > key[r]
=============================================================================
