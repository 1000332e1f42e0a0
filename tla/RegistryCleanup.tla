-------------------------- MODULE RegistryCleanup --------------------------
(***************************************************************************)
(* docker-registry-remove-images.py: lists the repositories of a registry, *)
(* looks up the digest of each tag that matches its arguments, and deletes *)
(* the manifests of those digests, while others push to the registry.      *)
(*                                                                         *)
(* The registry is external: a tag names a manifest by its digest, and     *)
(* deleting a manifest takes every tag of its repository that names it.    *)
(***************************************************************************)
EXTENDS Naturals, FiniteSets

CONSTANTS
    Repos, Tags, Digests,
    NoDigest,
    NameMatches,     \* the repositories that -n matches, exactly or in part
    TagMatches,      \* the tags that -t matches
    MaxPushes        \* bound on what others push

ASSUME DigestsAssumption == NoDigest \notin Digests
ASSUME MatchesAssumption == NameMatches \subseteq Repos /\ TagMatches \subseteq Tags
ASSUME BoundAssumption == MaxPushes \in Nat

Images == Repos \X Tags

VARIABLES
    registry,     \* the digest each image's tag names
    args,         \* the script's arguments: --dry-run, and which of -n and -t
    pc,           \* where the script is
    repos,        \* the catalog's repositories that are still to be searched
    unseen,       \* images of the current one that are still to be looked at
    found,        \* tagsToRemove: images with their digests
    kept,         \* images reported with [KEEP] or [KEEP ALL]
    erred,        \* images reported with [ERROR], or whose repository was
    todo,         \* the part of found that is still to be deleted
    removed,      \* images that the registry lost, with their digests
    refused,      \* images whose DELETE was answered with an HTTP error
    pushed        \* images that others pushed

scriptVars == <<args, pc, repos, unseen, found, kept, erred, todo>>
vars == <<registry, scriptVars, removed, refused, pushed>>

\* The tag list of a repository.
Tagged(r) == {i \in Images : i[1] = r /\ registry[i] # NoDigest}

Init ==
    /\ registry \in [Images -> Digests \cup {NoDigest}]
    /\ args \in [dryRun : BOOLEAN, name : BOOLEAN, tag : BOOLEAN]
    /\ pc = "search"
    /\ repos = {r \in Repos : Tagged(r) # {}}
    /\ unseen = {} /\ found = {} /\ kept = {} /\ erred = {} /\ todo = {}
    /\ removed = {} /\ refused = {} /\ pushed = {}

\* The name does not match: the whole repository is kept.
PassedOver(r) == args.name /\ r \notin NameMatches

\* removeTag, once the tag was looked at: an empty search string is none.
Selected(i) ==
    /\ args.name \/ args.tag
    /\ ~PassedOver(i[1])
    /\ args.tag => i[2] \in TagMatches

-----------------------------------------------------------------------------
ListTags(r) ==
    /\ pc = "search" /\ unseen = {}
    /\ r \in repos
    /\ repos' = repos \ {r}
    /\ unseen' = IF PassedOver(r) THEN {} ELSE Tagged(r)
    /\ kept' = IF PassedOver(r) THEN kept \cup Tagged(r) ELSE kept
    /\ UNCHANGED <<registry, args, pc, found, erred, todo, removed, refused, pushed>>

ListFails(r) ==
    /\ pc = "search" /\ unseen = {}
    /\ r \in repos
    /\ repos' = repos \ {r}
    /\ erred' = erred \cup {i \in Images : i[1] = r}
    /\ UNCHANGED <<registry, args, pc, unseen, found, kept, todo, removed, refused, pushed>>

\* Without a search string for tags nothing is said of a tag that is not removed.
PassOver(i) ==
    /\ i \in unseen /\ ~Selected(i)
    /\ unseen' = unseen \ {i}
    /\ kept' = IF args.tag THEN kept \cup {i} ELSE kept
    /\ UNCHANGED <<registry, args, pc, repos, found, erred, todo, removed, refused, pushed>>

\* Mutated LookUp: tagsToRemove has one entry for a tag, whatever its repository.
LookUp_ByTag(i) ==
    /\ i \in unseen /\ Selected(i) /\ registry[i] # NoDigest
    /\ unseen' = unseen \ {i}
    /\ found' = {f \in found : f.image[2] # i[2]} \cup {[image |-> i, digest |-> registry[i]]}
    /\ UNCHANGED <<registry, args, pc, repos, kept, erred, todo, removed, refused, pushed>>

\* get_digest, get_creation_date.
LookUp(i) ==
    /\ i \in unseen /\ Selected(i) /\ registry[i] # NoDigest
    /\ unseen' = unseen \ {i}
    /\ found' = found \cup {[image |-> i, digest |-> registry[i]]}
    /\ UNCHANGED <<registry, args, pc, repos, kept, erred, todo, removed, refused, pushed>>

LookUpFails(i) ==
    /\ i \in unseen /\ Selected(i)
    /\ unseen' = unseen \ {i}
    /\ erred' = erred \cup {i}
    /\ UNCHANGED <<registry, args, pc, repos, found, kept, todo, removed, refused, pushed>>

EndSearch ==
    /\ pc = "search" /\ repos = {} /\ unseen = {}
    /\ pc' = "remove"
    /\ todo' = IF args.dryRun THEN {} ELSE found
    /\ UNCHANGED <<registry, args, repos, unseen, found, kept, erred, removed, refused, pushed>>

\* What the registry does with DELETE <repository>/manifests/<digest>.
DeleteManifest(r, d) ==
    LET named == {i \in Images : i[1] = r /\ registry[i] = d}
    IN  /\ registry' = [i \in Images |-> IF i \in named THEN NoDigest ELSE registry[i]]
        /\ removed' = removed \cup {[image |-> i, digest |-> d] : i \in named}

\* Mutated Delete: the manifest is named by its tag.
Delete_ByTag(f) ==
    /\ f \in todo
    /\ todo' = todo \ {f}
    /\ DeleteManifest(f.image[1], registry[f.image])
    /\ UNCHANGED <<args, pc, repos, unseen, found, kept, erred, refused, pushed>>

\* The answer is not looked at: a manifest that is gone is no error.
Delete(f) ==
    /\ f \in todo
    /\ todo' = todo \ {f}
    /\ DeleteManifest(f.image[1], f.digest)
    /\ UNCHANGED <<args, pc, repos, unseen, found, kept, erred, refused, pushed>>

\* The registry answers with an HTTP error (it does not allow deletions, or not
\* this user's): curl -s -S is silent about that, and the script goes on.
DeleteRefused(f) ==
    /\ f \in todo
    /\ todo' = todo \ {f}
    /\ refused' = refused \cup {f.image}
    /\ UNCHANGED <<registry, args, pc, repos, unseen, found, kept, erred, removed, pushed>>

\* curl fails and the script ends with an exception, whether or not the registry
\* had the request.
DeleteFails(f) ==
    /\ f \in todo
    /\ pc' = "failed" /\ todo' = {}
    /\ \/ DeleteManifest(f.image[1], f.digest)
       \/ UNCHANGED <<registry, removed>>
    /\ UNCHANGED <<args, repos, unseen, found, kept, erred, refused, pushed>>

Done ==
    /\ pc = "remove" /\ todo = {}
    /\ pc' = "done"
    /\ UNCHANGED <<registry, args, repos, unseen, found, kept, erred, todo, removed, refused, pushed>>

\* Somebody pushes an image, new or not, under a tag.
Push(i, d) ==
    /\ i \notin pushed /\ Cardinality(pushed) < MaxPushes
    /\ registry' = [registry EXCEPT ![i] = d]
    /\ pushed' = pushed \cup {i}
    /\ UNCHANGED <<scriptVars, removed, refused>>

Next == \/ \E r \in Repos : ListTags(r) \/ ListFails(r)
        \/ \E i \in Images : PassOver(i) \/ LookUp(i) \/ LookUpFails(i)
        \/ EndSearch \/ Done
        \/ \E f \in todo : Delete(f) \/ DeleteRefused(f) \/ DeleteFails(f)
        \/ \E i \in Images, d \in Digests : Push(i, d)

Spec == Init /\ [][Next]_vars

-----------------------------------------------------------------------------
(* Properties                                                               *)

Found == [image : Images, digest : Digests]

\* Every variable holds a value of its type.
TypeOK ==
    /\ registry \in [Images -> Digests \cup {NoDigest}]
    /\ args \in [dryRun : BOOLEAN, name : BOOLEAN, tag : BOOLEAN]
    /\ pc \in {"search", "remove", "done", "failed"}
    /\ repos \subseteq Repos
    /\ unseen \subseteq Images /\ kept \subseteq Images
    /\ erred \subseteq Images /\ refused \subseteq Images /\ pushed \subseteq Images
    /\ found \subseteq Found /\ todo \subseteq Found /\ removed \subseteq Found

\* Whatever the registry loses, and without --dry-run only, has a digest that was
\* seen at a tag that matches, in the same repository. A manifest that others
\* pushed since the search stays, also at a tag that matches; what goes with the
\* manifests found are the other tags that name them: those reported as kept, and
\* those pushed since with a digest that was found before.
OnlySeenImagesRemoved ==
    \A x \in removed :
        /\ ~args.dryRun
        /\ \E f \in found : /\ f.image[1] = x.image[1] /\ f.digest = x.digest
                             /\ Selected(f.image)

\* A script that is through has removed all images that match, but for those it
\* reported with an error, those whose deletion the registry refused, which it
\* does not report, and those pushed in the meantime: no repository, no tag and no
\* entry of tagsToRemove is skipped on the way.
MatchesAreGone ==
    pc = "done" /\ ~args.dryRun =>
        \A i \in Images : Selected(i) => \/ registry[i] = NoDigest
                                        \/ i \in erred \cup refused \cup pushed

\* No tag that is reported as kept is removed, if nobody pushed to it since ("All
\* tags in these repos will be kept", "tags that will be kept").
KeptTagsStay == \A x \in removed : x.image \in kept => x.image \in pushed

=============================================================================
