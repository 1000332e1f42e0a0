----------------------- MODULE RegistryCleanup_proofs -----------------------
(***************************************************************************)
(* Theorems about RegistryCleanup, for every registry, all arguments and   *)
(* any number of pushes.                                                   *)
(***************************************************************************)
EXTENDS RegistryCleanup, TLAPS

\* What is deleted was found, what was found matches, and a dry run deletes
\* nothing.
SearchInv ==
    /\ \A f \in found : Selected(f.image)
    /\ todo \subseteq found
    /\ args.dryRun => todo = {} /\ removed = {}
    /\ pc = "search" => todo = {}

Entry(i) == [image |-> i, digest |-> registry[i]]

\* An image that matches, that nobody pushed and no error concerns, and that is
\* still there, is still to be searched, to be looked at, or to be deleted under
\* the digest it has.
PendingAt(i) ==
    Selected(i) /\ registry[i] # NoDigest /\ i \notin erred \cup refused \cup pushed =>
        /\ pc = "search" => i[1] \in repos \/ i \in unseen \/ Entry(i) \in found
        /\ pc \in {"remove", "done"} => args.dryRun \/ Entry(i) \in todo
PendingInv ==
    /\ \A i \in Images : PendingAt(i)
    /\ pc = "done" => todo = {}

\* Every variable keeps its type.
LEMMA TypeStep ==
    ASSUME TypeOK, [Next]_vars
    PROVE  TypeOK'
<1> USE DigestsAssumption DEF TypeOK, Found
<1>1. ASSUME NEW r \in Repos, ListTags(r) PROVE TypeOK'
  BY <1>1 DEF ListTags, Tagged
<1>2. ASSUME NEW r \in Repos, ListFails(r) PROVE TypeOK'
  BY <1>2 DEF ListFails
<1>3. ASSUME NEW i \in Images, PassOver(i) PROVE TypeOK'
  BY <1>3 DEF PassOver
<1>4. ASSUME NEW i \in Images, LookUp(i) PROVE TypeOK'
  BY <1>4 DEF LookUp
<1>5. ASSUME NEW i \in Images, LookUpFails(i) PROVE TypeOK'
  BY <1>5 DEF LookUpFails
<1>6. CASE EndSearch
  BY <1>6 DEF EndSearch
<1>7. CASE Done
  BY <1>7 DEF Done
<1>8. ASSUME NEW f \in todo, DeleteManifest(f.image[1], f.digest)
      PROVE  /\ registry' \in [Images -> Digests \cup {NoDigest}]
             /\ removed' \subseteq Found
  BY <1>8 DEF DeleteManifest
<1>9. ASSUME NEW f \in todo, Delete(f) PROVE TypeOK'
  BY <1>8, <1>9 DEF Delete
<1>10. ASSUME NEW f \in todo, DeleteFails(f) PROVE TypeOK'
  BY <1>8, <1>10 DEF DeleteFails
<1>11. ASSUME NEW f \in todo, DeleteRefused(f) PROVE TypeOK'
  BY <1>11 DEF DeleteRefused
<1>12. ASSUME NEW i \in Images, NEW d \in Digests, Push(i, d) PROVE TypeOK'
  BY <1>12 DEF Push, scriptVars
<1>13. CASE UNCHANGED vars
  BY <1>13 DEF vars, scriptVars
<1>14. QED
  BY <1>1, <1>2, <1>3, <1>4, <1>5, <1>6, <1>7, <1>9, <1>10, <1>11, <1>12, <1>13 DEF Next

\* Every variable of the script and the registry keeps its type.
THEOREM TypeCorrect == Spec => []TypeOK
<1>1. Init => TypeOK
  BY DEF Init, TypeOK, Images, Found
<1>2. TypeOK /\ [Next]_vars => TypeOK'
  BY TypeStep
<1>3. QED
  BY <1>1, <1>2, PTL DEF Spec

\* The search invariant is inductive, and with it that only what was seen under
\* a matching tag is removed.
LEMMA SearchStep ==
    ASSUME TypeOK, SearchInv, OnlySeenImagesRemoved, [Next]_vars
    PROVE  SearchInv' /\ OnlySeenImagesRemoved'
<1> USE DEF SearchInv, OnlySeenImagesRemoved
<1> DEFINE Goal == SearchInv' /\ OnlySeenImagesRemoved'
<1>1. ASSUME args' = args PROVE \A i \in Images : Selected(i)' <=> Selected(i)
  BY <1>1 DEF Selected, PassedOver
<1>2. args' = args
  BY DEF Next, ListTags, ListFails, PassOver, LookUp, LookUpFails, EndSearch, Done, Delete,
         DeleteRefused, DeleteFails, Push, vars, scriptVars
<1>3. \A f \in found : f.image \in Images
  BY DEF TypeOK, Found
<1>4. ASSUME UNCHANGED <<found, todo, removed, pc>> PROVE Goal
  BY <1>1, <1>2, <1>3, <1>4
<1>5. CASE \E r \in Repos : ListTags(r) \/ ListFails(r)
  BY <1>4, <1>5 DEF ListTags, ListFails
<1>6. ASSUME NEW i \in Images, PassOver(i) \/ LookUpFails(i) PROVE Goal
  BY <1>4, <1>6 DEF PassOver, LookUpFails
<1>7. ASSUME NEW i \in Images, LookUp(i) PROVE Goal
  <2>1. /\ found' = found \cup {[image |-> i, digest |-> registry[i]]}
        /\ UNCHANGED <<todo, removed, pc>>
        /\ Selected(i)
    BY <1>7 DEF LookUp
  <2>2. \A f \in found' : Selected(f.image)'
    BY <1>1, <1>2, <1>3, <2>1
  <2>3. QED
    BY <1>1, <1>2, <1>3, <2>1, <2>2
<1>8. CASE EndSearch
  BY <1>1, <1>2, <1>3, <1>8 DEF EndSearch
<1>9. CASE Done
  BY <1>1, <1>2, <1>3, <1>9 DEF Done
<1>10. ASSUME NEW f \in todo, DeleteManifest(f.image[1], f.digest),
              found' = found, todo' \subseteq todo, pc' \in {pc, "failed"}
       PROVE  Goal
  <2>1. \A x \in removed' \ removed : x.image[1] = f.image[1] /\ x.digest = f.digest
    BY <1>10 DEF DeleteManifest
  <2>2. f \in found /\ ~args.dryRun /\ pc # "search"
    OBVIOUS
  <2>3. OnlySeenImagesRemoved'
    BY <1>1, <1>2, <1>3, <1>10, <2>1, <2>2
  <2>4. SearchInv'
    BY <1>1, <1>2, <1>3, <1>10, <2>2
  <2>5. QED
    BY <2>3, <2>4
<1>11. ASSUME NEW f \in todo, Delete(f) PROVE Goal
  BY <1>10, <1>11 DEF Delete
<1>12. ASSUME NEW f \in todo, DeleteFails(f) PROVE Goal
  <2>1. CASE DeleteManifest(f.image[1], f.digest)
    BY <1>10, <1>12, <2>1 DEF DeleteFails
  <2>2. CASE UNCHANGED <<registry, removed>>
    BY <1>1, <1>2, <1>3, <1>12, <2>2 DEF DeleteFails
  <2>3. QED
    BY <1>12, <2>1, <2>2 DEF DeleteFails
<1>13. ASSUME NEW f \in todo, DeleteRefused(f) PROVE Goal
  BY <1>1, <1>2, <1>3, <1>13 DEF DeleteRefused
<1>14. ASSUME NEW i \in Images, NEW d \in Digests, Push(i, d) PROVE Goal
  BY <1>4, <1>14 DEF Push, scriptVars
<1>15. CASE UNCHANGED vars
  BY <1>4, <1>15 DEF vars, scriptVars
<1>16. QED
  BY <1>5, <1>6, <1>7, <1>8, <1>9, <1>11, <1>12, <1>13, <1>14, <1>15 DEF Next

\* The two are invariants.
LEMMA SearchCorrect == Spec => [](SearchInv /\ OnlySeenImagesRemoved)
<1>1. Init => SearchInv /\ OnlySeenImagesRemoved
  BY DEF Init, SearchInv, OnlySeenImagesRemoved
<1>2. TypeOK /\ SearchInv /\ OnlySeenImagesRemoved /\ [Next]_vars
          => (SearchInv /\ OnlySeenImagesRemoved)'
  BY SearchStep
<1>3. QED
  BY <1>1, <1>2, TypeCorrect, PTL DEF Spec

\* Whatever the script deletes was seen, under the digest it was deleted by, at a
\* tag of the same repository that its arguments match, and nothing with --dry-run.
THEOREM OnlySeenAreRemoved == Spec => []OnlySeenImagesRemoved
BY SearchCorrect, PTL

\* The pending invariant is inductive.
LEMMA PendingStep ==
    ASSUME TypeOK, SearchInv, PendingInv, [Next]_vars
    PROVE  PendingInv'
<1> USE DEF PendingInv
<1>1. args' = args
  BY DEF Next, ListTags, ListFails, PassOver, LookUp, LookUpFails, EndSearch, Done, Delete,
         DeleteRefused, DeleteFails, Push, vars, scriptVars
<1>2. \A i \in Images : Selected(i)' <=> Selected(i)
  BY <1>1 DEF Selected, PassedOver
<1>3. ASSUME NEW r \in Repos, ListTags(r) PROVE PendingInv'
  <2>1. /\ pc = "search" /\ unseen = {} /\ repos' = repos \ {r}
        /\ unseen' = IF PassedOver(r) THEN {} ELSE Tagged(r)
        /\ UNCHANGED <<registry, args, pc, found, erred, todo, refused, pushed>>
    BY <1>3 DEF ListTags
  <2>2. ASSUME NEW i \in Images PROVE PendingAt(i)'
    <3>1. CASE i[1] = r /\ Selected(i) /\ registry[i] # NoDigest
      <4>1. i \in unseen'
        BY <2>1, <3>1 DEF Selected, Tagged
      <4>2. QED
        BY <2>1, <4>1 DEF PendingAt
    <3>2. CASE ~(i[1] = r /\ Selected(i) /\ registry[i] # NoDigest)
      BY <1>2, <2>1, <3>2 DEF PendingAt, Entry
    <3>3. QED
      BY <3>1, <3>2
  <2>3. QED
    BY <2>1, <2>2
<1>4. ASSUME NEW r \in Repos, ListFails(r) PROVE PendingInv'
  <2>1. /\ pc = "search" /\ repos' = repos \ {r}
        /\ erred' = erred \cup {i \in Images : i[1] = r}
        /\ UNCHANGED <<registry, args, pc, unseen, found, todo, refused, pushed>>
    BY <1>4 DEF ListFails
  <2>2. QED
    BY <1>2, <2>1 DEF PendingAt, Entry
<1>5. ASSUME NEW j \in Images, PassOver(j) PROVE PendingInv'
  <2>1. /\ ~Selected(j) /\ unseen' = unseen \ {j}
        /\ UNCHANGED <<registry, args, pc, repos, found, erred, todo, refused, pushed>>
    BY <1>5 DEF PassOver
  <2>2. QED
    BY <1>2, <2>1 DEF PendingAt, Entry
<1>6. ASSUME NEW j \in Images, LookUp(j) PROVE PendingInv'
  <2>1. /\ unseen' = unseen \ {j} /\ found' = found \cup {Entry(j)}
        /\ UNCHANGED <<registry, args, pc, repos, erred, todo, refused, pushed>>
    BY <1>6 DEF LookUp, Entry
  <2>2. \A i \in Images : Entry(i)' = Entry(i)
    BY <2>1 DEF Entry
  <2>3. QED
    BY <1>2, <2>1, <2>2 DEF PendingAt
<1>7. ASSUME NEW j \in Images, LookUpFails(j) PROVE PendingInv'
  <2>1. /\ unseen' = unseen \ {j} /\ erred' = erred \cup {j}
        /\ UNCHANGED <<registry, args, pc, repos, found, todo, refused, pushed>>
    BY <1>7 DEF LookUpFails
  <2>2. QED
    BY <1>2, <2>1 DEF PendingAt, Entry
<1>8. CASE EndSearch
  <2>1. /\ pc = "search" /\ repos = {} /\ unseen = {} /\ pc' = "remove"
        /\ todo' = IF args.dryRun THEN {} ELSE found
        /\ UNCHANGED <<registry, args, erred, refused, pushed>>
    BY <1>8 DEF EndSearch
  <2>2. \A i \in Images : Entry(i)' = Entry(i)
    BY <2>1 DEF Entry
  <2>3. QED
    BY <1>2, <2>1, <2>2 DEF PendingAt
<1>9. CASE Done
  <2>1. /\ pc = "remove" /\ pc' = "done" /\ todo = {}
        /\ UNCHANGED <<registry, args, repos, unseen, found, erred, todo, refused, pushed>>
    BY <1>9 DEF Done
  <2>2. QED
    BY <1>2, <2>1 DEF PendingAt, Entry
<1>10. ASSUME NEW f \in todo, Delete(f) PROVE PendingInv'
  <2>1. /\ todo' = todo \ {f}
        /\ registry' = [i \in Images |-> IF i[1] = f.image[1] /\ registry[i] = f.digest
                                         THEN NoDigest ELSE registry[i]]
        /\ UNCHANGED <<args, pc, repos, unseen, found, erred, refused, pushed>>
    BY <1>10 DEF Delete, DeleteManifest
  <2>2. ASSUME NEW i \in Images, registry'[i] # NoDigest
        PROVE  Entry(i)' = Entry(i) /\ Entry(i) # f
    <3>1. registry'[i] = registry[i] /\ ~(i[1] = f.image[1] /\ registry[i] = f.digest)
      BY <2>1, <2>2
    <3>2. Entry(i).image = i /\ Entry(i).digest = registry[i]
      BY DEF Entry
    <3>3. QED
      BY <3>1, <3>2 DEF Entry
  <2>3. ASSUME NEW i \in Images PROVE PendingAt(i)'
    <3>1. CASE registry'[i] = NoDigest
      BY <3>1 DEF PendingAt
    <3>2. CASE registry'[i] # NoDigest
      <4>1. registry'[i] = registry[i]
        BY <2>1, <3>2
      <4>2. QED
        BY <1>2, <2>1, <2>2, <3>2, <4>1 DEF PendingAt
    <3>3. QED
      BY <3>1, <3>2
  <2>4. QED
    BY <2>1, <2>3
<1>11. ASSUME NEW f \in todo, DeleteFails(f) PROVE PendingInv'
  BY <1>11 DEF DeleteFails, PendingAt
<1>12. ASSUME NEW f \in todo, DeleteRefused(f) PROVE PendingInv'
  <2>1. /\ todo' = todo \ {f} /\ refused' = refused \cup {f.image}
        /\ UNCHANGED <<registry, args, pc, repos, unseen, found, erred, pushed>>
    BY <1>12 DEF DeleteRefused
  <2>2. \A i \in Images : i # f.image => Entry(i)' = Entry(i) /\ Entry(i) # f
    BY <2>1 DEF Entry
  <2>3. QED
    BY <1>2, <2>1, <2>2 DEF PendingAt
<1>13. ASSUME NEW j \in Images, NEW d \in Digests, Push(j, d) PROVE PendingInv'
  <2>1. /\ registry' = [registry EXCEPT ![j] = d] /\ pushed' = pushed \cup {j}
        /\ UNCHANGED <<args, pc, repos, unseen, found, erred, todo, refused>>
    BY <1>13 DEF Push, scriptVars
  <2>2. \A i \in Images : i # j => registry'[i] = registry[i]
    BY <2>1 DEF TypeOK
  <2>3. QED
    BY <1>2, <2>1, <2>2 DEF PendingAt, Entry
<1>14. CASE UNCHANGED vars
  BY <1>2, <1>14 DEF vars, scriptVars, PendingAt, Entry
<1>15. QED
  BY <1>3, <1>4, <1>5, <1>6, <1>7, <1>8, <1>9, <1>10, <1>11, <1>12, <1>13, <1>14 DEF Next

\* When the script is through, no image that matches is left but those it reported
\* with an error, those whose deletion the registry refused, and those that
\* somebody pushed while it ran.
THEOREM AllMatchesAreRemoved == Spec => []MatchesAreGone
<1>1. Init => PendingInv
  BY DEF Init, PendingInv, PendingAt, Tagged, Images
<1>2. TypeOK /\ SearchInv /\ PendingInv /\ [Next]_vars => PendingInv'
  BY PendingStep
<1>3. PendingInv => MatchesAreGone
  BY DEF PendingInv, PendingAt, MatchesAreGone
<1>4. QED
  BY <1>1, <1>2, <1>3, TypeCorrect, SearchCorrect, PTL DEF Spec

\* No two tags of a repository name the same manifest.
NoSharedManifests ==
    \A i, k \in Images : i # k /\ i[1] = k[1] /\ registry[i] = registry[k] => registry[i] = NoDigest

\* A digest to delete is that of no other tag than the one it was found at, unless
\* somebody pushed there; what is kept is not selected, and the search is over
\* before anything is lost.
SharingInv ==
    /\ \A f \in found : \A k \in Images :
           k # f.image /\ k[1] = f.image[1] /\ k \notin pushed => registry[k] # f.digest
    /\ \A i \in kept : ~Selected(i)
    /\ pc # "search" => repos = {} /\ unseen = {}
    /\ pc = "search" => removed = {}

LEMMA SharingStep ==
    ASSUME TypeOK, SearchInv, NoSharedManifests, SharingInv, KeptTagsStay, [Next]_vars
    PROVE  SharingInv' /\ KeptTagsStay'
<1> USE DigestsAssumption DEF TypeOK, SharingInv, KeptTagsStay, Found
<1> DEFINE Goal == SharingInv' /\ KeptTagsStay'
<1>1. args' = args
  BY DEF Next, ListTags, ListFails, PassOver, LookUp, LookUpFails, EndSearch, Done, Delete,
         DeleteRefused, DeleteFails, Push, vars, scriptVars
<1>2. \A i : Selected(i)' <=> Selected(i)
  BY <1>1 DEF Selected, PassedOver
<1>3. ASSUME NEW r \in Repos, ListTags(r) PROVE Goal
  <2>1. \A i \in kept' : ~Selected(i)
    BY <1>3 DEF ListTags, Tagged, Selected
  <2>2. QED
    BY <1>2, <1>3, <2>1 DEF ListTags
<1>4. ASSUME NEW r \in Repos, ListFails(r) PROVE Goal
  BY <1>2, <1>4 DEF ListFails
<1>5. ASSUME NEW i \in Images, PassOver(i) PROVE Goal
  BY <1>2, <1>5 DEF PassOver
<1>6. ASSUME NEW i \in Images, LookUp(i) PROVE Goal
  <2>1. /\ found' = found \cup {[image |-> i, digest |-> registry[i]]}
        /\ registry[i] # NoDigest
        /\ UNCHANGED <<registry, pc, repos, kept, removed, pushed>>
        /\ unseen' = unseen \ {i}
    BY <1>6 DEF LookUp
  <2>2. \A k \in Images : k # i /\ k[1] = i[1] => registry[k] # registry[i]
    BY <2>1 DEF NoSharedManifests
  <2>3. QED
    BY <1>2, <2>1, <2>2
<1>7. ASSUME NEW i \in Images, LookUpFails(i) PROVE Goal
  BY <1>2, <1>7 DEF LookUpFails
<1>8. CASE EndSearch
  BY <1>2, <1>8 DEF EndSearch
<1>9. CASE Done
  BY <1>2, <1>9 DEF Done
<1>10. ASSUME NEW f \in todo, DeleteManifest(f.image[1], f.digest), pc' \in {pc, "failed"},
              UNCHANGED <<repos, unseen, found, kept, pushed>>
       PROVE  Goal
  <2>1. f \in found /\ Selected(f.image) /\ pc # "search"
    BY DEF SearchInv
  <2>2. \A x \in removed' \ removed :
            x.image \in Images /\ x.image[1] = f.image[1] /\ registry[x.image] = f.digest
    BY <1>10 DEF DeleteManifest
  <2>3. \A x \in removed' \ removed : x.image \in kept => x.image \in pushed
    BY <2>1, <2>2
  <2>4. \A k \in Images : registry'[k] \in {registry[k], NoDigest}
    BY <1>10 DEF DeleteManifest
  <2>5. \A g \in found : g.digest # NoDigest
    OBVIOUS
  <2>6. QED
    BY <1>2, <1>10, <2>1, <2>3, <2>4, <2>5
<1>11. ASSUME NEW f \in todo, Delete(f) PROVE Goal
  BY <1>10, <1>11 DEF Delete
<1>12. ASSUME NEW f \in todo, DeleteFails(f) PROVE Goal
  <2>1. CASE DeleteManifest(f.image[1], f.digest)
    BY <1>10, <1>12, <2>1 DEF DeleteFails
  <2>2. CASE UNCHANGED <<registry, removed>>
    BY <1>2, <1>12, <2>2 DEF DeleteFails, SearchInv
  <2>3. QED
    BY <1>12, <2>1, <2>2 DEF DeleteFails
<1>13. ASSUME NEW f \in todo, DeleteRefused(f) PROVE Goal
  BY <1>2, <1>13 DEF DeleteRefused
<1>14. ASSUME NEW i \in Images, NEW d \in Digests, Push(i, d) PROVE Goal
  BY <1>2, <1>14 DEF Push, scriptVars
<1>15. CASE UNCHANGED vars
  BY <1>2, <1>15 DEF vars, scriptVars
<1>16. QED
  BY <1>3, <1>4, <1>5, <1>6, <1>7, <1>8, <1>9, <1>11, <1>12, <1>13, <1>14, <1>15 DEF Next

\* The tags reported as kept do stay as long as no manifest of a repository has
\* two tags: two tags with one digest are what the script overlooks, and all.
THEOREM UnsharedTagsAreKept == Spec /\ []NoSharedManifests => []KeptTagsStay
<1>1. Init => SharingInv /\ KeptTagsStay
  BY DEF Init, SharingInv, KeptTagsStay
<1>2. TypeOK /\ SearchInv /\ NoSharedManifests /\ SharingInv /\ KeptTagsStay /\ [Next]_vars
          => SharingInv' /\ KeptTagsStay'
  BY SharingStep
<1>3. QED
  BY <1>1, <1>2, TypeCorrect, SearchCorrect, PTL DEF Spec

=============================================================================
