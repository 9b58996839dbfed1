------------------------- MODULE CreateRequest_proofs -------------------------
(***************************************************************************)
(* Proofs about CreateRequest, for any requests, flags, hosts, source      *)
(* trees and widths of numbers: what runs is what was asked, what was      *)
(* accepted can be built, nothing is shared, and a copy is whole.          *)
(***************************************************************************)
EXTENDS CreateRequest, SequenceTheorems, TLAPS

-----------------------------------------------------------------------------
(***************************************************************************)
(* The inductive invariant                                                 *)
(***************************************************************************)
\* What the daemon was asked for: the merged spec of the request.
Asked == EffectiveSpec(request)[1]

\* The phases behind the validation.
Granted == {"accepted", "materialized", "copying", "running", "failed"}

\* What store and record hold is what was asked, and passed the validation on
\* some host, on the present one if that has not changed.
SpecInv ==
  /\ host \in Hosts
  /\ changes \in 0 .. MaxChanges
  /\ IsRequest(request)
  /\ phase \notin Granted => stored = EmptySpec /\ record = EmptySpec
  /\ phase \in Granted =>
       /\ EffectiveSpec(request) # <<>>
       /\ \E h \in Hosts : validateCreateSpec(h, Asked)
       /\ stored = expandPaths(Asked)
       /\ record = cloneCreateSpec(stored)
  /\ (phase = "accepted" /\ changes = 0) => validateCreateSpec(host, Asked)

\* The mounts of a plan share no target and contain those of the record.
MountsPlanned ==
  /\ IsInjective(Targets(plan.mounts))
  /\ \A k \in DOMAIN record.mounts :
       LET m == record.mounts[k]
       IN  \E n \in ToSet(plan.mounts) : /\ n.source = m.source
                                         /\ n.target = m.target
                                         /\ n.readOnly = ~m.writable
  /\ reserved \notin DOMAIN plan.env

\* The phases behind the creation of the container.
Built == {"copying", "running"}

PlanInv ==
  /\ phase \in Built \cup {"materialized"} => MountsPlanned
  /\ phase \in Built => container # <<>>
  /\ phase \notin Built \cup {"failed"} => container = <<>>
  /\ container # <<>> =>
       MountsPlanned /\ container = <<PrimaryOf(record, plan.mounts, plan.env)>>

\* How the creation failed, and what was copied before.
FailureInv ==
  /\ phase \in Granted \cup {"composing", "sent", "refused"}
  /\ failure \in {"", "materialize", "docker", "copy"}
  /\ failure # "" <=> phase = "failed"
  /\ copied \in 0 .. Len(record.copies)
  /\ copied > 0 => container # <<>>
  /\ client # "idle" => phase = "copying" /\ copied < Len(record.copies)

\* The archive is in order and goes no further than the walk.
InOrder ==
  /\ \A i, j \in DOMAIN archive : i < j => archive[i] < archive[j]
  /\ \A i \in DOMAIN archive :
       /\ archive[i] \in Wanted(tree)
       /\ tree.top = "dir" => tree.kind[archive[i]] # "outsideLink"
       /\ archive[i] <= next
       /\ tarEnd # "error" => archive[i] < next

\* What the walk has passed is in the archive or is not wanted.
Complete ==
  \A m \in Wanted(tree) : m < next =>
    /\ \E i \in DOMAIN archive : archive[i] = m
    /\ tree.kind[m] # "unread"
    /\ tree.top = "dir" => tree.kind[m] # "outsideLink"

\* The walk passes over a directory that is excluded or ignored as a whole.
Pruned(t, a) == a \in t.excluded \/ IgnoredWhole(t, a)

\* The walk is never inside a directory it has passed over.
NotInside ==
  tree.top = "dir" =>
    \A a \in Entries(tree) : a < next /\ Pruned(tree, a) => tree.last[a] < next

\* The walk ends with success behind the last entry, and with an error for a
\* reason.
WalkEnded ==
  /\ tarEnd = "ok" => next > LastEntry
  /\ tarEnd = "error" => Refused(tree) \/ pipe = "broken"

ArchiveInv ==
  tree \in Trees /\ ArchiveTypeOK /\ InOrder /\ Complete /\ NotInside /\ WalkEnded

\* Only an archive that ended well counts as copied.
WholeInv ==
  (copied > 0 /\ client = "idle" /\ failure # "copy") => tarEnd = "ok"

CreateInv ==
  /\ SpecInv /\ PlanInv /\ FailureInv /\ AcceptedIsBuildable
  /\ ArchiveInv /\ WholeInv

-----------------------------------------------------------------------------
(***************************************************************************)
(* Source trees                                                            *)
(***************************************************************************)
\* What TreesAssumption says of one tree.
LEMMA TreeFacts ==
  ASSUME NEW t \in Trees
  PROVE  /\ t.top \in {"dir", "file"}
         /\ Len(t.kind) \in Nat
         /\ Entries(t) = 1 .. Len(t.kind)
         /\ t.top = "file" => Len(t.kind) = 1
         /\ \A n \in Entries(t) :
              /\ t.last[n] \in n .. Len(t.kind)
              /\ t.kind[n] # "dir" => t.last[n] = n
              /\ \A m \in n .. t.last[n] : t.last[m] <= t.last[n]
<1>1. t.kind \in Seq({"dir", "file", "insideLink", "outsideLink", "unread"})
  BY TreesAssumption
<1>2. Len(t.kind) \in Nat /\ Entries(t) = 1 .. Len(t.kind)
  BY <1>1 DEF Entries
<1> QED
  BY <1>2, TreesAssumption DEF Below

\* What is wanted of a tree are entries of it: the file, or what nothing passes
\* over.
LEMMA WantedFacts ==
  ASSUME NEW t \in Trees
  PROVE  /\ Wanted(t) \subseteq Entries(t)
         /\ t.top = "file" => Wanted(t) = {1} /\ Entries(t) = {1}
         /\ t.top = "dir" => \A n \in Entries(t) :
              n \in Wanted(t) <=>
                /\ \A a \in Entries(t) : Pruned(t, a) => n \notin a .. t.last[a]
                /\ ~(t.kind[n] = "outsideLink" /\ n \in t.ignored)
<1>1. CASE t.top = "file"
  <2>1. Entries(t) = {1}
    BY <1>1, TreeFacts
  <2> QED
    BY <1>1, <2>1 DEF Wanted
<1>2. CASE t.top = "dir"
  <2>1. Wanted(t) = {n \in Entries(t) : ~Passed(t, n)}
    BY <1>2 DEF Wanted
  <2> QED
    BY <1>2, <2>1 DEF Passed, Above, Below, Pruned
<1> QED
  BY <1>1, <1>2, TreeFacts

\* The order of the checks of the function WalkDir calls.
LEMMA VerdictFacts ==
  ASSUME NEW t, NEW n
  PROVE  /\ verdict(t, n) = "skip" <=>
              \/ Pruned(t, n)
              \/ t.kind[n] = "outsideLink" /\ n \in t.ignored
         /\ verdict(t, n) = "refuse" <=>
              /\ ~Pruned(t, n)
              /\ t.kind[n] = "outsideLink" /\ n \notin t.ignored
<1>1. CASE Pruned(t, n)
  <2>1. verdict(t, n) = "skip"
    BY <1>1 DEF verdict, Pruned
  <2> QED
    BY <1>1, <2>1
<1>2. CASE ~Pruned(t, n)
  <2>1. CASE t.kind[n] = "outsideLink" /\ n \in t.ignored
    <3>1. verdict(t, n) = "skip"
      BY <1>2, <2>1 DEF verdict, Pruned
    <3> QED
      BY <1>2, <2>1, <3>1
  <2>2. CASE t.kind[n] = "outsideLink" /\ n \notin t.ignored
    <3>1. verdict(t, n) = "refuse"
      BY <1>2, <2>2 DEF verdict, Pruned
    <3> QED
      BY <1>2, <2>2, <3>1
  <2>3. CASE t.kind[n] # "outsideLink"
    <3>1. verdict(t, n) = "write"
      BY <1>2, <2>3 DEF verdict, Pruned
    <3> QED
      BY <1>2, <2>3, <3>1
  <2> QED
    BY <2>1, <2>2, <2>3
<1> QED
  BY <1>1, <1>2

\* The function WalkDir calls skips an entry if and only if it is not wanted,
\* provided the walk is not inside something it has passed over.
LEMMA SkipsUnwanted ==
  ASSUME ArchiveInv, tree.top = "dir", next \in Entries(tree)
  PROVE  verdict(tree, next) = "skip" <=> next \notin Wanted(tree)
<1>1. tree \in Trees
  BY DEF ArchiveInv
<1>2. /\ next \in Nat
      /\ next \in next .. tree.last[next]
      /\ \A a \in Entries(tree) : a \in Nat /\ tree.last[a] \in Nat
  BY <1>1, TreeFacts
<1>3. ASSUME NEW a \in Entries(tree), Pruned(tree, a), next \in a .. tree.last[a]
      PROVE  a = next
  <2>1. a < next => tree.last[a] < next
    BY <1>3 DEF ArchiveInv, NotInside
  <2> QED
    BY <1>2, <1>3, <2>1
<1>4. next \in Wanted(tree) <=>
        /\ ~Pruned(tree, next)
        /\ ~(tree.kind[next] = "outsideLink" /\ next \in tree.ignored)
  BY <1>1, <1>2, <1>3, WantedFacts
<1>5. verdict(tree, next) = "skip" <=>
        \/ Pruned(tree, next)
        \/ tree.kind[next] = "outsideLink" /\ next \in tree.ignored
  BY VerdictFacts
<1> QED
  BY <1>4, <1>5

\* Nothing below an entry that is skipped is wanted.
LEMMA SkipsWhole ==
  ASSUME ArchiveInv, tree.top = "dir", next \in Entries(tree),
         verdict(tree, next) = "skip", NEW m \in next .. tree.last[next]
  PROVE  m \notin Wanted(tree)
<1>1. tree \in Trees
  BY DEF ArchiveInv
<1>2. /\ tree.last[next] \in next .. Len(tree.kind)
      /\ Len(tree.kind) \in Nat
      /\ Entries(tree) = 1 .. Len(tree.kind)
      /\ tree.kind[next] # "dir" => tree.last[next] = next
  BY <1>1, TreeFacts
<1>3. m \in Entries(tree)
  BY <1>2
<1>4. CASE Pruned(tree, next)
  BY <1>1, <1>3, <1>4, WantedFacts
<1>5. CASE ~Pruned(tree, next)
  <2>1. tree.kind[next] = "outsideLink"
    BY <1>5 DEF verdict, Pruned
  <2>2. m = next
    BY <1>2, <2>1
  <2> QED
    BY <2>2, SkipsUnwanted
<1> QED
  BY <1>4, <1>5

-----------------------------------------------------------------------------
(***************************************************************************)
(* The walk and the pipe                                                   *)
(***************************************************************************)
\* A copy begins with an empty archive.
LEMMA CopyStarts ==
  ASSUME tree' \in Trees, next' = 1, archive' = <<>>, tarEnd' = "none",
         pipe' = "open", client' \in {"idle", "reading"}
  PROVE  ArchiveInv'
<1>1. ArchiveTypeOK'
  <2>1. /\ tree'.top \in {"dir", "file"}
        /\ Len(tree'.kind) \in Nat
    BY TreeFacts
  <2>2. 1 \in 1 .. Len(tree'.kind) + 1
    BY <2>1
  <2>3. <<>> \in Seq((Entries(tree))')
    OBVIOUS
  <2> QED
    BY <2>1, <2>2, <2>3 DEF ArchiveTypeOK
<1>2. \A m \in (Wanted(tree))' : m \in Nat \ {0}
  BY TreeFacts, WantedFacts DEF Wanted
<1>3. InOrder' /\ Complete'
  BY <1>2 DEF InOrder, Complete
<1>4. NotInside'
  BY TreeFacts DEF NotInside
<1>5. WalkEnded'
  BY DEF WalkEnded
<1> QED
  BY <1>1, <1>3, <1>4, <1>5 DEF ArchiveInv

\* Skip passes over an entry with all it holds.
LEMMA SkipKeeps ==
  ASSUME ArchiveInv, Skip
  PROVE  ArchiveInv'
<1>1. tree \in Trees /\ ArchiveTypeOK
  BY DEF ArchiveInv
<1>2. /\ tree.top = "dir"
      /\ tarEnd = "none"
      /\ next <= Len(tree.kind)
      /\ verdict(tree, next) = "skip"
      /\ next' = tree.last[next] + 1
      /\ UNCHANGED <<tree, archive, tarEnd, pipe, client>>
  BY DEF Skip, Walking, LastEntry, After
<1>3. /\ Len(tree.kind) \in Nat
      /\ Entries(tree) = 1 .. Len(tree.kind)
      /\ next \in Entries(tree)
      /\ tree.last[next] \in next .. Len(tree.kind)
      /\ \A m \in next .. tree.last[next] : tree.last[m] <= tree.last[next]
      /\ \A a \in Entries(tree) : tree.last[a] \in Nat
  <2>1. Len(tree.kind) \in Nat /\ Entries(tree) = 1 .. Len(tree.kind)
    BY <1>1, TreeFacts
  <2>2. next \in Entries(tree)
    BY <1>1, <1>2, <2>1 DEF ArchiveTypeOK
  <2> QED
    BY <1>1, <2>1, <2>2, TreeFacts
<1>4. ArchiveTypeOK'
  BY <1>1, <1>2, <1>3 DEF ArchiveTypeOK
<1>5. \A m \in Wanted(tree) : m \in Nat /\ (m < next' => m < next)
  <2> SUFFICES ASSUME NEW m \in Wanted(tree), ~(m < next), m < next'
               PROVE  FALSE
    BY <1>1, <1>3, WantedFacts
  <2>1. m \in next .. tree.last[next]
    BY <1>1, <1>2, <1>3, WantedFacts
  <2> QED
    BY <1>2, <1>3, <2>1, SkipsWhole
<1>6. InOrder'
  <2>1. ASSUME NEW i \in DOMAIN archive
        PROVE  archive[i] < next'
    <3>1. archive[i] < next /\ archive[i] \in Wanted(tree)
      BY <1>2, <2>1 DEF ArchiveInv, InOrder
    <3> QED
      BY <1>2, <1>3, <1>5, <3>1
  <2>2. \A i \in DOMAIN archive : archive[i] \in Nat
    BY <1>5 DEF ArchiveInv, InOrder
  <2> QED
    BY <1>2, <1>3, <2>1, <2>2 DEF ArchiveInv, InOrder
<1>7. Complete'
  BY <1>2, <1>5 DEF ArchiveInv, Complete
<1>8. NotInside'
  <2> SUFFICES ASSUME NEW a \in Entries(tree), a < next', Pruned(tree, a)
               PROVE  tree.last[a] < next'
    BY <1>2 DEF NotInside
  <2>1. CASE a < next
    <3>1. tree.last[a] < next
      BY <1>2, <2>1 DEF ArchiveInv, NotInside
    <3> QED
      BY <1>2, <1>3, <3>1
  <2>2. CASE ~(a < next)
    <3>1. a \in next .. tree.last[next]
      BY <1>2, <1>3, <2>2
    <3> QED
      BY <1>2, <1>3, <3>1
  <2> QED
    BY <2>1, <2>2
<1>9. WalkEnded'
  BY <1>2 DEF WalkEnded
<1> QED
  BY <1>1, <1>2, <1>4, <1>6, <1>7, <1>8, <1>9 DEF ArchiveInv

\* The walk ends behind the last entry of the tree, a file too.
LEMMA LastEntryIs ==
  ASSUME tree \in Trees
  PROVE  LastEntry = Len(tree.kind)
BY TreeFacts DEF LastEntry

\* The entry a write is about is wanted, and a link out of the source is
\* refused.
LEMMA WritesWanted ==
  ASSUME ArchiveInv, WriteEntry
  PROVE  /\ next \in Entries(tree) /\ next \in Wanted(tree)
         /\ tree.top = "dir" => ~Pruned(tree, next)
         /\ tree.top = "dir" /\ verdict(tree, next) # "refuse" =>
              tree.kind[next] # "outsideLink"
         /\ tree.top = "dir" /\ verdict(tree, next) = "refuse" => Refused(tree)
<1>1. tree \in Trees /\ ArchiveTypeOK
  BY DEF ArchiveInv
<1>2. tree.top \in {"dir", "file"} /\ Len(tree.kind) \in Nat
      /\ Entries(tree) = 1 .. Len(tree.kind)
  BY <1>1, TreeFacts
<1>3. next \in Entries(tree)
  <2>1. next <= Len(tree.kind)
    BY <1>1, LastEntryIs DEF WriteEntry
  <2> QED
    BY <1>1, <1>2, <2>1 DEF ArchiveTypeOK
<1>4. CASE tree.top = "file"
  <2>1. next \in Wanted(tree)
    BY <1>1, <1>3, <1>4, WantedFacts
  <2> QED
    BY <1>3, <1>4, <2>1
<1>5. CASE tree.top = "dir"
  <2>1. verdict(tree, next) # "skip"
    BY <1>5 DEF WriteEntry
  <2>2. next \in Wanted(tree)
    BY <1>3, <1>5, <2>1, SkipsUnwanted
  <2>3. /\ ~Pruned(tree, next)
        /\ verdict(tree, next) # "refuse" => tree.kind[next] # "outsideLink"
        /\ verdict(tree, next) = "refuse" => tree.kind[next] = "outsideLink"
    BY <2>1, VerdictFacts
  <2> QED
    BY <1>3, <1>5, <2>2, <2>3 DEF Refused
<1> QED
  BY <1>2, <1>4, <1>5

\* An archive that grows by the entry the walk has reached stays in order.
LEMMA Grows ==
  ASSUME ArchiveInv, tarEnd = "none", next \in Wanted(tree),
         tree.top = "dir" => tree.kind[next] # "outsideLink",
         archive' = Append(archive, next), UNCHANGED tree,
         next' \in Nat,
         \/ next' = next /\ tarEnd' = "error"
         \/ next' = next + 1
  PROVE  /\ InOrder'
         /\ archive' \in Seq(Entries(tree))
         /\ \E i \in DOMAIN archive' : archive'[i] = next
         /\ \A i \in DOMAIN archive : i \in DOMAIN archive' /\ archive'[i] = archive[i]
<1>1. tree \in Trees /\ ArchiveTypeOK
  BY DEF ArchiveInv
<1>2. next \in Entries(tree) /\ archive \in Seq(Entries(tree)) /\ next \in Nat
  BY <1>1, WantedFacts, TreeFacts DEF ArchiveTypeOK
<1>3. /\ archive' \in Seq(Entries(tree))
      /\ Len(archive) \in Nat
      /\ DOMAIN archive = 1 .. Len(archive)
      /\ DOMAIN archive' = 1 .. Len(archive) + 1
      /\ \A i \in DOMAIN archive : archive'[i] = archive[i]
      /\ archive'[Len(archive) + 1] = next
  <2>1. Append(archive, next) \in Seq(Entries(tree))
    BY <1>2
  <2> QED
    BY <1>2, <2>1
<1>4. \A i \in DOMAIN archive : /\ archive[i] \in Nat
                                /\ archive[i] < next
                                /\ archive[i] \in Wanted(tree)
  <2>1. \A i \in DOMAIN archive : archive[i] < next /\ archive[i] \in Wanted(tree)
    BY DEF ArchiveInv, InOrder
  <2> QED
    BY <1>1, <2>1, WantedFacts, TreeFacts
<1>5. \A i \in DOMAIN archive' :
        /\ archive'[i] \in Wanted(tree)
        /\ tree.top = "dir" => tree.kind[archive'[i]] # "outsideLink"
        /\ archive'[i] <= next'
        /\ tarEnd' # "error" => archive'[i] < next'
  <2> SUFFICES ASSUME NEW i \in DOMAIN archive'
               PROVE  /\ archive'[i] \in Wanted(tree)
                      /\ tree.top = "dir" => tree.kind[archive'[i]] # "outsideLink"
                      /\ archive'[i] <= next'
                      /\ tarEnd' # "error" => archive'[i] < next'
    OBVIOUS
  <2>1. CASE i \in DOMAIN archive
    <3>1. archive'[i] = archive[i] /\ archive[i] < next /\ archive[i] \in Nat
      BY <1>3, <1>4, <2>1
    <3>2. /\ archive[i] \in Wanted(tree)
          /\ tree.top = "dir" => tree.kind[archive[i]] # "outsideLink"
      BY <2>1 DEF ArchiveInv, InOrder
    <3> QED
      BY <1>2, <3>1, <3>2
  <2>2. CASE i \notin DOMAIN archive
    <3>1. i = Len(archive) + 1
      BY <1>3, <2>2
    <3>2. archive'[i] = next
      BY <1>3, <3>1
    <3> QED
      BY <1>2, <3>2
  <2> QED
    BY <2>1, <2>2
<1>6. \A i, j \in DOMAIN archive' : i < j => archive'[i] < archive'[j]
  <2> SUFFICES ASSUME NEW i \in DOMAIN archive', NEW j \in DOMAIN archive', i < j
               PROVE  archive'[i] < archive'[j]
    OBVIOUS
  <2>1. i \in DOMAIN archive /\ archive'[i] = archive[i]
    BY <1>3
  <2>2. CASE j \in DOMAIN archive
    <3>1. archive[i] < archive[j]
      BY <2>1, <2>2 DEF ArchiveInv, InOrder
    <3> QED
      BY <1>3, <2>1, <2>2, <3>1
  <2>3. CASE j \notin DOMAIN archive
    <3>1. j = Len(archive) + 1
      BY <1>3, <2>3
    <3> QED
      BY <1>3, <1>4, <2>1, <3>1
  <2> QED
    BY <2>2, <2>3
<1>7. InOrder'
  <2>1. (Wanted(tree))' = Wanted(tree)
    BY DEF Wanted, Passed, Entries, Above, Below, IgnoredWhole,
           dirContainsExternalSymlink
  <2> QED
    BY <1>5, <1>6, <2>1 DEF InOrder
<1>8. \E i \in DOMAIN archive' : archive'[i] = next
  BY <1>3
<1> QED
  BY <1>3, <1>7, <1>8

\* A write that fails, one that reads an unreadable file, and one that
\* succeeds.
LEMMA WriteKeeps ==
  ASSUME ArchiveInv, WriteEntry
  PROVE  ArchiveInv'
<1>1. tree \in Trees /\ ArchiveTypeOK
  BY DEF ArchiveInv
<1>2. tarEnd = "none" /\ UNCHANGED <<tree, client>>
  BY DEF WriteEntry, Walking
<1>3. /\ next \in Entries(tree) /\ next \in Wanted(tree)
      /\ tree.top = "dir" => ~Pruned(tree, next)
      /\ tree.top = "dir" /\ verdict(tree, next) # "refuse" =>
           tree.kind[next] # "outsideLink"
      /\ tree.top = "dir" /\ verdict(tree, next) = "refuse" => Refused(tree)
  BY WritesWanted
<1>4. /\ Len(tree.kind) \in Nat /\ next \in Nat
      /\ Entries(tree) = 1 .. Len(tree.kind)
      /\ \A a \in Entries(tree) : a \in Nat /\ tree.last[a] \in Nat
  BY <1>1, <1>3, TreeFacts
<1>5. CASE /\ (tree.top = "dir" /\ verdict(tree, next) = "refuse") \/ pipe = "broken"
           /\ closeAll("error")
           /\ UNCHANGED <<next, archive>>
  <2>1. tarEnd' = "error" /\ pipe' \in {"open", "eof", "broken"}
        /\ (pipe = "broken" => pipe' = "broken")
    BY <1>1, <1>5 DEF closeAll, ArchiveTypeOK
  <2>2. ArchiveTypeOK'
    BY <1>1, <1>2, <1>5, <2>1 DEF ArchiveTypeOK
  <2>3. \A i \in DOMAIN archive : archive[i] <= next
    BY DEF ArchiveInv, InOrder
  <2>4. InOrder'
    BY <1>2, <1>5, <2>1, <2>3 DEF ArchiveInv, InOrder
  <2>5. Complete' /\ NotInside'
    BY <1>2, <1>5 DEF ArchiveInv, Complete, NotInside
  <2>6. WalkEnded'
    BY <1>2, <1>3, <1>5, <2>1 DEF WalkEnded
  <2> QED
    BY <1>1, <1>2, <2>2, <2>4, <2>5, <2>6 DEF ArchiveInv
<1>6. CASE /\ ~(tree.top = "dir" /\ verdict(tree, next) = "refuse")
           /\ archive' = Append(archive, next)
           /\ tree.kind[next] = "unread"
           /\ closeAll("error") /\ UNCHANGED next
  <2>1. tarEnd' = "error" /\ pipe' \in {"open", "eof", "broken"}
    BY <1>1, <1>6 DEF closeAll, ArchiveTypeOK
  <2>2. /\ InOrder'
        /\ archive' \in Seq(Entries(tree))
        /\ \A i \in DOMAIN archive : i \in DOMAIN archive' /\ archive'[i] = archive[i]
    BY <1>2, <1>3, <1>4, <1>6, <2>1, Grows
  <2>3. ArchiveTypeOK'
    BY <1>1, <1>2, <1>6, <2>1, <2>2 DEF ArchiveTypeOK
  <2>4. Complete'
    BY <1>2, <1>6, <2>2 DEF ArchiveInv, Complete
  <2>5. NotInside'
    BY <1>2, <1>6 DEF ArchiveInv, NotInside
  <2>6. WalkEnded'
    BY <1>2, <1>3, <1>6, <2>1 DEF WalkEnded, Refused
  <2> QED
    BY <1>1, <1>2, <2>2, <2>3, <2>4, <2>5, <2>6 DEF ArchiveInv
<1>7. CASE /\ ~(tree.top = "dir" /\ verdict(tree, next) = "refuse")
           /\ archive' = Append(archive, next)
           /\ tree.kind[next] # "unread"
           /\ next' = next + 1 /\ UNCHANGED <<tarEnd, pipe>>
  <2>1. /\ InOrder'
        /\ archive' \in Seq(Entries(tree))
        /\ \E i \in DOMAIN archive' : archive'[i] = next
        /\ \A i \in DOMAIN archive : i \in DOMAIN archive' /\ archive'[i] = archive[i]
    BY <1>2, <1>3, <1>4, <1>7, Grows
  <2>2. next' \in 1 .. Len(tree.kind) + 1
    BY <1>3, <1>4, <1>7
  <2>3. ArchiveTypeOK'
    BY <1>1, <1>2, <1>7, <2>1, <2>2 DEF ArchiveTypeOK
  <2>4. \A m \in Wanted(tree) : m \in Nat /\ (m < next' => m < next \/ m = next)
    BY <1>1, <1>4, <1>7, WantedFacts
  <2>5. Complete'
    <3> SUFFICES ASSUME NEW m \in Wanted(tree), m < next'
                 PROVE  /\ \E i \in DOMAIN archive' : archive'[i] = m
                        /\ tree.kind[m] # "unread"
                        /\ tree.top = "dir" => tree.kind[m] # "outsideLink"
      BY <1>2 DEF Complete
    <3>1. CASE m = next
      BY <1>3, <1>7, <2>1, <3>1
    <3>2. CASE m < next
      BY <2>1, <3>2 DEF ArchiveInv, Complete
    <3> QED
      BY <2>4, <3>1, <3>2
  <2>6. NotInside'
    <3> SUFFICES ASSUME tree.top = "dir", NEW a \in Entries(tree), a < next',
                        Pruned(tree, a)
                 PROVE  tree.last[a] < next'
      BY <1>2 DEF NotInside
    <3>1. a < next
      BY <1>3, <1>4, <1>7
    <3>2. tree.last[a] < next
      BY <3>1 DEF ArchiveInv, NotInside
    <3> QED
      BY <1>4, <1>7, <3>2
  <2>7. WalkEnded'
    BY <1>2, <1>7 DEF WalkEnded
  <2> QED
    BY <1>1, <1>2, <2>1, <2>3, <2>5, <2>6, <2>7 DEF ArchiveInv
<1> QED
  BY <1>5, <1>6, <1>7 DEF WriteEntry

\* The walk ends behind the last entry, or finds the pipe broken.
LEMMA WalkEndKeeps ==
  ASSUME ArchiveInv, WalkEnds
  PROVE  ArchiveInv'
<1>1. tree \in Trees /\ ArchiveTypeOK
  BY DEF ArchiveInv
<1>2. /\ tarEnd = "none" /\ next > LastEntry
      /\ tarEnd' = IF pipe = "broken" THEN "error" ELSE "ok"
      /\ pipe' \in {"eof", "broken"} \cup {pipe}
      /\ pipe = "broken" => pipe' = "broken"
      /\ UNCHANGED <<tree, next, archive, client>>
  BY DEF WalkEnds, Walking, closeAll
<1>3. ArchiveTypeOK'
  BY <1>1, <1>2 DEF ArchiveTypeOK
<1>4. \A i \in DOMAIN archive : archive[i] < next /\ archive[i] <= next
  BY <1>2 DEF ArchiveInv, InOrder
<1>5. InOrder'
  BY <1>2, <1>4 DEF ArchiveInv, InOrder
<1>6. Complete' /\ NotInside'
  BY <1>2 DEF ArchiveInv, Complete, NotInside
<1>7. LastEntry' = LastEntry
  BY <1>2 DEF LastEntry
<1>8. WalkEnded'
  BY <1>2, <1>7 DEF WalkEnded
<1> QED
  BY <1>1, <1>2, <1>3, <1>5, <1>6, <1>8 DEF ArchiveInv

\* What the client does changes the pipe, but does not mend it.
LEMMA ClientKeeps ==
  ASSUME ArchiveInv, UNCHANGED <<tree, next, archive, tarEnd>>,
         client' \in {"idle", "reading", "ok", "error"},
         pipe' \in {pipe, "broken"}
  PROVE  ArchiveInv'
<1>1. tree \in Trees /\ ArchiveTypeOK
  BY DEF ArchiveInv
<1>2. ArchiveTypeOK'
  BY <1>1 DEF ArchiveTypeOK
<1>3. InOrder' /\ Complete' /\ NotInside'
  BY DEF ArchiveInv, InOrder, Complete, NotInside
<1>4. LastEntry' = LastEntry
  BY DEF LastEntry
<1>5. (Refused(tree))' = Refused(tree)
  BY DEF Refused, Wanted, Passed, Entries, Above, Below, IgnoredWhole,
         dirContainsExternalSymlink
<1>6. WalkEnded'
  BY <1>4, <1>5 DEF ArchiveInv, WalkEnded
<1> QED
  BY <1>1, <1>2, <1>3, <1>6 DEF ArchiveInv

\* The invariant gives the faithfulness of the archive.
LEMMA InOrderFaithful ==
  ASSUME ArchiveInv
  PROVE  ArchiveFaithful
<1>1. tree \in Trees /\ ArchiveTypeOK
  BY DEF ArchiveInv
<1>2. \A m \in Wanted(tree) : m \in Nat
  BY <1>1, WantedFacts, TreeFacts
<1>3. DOMAIN archive = 1 .. Len(archive) /\ Len(archive) \in Nat /\ next \in Nat
  BY <1>1, TreeFacts DEF ArchiveTypeOK
<1>4. ASSUME NEW i \in DOMAIN archive
      PROVE  /\ archive[i] \in Wanted(tree)
             /\ tree.top = "dir" => tree.kind[archive[i]] # "outsideLink"
  BY <1>4 DEF ArchiveInv, InOrder
<1>5. ASSUME NEW i \in DOMAIN archive, NEW m \in Wanted(tree), m < archive[i]
      PROVE  \E j \in 1 .. i - 1 : archive[j] = m
  <2>1. archive[i] <= next /\ archive[i] \in Nat
    BY <1>2, <1>4 DEF ArchiveInv, InOrder
  <2>2. m < next
    BY <1>2, <1>3, <1>5, <2>1
  <2>3. PICK j \in DOMAIN archive : archive[j] = m
    BY <2>2 DEF ArchiveInv, Complete
  <2>4. j # i /\ (i < j => archive[i] < archive[j])
    BY <1>2, <1>5, <2>1, <2>3 DEF ArchiveInv, InOrder
  <2>5. j \in 1 .. i - 1
    BY <1>2, <1>3, <1>5, <2>1, <2>3, <2>4
  <2> QED
    BY <2>3, <2>5
<1>6. tarEnd = "error" => Refused(tree) \/ pipe = "broken"
  BY DEF ArchiveInv, WalkEnded
<1> QED
  BY <1>4, <1>5, <1>6 DEF ArchiveFaithful

\* An archive that ended well holds what is wanted, and nothing was refused.
LEMMA EndedWellWhole ==
  ASSUME ArchiveInv, tarEnd = "ok"
  PROVE  ToSet(archive) = Wanted(tree) /\ ~Refused(tree)
<1>1. tree \in Trees /\ ArchiveTypeOK
  BY DEF ArchiveInv
<1>2. next > Len(tree.kind) /\ next \in Nat /\ Len(tree.kind) \in Nat
      /\ Entries(tree) = 1 .. Len(tree.kind)
  BY <1>1, LastEntryIs, TreeFacts DEF ArchiveInv, WalkEnded, ArchiveTypeOK
<1>3. ASSUME NEW m \in Wanted(tree)
      PROVE  /\ \E i \in DOMAIN archive : archive[i] = m
             /\ tree.kind[m] # "unread"
             /\ tree.top = "dir" => tree.kind[m] # "outsideLink"
  <2>1. m < next
    BY <1>1, <1>2, <1>3, WantedFacts
  <2> QED
    BY <2>1 DEF ArchiveInv, Complete
<1>4. \A i \in DOMAIN archive : archive[i] \in Wanted(tree)
  BY DEF ArchiveInv, InOrder
<1> QED
  BY <1>3, <1>4 DEF ToSet, Refused

-----------------------------------------------------------------------------
(***************************************************************************)
(* Specs: conversion, merge, expansion                                     *)
(***************************************************************************)
\* The fields of a spec.
LEMMA FieldNames ==
  DOMAIN EmptySpec = {"image", "limit", "gpus", "idleTtl", "command", "mounts",
                      "copies", "ports", "companions", "tools", "labels", "envs"}
BY DEF EmptySpec

\* A list typed by a set is typed by a larger one.
LEMMA SeqWider ==
  ASSUME NEW S, NEW T, NEW s \in Seq(S), S \subseteq T
  PROVE  s \in Seq(T)
OBVIOUS

\* What the concatenation of two lists holds.
LEMMA ConcatFacts ==
  ASSUME NEW S, NEW s \in Seq(S), NEW t \in Seq(S)
  PROVE  /\ s \o t \in Seq(S)
         /\ DOMAIN (s \o t) = 1 .. Len(s) + Len(t)
         /\ Len(s) \in Nat /\ DOMAIN s = 1 .. Len(s)
         /\ Len(t) \in Nat /\ DOMAIN t = 1 .. Len(t)
         /\ \A i \in DOMAIN s : i \in DOMAIN (s \o t) /\ (s \o t)[i] = s[i]
         /\ \A i \in DOMAIN t : /\ Len(s) + i \in DOMAIN (s \o t)
                                /\ (s \o t)[Len(s) + i] = t[i]
         /\ s \o <<>> = s
<1>1. /\ s \o t \in Seq(S) /\ Len(s \o t) = Len(s) + Len(t)
      /\ Len(s) \in Nat /\ Len(t) \in Nat
      /\ DOMAIN s = 1 .. Len(s) /\ DOMAIN t = 1 .. Len(t)
  OBVIOUS
<1>2. DOMAIN (s \o t) = 1 .. Len(s) + Len(t)
  BY <1>1
<1>3. \A i \in DOMAIN s : i \in DOMAIN (s \o t) /\ (s \o t)[i] = s[i]
  BY <1>1, <1>2
<1>4. \A i \in DOMAIN t : /\ Len(s) + i \in DOMAIN (s \o t)
                          /\ (s \o t)[Len(s) + i] = t[i]
  BY <1>1, <1>2
<1>5. s \o <<>> = s
  OBVIOUS
<1> QED
  BY <1>1, <1>2, <1>3, <1>4, <1>5

\* What a concatenation takes from its parts.
LEMMA ConcatFirst ==
  ASSUME NEW S, NEW s \in Seq(S), NEW t \in Seq(S), NEW i \in DOMAIN s
  PROVE  i \in DOMAIN (s \o t) /\ (s \o t)[i] = s[i]
BY ConcatFacts

\* The second part of a concatenation follows the first.
LEMMA ConcatSecond ==
  ASSUME NEW S, NEW s \in Seq(S), NEW t \in Seq(S), NEW i \in DOMAIN t
  PROVE  Len(s) + i \in DOMAIN (s \o t) /\ (s \o t)[Len(s) + i] = t[i]
BY ConcatFacts

\* Two sequences of one element make a pair.
LEMMA PairConcat ==
  ASSUME NEW a, NEW b
  PROVE  <<a>> \o <<b>> = <<a, b>>
<1> DEFINE S == {a, b}
<1>1. <<a>> \in Seq(S) /\ <<b>> \in Seq(S) /\ <<a, b>> \in Seq(S)
  OBVIOUS
<1>2. /\ <<a>> \o <<b>> \in Seq(S)
      /\ Len(<<a>> \o <<b>>) = 2
      /\ (<<a>> \o <<b>>)[1] = a /\ (<<a>> \o <<b>>)[2] = b
  BY <1>1
<1>3. \A i \in 1 .. 2 : (<<a>> \o <<b>>)[i] = <<a, b>>[i]
  BY <1>2
<1>4. Len(<<a, b>>) = 2
  OBVIOUS
<1> HIDE DEF S
<1> QED
  BY <1>1, <1>2, <1>3, <1>4, SeqEqual

\* The empty spec is one.
LEMMA EmptyTyped == IsSpec(EmptySpec)
BY DEF IsSpec, ListsTyped, EmptySpec

\* Fields of a converted YAML.
LEMMA Converted ==
  ASSUME NEW cfg
  PROVE  /\ DOMAIN yamlConfigToCreateSpec(cfg) = DOMAIN EmptySpec
         /\ \A f \in DOMAIN EmptySpec \ {"command"} :
              yamlConfigToCreateSpec(cfg)[f] = cfg[f]
BY DEF yamlConfigToCreateSpec

\* yamlConfigToCreateSpec makes a spec of a YAML.
LEMMA ConvertedTyped ==
  ASSUME NEW cfg, IsYAML(cfg)
  PROVE  IsSpec(yamlConfigToCreateSpec(cfg))
<1> DEFINE y == yamlConfigToCreateSpec(cfg)
<1>1. /\ DOMAIN y = DOMAIN EmptySpec
      /\ y.mounts = cfg.mounts /\ y.copies = cfg.copies
      /\ y.ports = cfg.ports /\ y.companions = cfg.companions
  BY Converted, FieldNames
<1> HIDE DEF y
<1>2. IsSpec(y)
  BY <1>1 DEF IsSpec, IsYAML, ListsTyped
<1> QED
  BY <1>2 DEF y

\* Fields of a merged spec.
LEMMA MergedScalar ==
  ASSUME NEW base, NEW over, NEW f \in Scalars
  PROVE  mergeCreateSpecs(base, over)[f] = IF over[f] # "" THEN over[f] ELSE base[f]
BY FieldNames DEF mergeCreateSpecs, Scalars, Replaced, Appended

\* mergeCreateSpecs appends the override's lists to the base's.
LEMMA MergedAppended ==
  ASSUME NEW base, NEW over, NEW f \in Appended
  PROVE  mergeCreateSpecs(base, over)[f] = base[f] \o over[f]
BY FieldNames DEF mergeCreateSpecs, Scalars, Replaced, Appended

\* The override's command replaces the base's, unless it is empty.
LEMMA MergedCommand ==
  ASSUME NEW base, NEW over
  PROVE  mergeCreateSpecs(base, over).command =
           IF over.command # <<>> THEN over.command ELSE base.command
BY FieldNames DEF mergeCreateSpecs, Scalars, Replaced, Appended

\* The override's variables and labels cover the base's.
LEMMA MergedMaps ==
  ASSUME NEW base, NEW over
  PROVE  /\ mergeCreateSpecs(base, over).envs = Over(over.envs, base.envs)
         /\ mergeCreateSpecs(base, over).labels = Over(over.labels, base.labels)
BY FieldNames DEF mergeCreateSpecs, Scalars, Replaced, Appended

\* mergeCreateSpecs makes a spec of two specs.
LEMMA MergedTyped ==
  ASSUME NEW base, NEW over, IsSpec(base), IsSpec(over)
  PROVE  IsSpec(mergeCreateSpecs(base, over))
<1> DEFINE m == mergeCreateSpecs(base, over)
<1>0. /\ DOMAIN m = DOMAIN EmptySpec
      /\ \A f \in Appended : m[f] = base[f] \o over[f]
  BY MergedAppended DEF mergeCreateSpecs
<1> HIDE DEF m
<1>1. /\ m.mounts = base.mounts \o over.mounts
      /\ m.copies = base.copies \o over.copies
      /\ m.ports = base.ports \o over.ports
      /\ m.companions = base.companions \o over.companions
  BY <1>0 DEF Appended
<1>2. ListsTyped(m)
  <2>1. m.mounts \in Seq([source : Path, target : Path, writable : BOOLEAN])
    BY <1>1, ConcatFacts DEF IsSpec, ListsTyped
  <2>2. m.copies \in Seq([source : Path, target : Path])
    BY <1>1, ConcatFacts DEF IsSpec, ListsTyped
  <2>3. m.ports \in Seq([container : Nat, host : Nat, proto : STRING])
    BY <1>1, ConcatFacts DEF IsSpec, ListsTyped
  <2>4. m.companions \in Seq([name : STRING, image : STRING, limit : STRING,
                               hooks : BOOLEAN, health : Seq(Healthcheck)])
    BY <1>1, ConcatFacts DEF IsSpec, ListsTyped
  <2> QED
    BY <2>1, <2>2, <2>3, <2>4 DEF ListsTyped
<1>3. IsSpec(m)
  BY <1>0, <1>2 DEF IsSpec
<1> QED
  BY <1>3 DEF m

\* The two halves of a request, and the spec the daemon makes of them.
LEMMA HalvesCases ==
  ASSUME NEW req, IsRequest(req), EffectiveSpec(req) # <<>>
  PROVE  \/ \E s : /\ IsSpec(s)
                   /\ Halves(req) = <<s>>
                   /\ EffectiveSpec(req) = <<s>>
         \/ \E y : /\ IsSpec(y)
                   /\ Halves(req) = <<y>>
                   /\ EffectiveSpec(req) = <<mergeCreateSpecs(y, EmptySpec)>>
         \/ \E y, s : /\ IsSpec(y) /\ IsSpec(s)
                      /\ Halves(req) = <<y, s>>
                      /\ EffectiveSpec(req) = <<mergeCreateSpecs(y, s)>>
<1>1. CASE req.yaml = <<>>
  <2>1. req.spec # <<>> /\ EffectiveSpec(req) = req.spec
    BY <1>1 DEF EffectiveSpec
  <2>2. req.spec = <<req.spec[1]>> /\ IsSpec(req.spec[1])
    BY <2>1 DEF IsRequest
  <2>3. Halves(req) = <<req.spec[1]>>
    BY <1>1, <2>2 DEF Halves
  <2> QED
    BY <2>1, <2>2, <2>3
<1>2. CASE req.yaml # <<>>
  <2> DEFINE y == yamlConfigToCreateSpec(req.yaml[1])
  <2>1. IsSpec(y)
    BY <1>2, ConvertedTyped DEF IsRequest
  <2>2. /\ Halves(req) = <<y>> \o req.spec
        /\ EffectiveSpec(req) =
             <<mergeCreateSpecs(y, IF req.spec = <<>> THEN EmptySpec
                                                     ELSE req.spec[1])>>
    BY <1>2 DEF Halves, EffectiveSpec
  <2> HIDE DEF y
  <2>3. CASE req.spec = <<>>
    <3>1. Halves(req) = <<y>>
      BY <2>2, <2>3
    <3>2. EffectiveSpec(req) = <<mergeCreateSpecs(y, EmptySpec)>>
      BY <2>2, <2>3
    <3> QED
      BY <2>1, <3>1, <3>2
  <2>4. CASE req.spec # <<>>
    <3>1. req.spec = <<req.spec[1]>> /\ IsSpec(req.spec[1])
      BY <2>4 DEF IsRequest
    <3> DEFINE s == req.spec[1]
    <3>2. Halves(req) = <<y>> \o <<s>>
      BY <2>2, <3>1
    <3>3. EffectiveSpec(req) = <<mergeCreateSpecs(y, s)>>
      BY <2>2, <2>4
    <3>4. IsSpec(s)
      BY <3>1
    <3> HIDE DEF s
    <3>5. Halves(req) = <<y, s>>
      BY <3>2, PairConcat
    <3> QED
      BY <2>1, <3>3, <3>4, <3>5
  <2> QED
    BY <2>3, <2>4
<1> QED
  BY <1>1, <1>2

\* What a request that the daemon can read asks for is a spec.
LEMMA EffectiveTyped ==
  ASSUME NEW req, IsRequest(req), EffectiveSpec(req) # <<>>
  PROVE  IsSpec(EffectiveSpec(req)[1])
<1>1. CASE \E s : IsSpec(s) /\ EffectiveSpec(req) = <<s>>
  BY <1>1
<1>2. CASE \E y : IsSpec(y) /\ EffectiveSpec(req) = <<mergeCreateSpecs(y, EmptySpec)>>
  BY <1>2, EmptyTyped, MergedTyped
<1>3. CASE \E y, s : /\ IsSpec(y) /\ IsSpec(s)
                     /\ EffectiveSpec(req) = <<mergeCreateSpecs(y, s)>>
  BY <1>3, MergedTyped
<1> QED
  BY <1>1, <1>2, <1>3, HalvesCases

\* Paths are expanded item by item, and nothing else of a spec changes.
LEMMA Expanded ==
  ASSUME NEW spec, IsSpec(spec)
  PROVE  LET x == expandPaths(spec) IN
         /\ DOMAIN x = DOMAIN EmptySpec
         /\ \A f \in DOMAIN EmptySpec \ {"mounts", "copies"} : x[f] = spec[f]
         /\ x.mounts = ExpandedAll(spec.mounts)
         /\ x.copies = ExpandedAll(spec.copies)
         /\ cloneCreateSpec(x) = x
BY FieldNames DEF expandPaths, IsSpec, cloneCreateSpec

\* expandPaths keeps the items of a list and rewrites only their two paths.
LEMMA ExpandedItems ==
  ASSUME NEW T, NEW items \in Seq(T),
         \A item \in T : item = [f \in DOMAIN item |-> item[f]]
                         /\ {"source", "target"} \subseteq DOMAIN item
  PROVE  /\ DOMAIN ExpandedAll(items) = DOMAIN items
         /\ \A i \in DOMAIN items :
              /\ ExpandedAll(items)[i].source = expandHomePath(items[i].source)
              /\ ExpandedAll(items)[i].target = expandContainerHomePath(items[i].target)
              /\ \A f \in DOMAIN items[i] \ {"source", "target"} :
                   ExpandedAll(items)[i][f] = items[i][f]
<1>1. DOMAIN ExpandedAll(items) = DOMAIN items
  BY DEF ExpandedAll
<1>2. ASSUME NEW i \in DOMAIN items
      PROVE  /\ ExpandedAll(items)[i].source = expandHomePath(items[i].source)
             /\ ExpandedAll(items)[i].target = expandContainerHomePath(items[i].target)
             /\ \A f \in DOMAIN items[i] \ {"source", "target"} :
                  ExpandedAll(items)[i][f] = items[i][f]
  <2> DEFINE item == items[i]
  <2>1. item \in T
    OBVIOUS
  <2>2. ExpandedAll(items)[i] =
          [item EXCEPT !.source = expandHomePath(@),
                       !.target = expandContainerHomePath(@)]
    BY <1>2 DEF ExpandedAll
  <2> HIDE DEF item
  <2>3. {"source", "target"} \subseteq DOMAIN item
    BY <2>1
  <2>4. /\ ExpandedAll(items)[i].source = expandHomePath(item.source)
        /\ ExpandedAll(items)[i].target = expandContainerHomePath(item.target)
        /\ \A f \in DOMAIN item \ {"source", "target"} :
             ExpandedAll(items)[i][f] = item[f]
    BY <2>2, <2>3
  <2> QED
    BY <2>4 DEF item
<1> QED
  BY <1>1, <1>2

-----------------------------------------------------------------------------
(***************************************************************************)
(* Builtin tools                                                           *)
(***************************************************************************)
\* The end of each builtin target tells it from the others.
LEMMA TargetEnds ==
  /\ capabilityMounts[".claude"].target[2] = ".claude"
  /\ capabilityMounts[".claude.json"].target[2] = ".claude.json"
  /\ capabilityMounts[".codex"].target[2] = ".codex"
  /\ capabilityMounts[".agents"].target[2] = ".agents"
  /\ capabilityMounts["gh-auth"].target[2] = ".config/gh"
  /\ capabilityMounts["ssh-agent"].target[2] = "ssh-agent"
  /\ capabilityMounts["ssh-known-hosts"].target[2] = ".ssh/known_hosts"
  /\ capabilityMounts["uv-cache"].target[2] = ".cache/uv"
  /\ capabilityMounts["uv-python"].target[2] = ".local/share/uv/python"
  /\ capabilityMounts["npm"].target[2] = ".npm"
  /\ capabilityMounts["apt"].target[2] = "var/cache/apt/archives"
  /\ capabilityMounts["pulse-audio"].target[2] = "pulse-audio"
  /\ capabilityMounts["opencode-config"].target[2] = ".config/opencode"
  /\ capabilityMounts["opencode-data"].target[2] = ".local/share/opencode"
<1>1. /\ capabilityMounts[".claude"].target[2] = ".claude"
      /\ capabilityMounts[".claude.json"].target[2] = ".claude.json"
      /\ capabilityMounts[".codex"].target[2] = ".codex"
      /\ capabilityMounts[".agents"].target[2] = ".agents"
  BY DEF capabilityMounts, CapabilityIDs, Declared
<1>2. /\ capabilityMounts["gh-auth"].target[2] = ".config/gh"
      /\ capabilityMounts["ssh-known-hosts"].target[2] = ".ssh/known_hosts"
      /\ capabilityMounts["uv-cache"].target[2] = ".cache/uv"
      /\ capabilityMounts["npm"].target[2] = ".npm"
  BY DEF capabilityMounts, CapabilityIDs, Declared
<1>3. /\ capabilityMounts["opencode-config"].target[2] = ".config/opencode"
      /\ capabilityMounts["opencode-data"].target[2] = ".local/share/opencode"
  BY DEF capabilityMounts, CapabilityIDs, Declared
<1>4. capabilityMounts["ssh-agent"].target[2] = "ssh-agent"
  BY DEF capabilityMounts, CapabilityIDs, Declared, sshAgentTarget
<1>5. capabilityMounts["pulse-audio"].target[2] = "pulse-audio"
  BY DEF capabilityMounts, CapabilityIDs, Declared, pulseAudioTarget
<1>6. capabilityMounts["apt"].target[2] = "var/cache/apt/archives"
  BY DEF capabilityMounts, CapabilityIDs, Declared
<1>7. capabilityMounts["uv-python"].target[2] = ".local/share/uv/python"
  <2> DEFINE d == Declared(".local/share/uv/python", "read_write", TRUE)
  <2>1. capabilityMounts["uv-python"] =
          [d EXCEPT !.target[1] = HostHome, !.env = "UV_PYTHON_INSTALL_DIR"]
    BY DEF capabilityMounts, CapabilityIDs
  <2>2. /\ DOMAIN d = {"source", "target", "mode", "optional", "env"}
        /\ d.target = <<ContainerUserHome, ".local/share/uv/python">>
    BY DEF Declared
  <2> HIDE DEF d
  <2>3. capabilityMounts["uv-python"].target = [d.target EXCEPT ![1] = HostHome]
    BY <2>1, <2>2
  <2> QED
    BY <2>2, <2>3
<1> QED
  BY <1>1, <1>2, <1>3, <1>4, <1>5, <1>6, <1>7

\* No two builtin mounts have the same target, nor that of the exec log.
LEMMA ToolTargetsDistinct ==
  /\ \A a, b \in CapabilityIDs : ToolTarget(a) = ToolTarget(b) => a = b
  /\ \A a \in CapabilityIDs : ToolTarget(a) # execLogContainerDir
<1> DEFINE end(id) == capabilityMounts[id].target[2]
<1>1. /\ end(".claude") = ".claude" /\ end(".claude.json") = ".claude.json"
      /\ end(".codex") = ".codex" /\ end(".agents") = ".agents"
      /\ end("gh-auth") = ".config/gh" /\ end("ssh-agent") = "ssh-agent"
      /\ end("ssh-known-hosts") = ".ssh/known_hosts"
      /\ end("uv-cache") = ".cache/uv"
      /\ end("uv-python") = ".local/share/uv/python"
      /\ end("npm") = ".npm" /\ end("apt") = "var/cache/apt/archives"
      /\ end("pulse-audio") = "pulse-audio"
      /\ end("opencode-config") = ".config/opencode"
      /\ end("opencode-data") = ".local/share/opencode"
  BY TargetEnds
<1>2. \A a, b \in CapabilityIDs : ToolTarget(a) = ToolTarget(b) => end(a) = end(b)
  BY DEF ToolTarget
<1>3. \A a \in CapabilityIDs :
        ToolTarget(a) = execLogContainerDir => end(a) = "var/log/agents-sandbox/"
  BY DEF ToolTarget, execLogContainerDir
<1> HIDE DEF end
<1>4. \A a, b \in CapabilityIDs : end(a) = end(b) => a = b
  BY <1>1 DEF CapabilityIDs
<1>5. \A a \in CapabilityIDs : end(a) # "var/log/agents-sandbox/"
  BY <1>1 DEF CapabilityIDs
<1> QED
  BY <1>2, <1>3, <1>4, <1>5

\* What the builtin tools set in the environment.
LEMMA ToolEnvNames ==
  ASSUME NEW id \in CapabilityIDs
  PROVE  capabilityMounts[id].env \in {"", "UV_PYTHON_INSTALL_DIR"}
<1>1. CASE id = "uv-python"
  BY <1>1 DEF capabilityMounts, CapabilityIDs, Declared
<1>2. CASE id \in {"ssh-agent", "pulse-audio", "apt"}
  BY <1>2 DEF capabilityMounts, CapabilityIDs, Declared
<1>3. CASE id \in CapabilityIDs \ {"uv-python", "ssh-agent", "pulse-audio", "apt"}
  BY <1>3 DEF capabilityMounts, CapabilityIDs, Declared
<1> QED
  BY <1>1, <1>2, <1>3

\* The mounts of known tools are builtin ones.
LEMMA MountIDsBuiltin ==
  ASSUME NEW tools, ToSet(tools) \subseteq Tools
  PROVE  mountIDs(tools) \subseteq CapabilityIDs
<1>1. \A tool \in Tools :
        ToSet(builtInToolingCapabilities[tool]) \subseteq CapabilityIDs
  BY DEF Tools, builtInToolingCapabilities, CapabilityIDs, ToSet
<1> QED
  BY <1>1 DEF mountIDs

-----------------------------------------------------------------------------
(***************************************************************************)
(* Validation                                                              *)
(***************************************************************************)
\* The expansion of a list is a list of the same length.
LEMMA ExpandedSeq ==
  ASSUME NEW T, NEW items \in Seq(T)
  PROVE  /\ ExpandedAll(items) \in Seq(ToSet(ExpandedAll(items)))
         /\ Len(ExpandedAll(items)) = Len(items)
<1> DEFINE x == ExpandedAll(items)
<1>1. Len(items) \in Nat /\ DOMAIN items = 1 .. Len(items)
  OBVIOUS
<1>2. x = [i \in 1 .. Len(items) |-> x[i]]
  BY <1>1 DEF ExpandedAll
<1> HIDE DEF x
<1>3. \A i \in 1 .. Len(items) : x[i] \in ToSet(x)
  BY <1>2 DEF ToSet
<1>4. x \in Seq(ToSet(x))
  BY <1>1, <1>2, <1>3
<1>5. Len(x) = Len(items)
  BY <1>1, <1>2, <1>4
<1> QED
  BY <1>4, <1>5 DEF x

\* The items of a spec as the Docker runtime sees them.
LEMMA MountsExpanded ==
  ASSUME NEW spec, IsSpec(spec)
  PROVE  LET x == expandPaths(spec) IN
         /\ Len(spec.mounts) \in Nat /\ DOMAIN x.mounts = 1 .. Len(spec.mounts)
         /\ x.mounts \in Seq(ToSet(x.mounts))
         /\ DOMAIN spec.mounts = 1 .. Len(spec.mounts)
         /\ \A i \in DOMAIN spec.mounts :
              /\ x.mounts[i].source = expandHomePath(spec.mounts[i].source)
              /\ x.mounts[i].target = expandContainerHomePath(spec.mounts[i].target)
              /\ x.mounts[i].writable = spec.mounts[i].writable
<1> DEFINE items == spec.mounts
           T == [source : Path, target : Path, writable : BOOLEAN]
<1>1. items \in Seq(T)
  BY DEF IsSpec, ListsTyped
<1>2. \A item \in T : /\ item = [f \in DOMAIN item |-> item[f]]
                      /\ DOMAIN item = {"source", "target", "writable"}
  OBVIOUS
<1>3. expandPaths(spec).mounts = ExpandedAll(items)
  BY Expanded
<1> HIDE DEF items, T
<1>4. /\ Len(items) \in Nat /\ DOMAIN items = 1 .. Len(items)
      /\ \A i \in DOMAIN items : DOMAIN items[i] = {"source", "target", "writable"}
  BY <1>1, <1>2
<1>5. /\ DOMAIN ExpandedAll(items) = DOMAIN items
      /\ \A i \in DOMAIN items :
           /\ ExpandedAll(items)[i].source = expandHomePath(items[i].source)
           /\ ExpandedAll(items)[i].target = expandContainerHomePath(items[i].target)
           /\ \A f \in DOMAIN items[i] \ {"source", "target"} :
                ExpandedAll(items)[i][f] = items[i][f]
  BY <1>1, <1>2, ExpandedItems
<1>6. \A i \in DOMAIN items : ExpandedAll(items)[i].writable = items[i].writable
  BY <1>4, <1>5
<1>8. ExpandedAll(items) \in Seq(ToSet(ExpandedAll(items)))
  BY <1>1, ExpandedSeq
<1>7. /\ Len(items) \in Nat
      /\ DOMAIN expandPaths(spec).mounts = 1 .. Len(items)
      /\ expandPaths(spec).mounts \in Seq(ToSet(expandPaths(spec).mounts))
      /\ DOMAIN items = 1 .. Len(items)
      /\ \A i \in DOMAIN items :
           /\ expandPaths(spec).mounts[i].source = expandHomePath(items[i].source)
           /\ expandPaths(spec).mounts[i].target =
                expandContainerHomePath(items[i].target)
           /\ expandPaths(spec).mounts[i].writable = items[i].writable
  BY <1>3, <1>4, <1>5, <1>6, <1>8
<1> QED
  BY <1>7 DEF items

\* expandPaths keeps the number and the order of the copies.
LEMMA CopiesExpanded ==
  ASSUME NEW spec, IsSpec(spec)
  PROVE  LET x == expandPaths(spec) IN
         /\ Len(spec.copies) \in Nat /\ DOMAIN x.copies = 1 .. Len(spec.copies)
         /\ DOMAIN spec.copies = 1 .. Len(spec.copies)
         /\ x.copies \in Seq(ToSet(x.copies)) /\ Len(x.copies) = Len(spec.copies)
         /\ \A i \in DOMAIN spec.copies :
              /\ x.copies[i].source = expandHomePath(spec.copies[i].source)
              /\ x.copies[i].target = expandContainerHomePath(spec.copies[i].target)
<1> DEFINE items == spec.copies
           T == [source : Path, target : Path]
<1>1. items \in Seq(T)
  BY DEF IsSpec, ListsTyped
<1>2. \A item \in T : /\ item = [f \in DOMAIN item |-> item[f]]
                      /\ DOMAIN item = {"source", "target"}
  OBVIOUS
<1>3. expandPaths(spec).copies = ExpandedAll(items)
  BY Expanded
<1> HIDE DEF items, T
<1>4. Len(items) \in Nat /\ DOMAIN items = 1 .. Len(items)
  BY <1>1
<1>5. /\ DOMAIN ExpandedAll(items) = DOMAIN items
      /\ \A i \in DOMAIN items :
           /\ ExpandedAll(items)[i].source = expandHomePath(items[i].source)
           /\ ExpandedAll(items)[i].target = expandContainerHomePath(items[i].target)
  BY <1>1, <1>2, ExpandedItems
<1>6. Len(ExpandedAll(items)) = Len(items)
  BY <1>1, ExpandedSeq
<1>8. ExpandedAll(items) \in Seq(ToSet(ExpandedAll(items)))
  BY <1>1, ExpandedSeq
<1>7. /\ Len(items) \in Nat
      /\ DOMAIN expandPaths(spec).copies = 1 .. Len(items)
      /\ DOMAIN items = 1 .. Len(items)
      /\ expandPaths(spec).copies \in Seq(ToSet(expandPaths(spec).copies))
      /\ Len(expandPaths(spec).copies) = Len(items)
      /\ \A i \in DOMAIN items :
           /\ expandPaths(spec).copies[i].source = expandHomePath(items[i].source)
           /\ expandPaths(spec).copies[i].target =
                expandContainerHomePath(items[i].target)
  BY <1>3, <1>4, <1>5, <1>6, <1>8
<1> QED
  BY <1>7 DEF items

\* Both kinds of home directory make a path absolute.
LEMMA HomeExpanded ==
  ASSUME NEW p \in Path, IsAbs(p) \/ p[1] = "~"
  PROVE  IsAbs(expandHomePath(p))
<1>1. CASE p[1] = "~"
  BY <1>1 DEF IsAbs, expandHomePath
<1>2. CASE p[1] # "~"
  BY <1>2 DEF IsAbs, expandHomePath
<1> QED
  BY <1>1, <1>2

\* What the validation looked at holds of the paths the runtime is given.
LEMMA ValidatedPaths ==
  ASSUME NEW h, NEW spec, IsSpec(spec), validateCreateSpec(h, spec)
  PROVE  LET x == expandPaths(spec) IN
         /\ \A item \in ToSet(x.mounts) \cup ToSet(x.copies) :
              /\ IsAbs(item.source) /\ IsAbs(item.target)
              /\ Lstat(h, item.source) \in sourceKinds
         /\ IsInjective(Targets(x.mounts))
<1> DEFINE items == spec.mounts \o spec.copies
           M == [source : Path, target : Path, writable : BOOLEAN]
           C == [source : Path, target : Path]
           Good(item) == /\ IsAbs(expandHomePath(item.source))
                         /\ IsAbs(expandContainerHomePath(item.target))
                         /\ Lstat(h, expandHomePath(item.source)) \in sourceKinds
<1>1. /\ \A i \in DOMAIN items : validateGenericSourcePath(h, items[i])
      /\ \A i \in DOMAIN items : IsAbs(expandContainerHomePath(items[i].target))
      /\ IsInjective(Targets(expandPaths(spec).mounts \o expandPaths(spec).copies))
  BY DEF validateCreateSpec
<1>2. spec.mounts \in Seq(M) /\ spec.copies \in Seq(C)
  BY DEF IsSpec, ListsTyped
<1>3. \A item \in M \cup C : item.source \in Path
  OBVIOUS
<1> HIDE DEF M, C
<1>4. spec.mounts \in Seq(M \cup C) /\ spec.copies \in Seq(M \cup C)
  BY <1>2, SeqWider
<1>5. /\ \A i \in DOMAIN spec.mounts :
           i \in DOMAIN items /\ items[i] = spec.mounts[i] /\ items[i] \in M \cup C
      /\ \A i \in DOMAIN spec.copies :
           /\ Len(spec.mounts) + i \in DOMAIN items
           /\ items[Len(spec.mounts) + i] = spec.copies[i]
           /\ spec.copies[i] \in M \cup C
  <2>1. /\ \A i \in DOMAIN spec.mounts : spec.mounts[i] \in M \cup C
        /\ \A i \in DOMAIN spec.copies : spec.copies[i] \in M \cup C
    BY <1>4
  <2>2. /\ \A i \in DOMAIN spec.mounts : i \in DOMAIN items /\ items[i] = spec.mounts[i]
        /\ \A i \in DOMAIN spec.copies :
             /\ Len(spec.mounts) + i \in DOMAIN items
             /\ items[Len(spec.mounts) + i] = spec.copies[i]
    <3> HIDE DEF items
    <3>1. ASSUME NEW s \in Seq(M \cup C), NEW t \in Seq(M \cup C)
          PROVE  /\ \A i \in DOMAIN s : i \in DOMAIN (s \o t) /\ (s \o t)[i] = s[i]
                 /\ \A i \in DOMAIN t : /\ Len(s) + i \in DOMAIN (s \o t)
                                        /\ (s \o t)[Len(s) + i] = t[i]
      BY <3>1, ConcatFacts
    <3> QED
      BY <1>4, <3>1 DEF items
  <2> HIDE DEF items
  <2> QED
    BY <2>1, <2>2
<1> HIDE DEF items
<1>6. ASSUME NEW i \in DOMAIN items, items[i] \in M \cup C
      PROVE  Good(items[i])
  <2>1. validateGenericSourcePath(h, items[i])
    BY <1>1
  <2>2. items[i].source \in Path
    BY <1>3, <1>6
  <2>3. /\ IsAbs(items[i].source) \/ items[i].source[1] = "~"
        /\ Lstat(h, expandHomePath(items[i].source)) \in sourceKinds
    BY <2>1 DEF validateGenericSourcePath
  <2> QED
    BY <1>1, <2>2, <2>3, HomeExpanded
<1> HIDE DEF Good
<1>7. /\ \A i \in DOMAIN spec.mounts : Good(spec.mounts[i])
      /\ \A i \in DOMAIN spec.copies : Good(spec.copies[i])
  BY <1>5, <1>6
<1> DEFINE xm == expandPaths(spec).mounts
           xc == expandPaths(spec).copies
           Fine(item) == /\ IsAbs(item.source) /\ IsAbs(item.target)
                         /\ Lstat(h, item.source) \in sourceKinds
<1>8. \A i \in DOMAIN xm : Fine(xm[i])
  <2> SUFFICES ASSUME NEW i \in DOMAIN xm
               PROVE  Fine(xm[i])
    OBVIOUS
  <2>1. /\ i \in DOMAIN spec.mounts
        /\ xm[i].source = expandHomePath(spec.mounts[i].source)
        /\ xm[i].target = expandContainerHomePath(spec.mounts[i].target)
    BY MountsExpanded
  <2>2. Good(spec.mounts[i])
    BY <1>7, <2>1
  <2> QED
    BY <2>1, <2>2 DEF Good
<1>9. \A i \in DOMAIN xc : Fine(xc[i])
  <2> SUFFICES ASSUME NEW i \in DOMAIN xc
               PROVE  Fine(xc[i])
    OBVIOUS
  <2>1. /\ i \in DOMAIN spec.copies
        /\ xc[i].source = expandHomePath(spec.copies[i].source)
        /\ xc[i].target = expandContainerHomePath(spec.copies[i].target)
    BY CopiesExpanded
  <2>2. Good(spec.copies[i])
    BY <1>7, <2>1
  <2> QED
    BY <2>1, <2>2 DEF Good
<1>10. xm \in Seq(ToSet(xm)) /\ xc \in Seq(ToSet(xc))
  BY MountsExpanded, CopiesExpanded
<1>11. IsInjective(Targets(xm \o xc))
  BY <1>1
<1> HIDE DEF xm, xc
<1>12. IsInjective(Targets(xm))
  <2> DEFINE U == ToSet(xm) \cup ToSet(xc)
  <2>1. xm \in Seq(U) /\ xc \in Seq(U)
    BY <1>10, SeqWider
  <2> HIDE DEF U
  <2>2. \A i \in DOMAIN xm : i \in DOMAIN (xm \o xc) /\ (xm \o xc)[i] = xm[i]
    BY <2>1, ConcatFacts
  <2> DEFINE all == xm \o xc
  <2> HIDE DEF all
  <2>3. \A i \in DOMAIN xm : i \in DOMAIN all /\ all[i] = xm[i]
    BY <2>2 DEF all
  <2>4. \A i, j \in DOMAIN all : all[i].target = all[j].target => i = j
    BY <1>11 DEF all, IsInjective, Targets
  <2> QED
    BY <2>3, <2>4 DEF IsInjective, Targets
<1> HIDE DEF Fine
<1>13. \A item \in ToSet(xm) \cup ToSet(xc) : Fine(item)
  BY <1>8, <1>9 DEF ToSet
<1> QED
  BY <1>12, <1>13 DEF Fine, xm, xc

\* The rest of what the validation requires and later steps rely on.
LEMMA ValidatedRest ==
  ASSUME NEW h, NEW spec, validateCreateSpec(h, spec)
  PROVE  /\ reserved \notin DOMAIN spec.envs
         /\ validatePorts(spec.ports)
         /\ ParsesLimit(spec.limit)
         /\ ToSet(spec.tools) \subseteq Tools
BY DEF validateCreateSpec

-----------------------------------------------------------------------------
(***************************************************************************)
(* Materialization                                                         *)
(***************************************************************************)
\* The mounts of a plan by where they come from.
PlannedMounts(h, spec) ==
  Over(materializeBuiltinTools(h, spec.tools).mounts,
       Over(materializeGenericMounts(h, spec.mounts).mounts, execLogMount))

\* The tools of a spec that the host has something to mount for.
Offered(h, spec) == {id \in mountIDs(spec.tools) : Available(h, id)}

\* The mounts of a plan are those of the tools the host offers, those of the
\* spec and the one for the exec logs.
LEMMA PlannedDomain ==
  ASSUME NEW h, NEW spec
  PROVE  DOMAIN PlannedMounts(h, spec) =
           ({"tool"} \X Offered(h, spec)) \cup ({"mount"} \X DOMAIN spec.mounts)
           \cup DOMAIN execLogMount
<1> DEFINE tm == materializeBuiltinTools(h, spec.tools).mounts
           gm == materializeGenericMounts(h, spec.mounts).mounts
           lm == execLogMount
<1>1. DOMAIN tm = {"tool"} \X Offered(h, spec)
  BY DEF materializeBuiltinTools, Offered
<1>2. DOMAIN gm = {"mount"} \X DOMAIN spec.mounts
  BY DEF materializeGenericMounts
<1> HIDE DEF tm, gm, lm
<1>3. DOMAIN Over(tm, Over(gm, lm)) = DOMAIN tm \cup (DOMAIN gm \cup DOMAIN lm)
  BY DEF Over
<1>4. DOMAIN Over(tm, Over(gm, lm)) =
        ({"tool"} \X Offered(h, spec)) \cup ({"mount"} \X DOMAIN spec.mounts)
        \cup DOMAIN lm
  BY <1>1, <1>2, <1>3
<1> QED
  BY <1>4 DEF tm, gm, lm, PlannedMounts

\* A tool's mount has the tool's target.
LEMMA PlannedTool ==
  ASSUME NEW h, NEW spec, NEW id \in Offered(h, spec)
  PROVE  PlannedMounts(h, spec)[<<"tool", id>>].target = ToolTarget(id)
<1> DEFINE tm == materializeBuiltinTools(h, spec.tools).mounts
           rest == Over(materializeGenericMounts(h, spec.mounts).mounts, execLogMount)
           key == <<"tool", id>>
<1>1. key \in DOMAIN tm /\ tm[key].target = ToolTarget(id)
  BY DEF materializeBuiltinTools, Offered, ToolTarget
<1> HIDE DEF tm, rest, key
<1>2. Over(tm, rest)[key] = tm[key]
  BY <1>1 DEF Over
<1>3. Over(tm, rest)[key].target = ToolTarget(id)
  BY <1>1, <1>2
<1> QED
  BY <1>3 DEF tm, rest, key, PlannedMounts

\* A mount of the spec is planned as it stands.
LEMMA PlannedMount ==
  ASSUME NEW h, NEW spec, NEW i \in DOMAIN spec.mounts
  PROVE  PlannedMounts(h, spec)[<<"mount", i>>] =
           [source |-> spec.mounts[i].source, target |-> spec.mounts[i].target,
            readOnly |-> ~spec.mounts[i].writable]
<1> DEFINE tm == materializeBuiltinTools(h, spec.tools).mounts
           gm == materializeGenericMounts(h, spec.mounts).mounts
           lm == execLogMount
           key == <<"mount", i>>
           mount == [source |-> spec.mounts[i].source,
                     target |-> spec.mounts[i].target,
                     readOnly |-> ~spec.mounts[i].writable]
<1>1. key \in DOMAIN gm /\ gm[key] = mount
  BY DEF materializeGenericMounts
<1>2. DOMAIN tm = {"tool"} \X Offered(h, spec)
  BY DEF materializeBuiltinTools, Offered
<1>3. key \notin DOMAIN tm
  BY <1>2
<1> HIDE DEF tm, gm, lm, key, mount
<1>4. Over(tm, Over(gm, lm))[key] = gm[key]
  BY <1>1, <1>3 DEF Over
<1>5. Over(tm, Over(gm, lm))[key] = mount
  BY <1>1, <1>4
<1> QED
  BY <1>5 DEF tm, gm, lm, key, mount, PlannedMounts

\* The only mount for exec logs has the fixed target.
LEMMA PlannedLog ==
  ASSUME NEW h, NEW spec, NEW k \in DOMAIN execLogMount
  PROVE  /\ k = <<"log", 1>>
         /\ PlannedMounts(h, spec)[k].target = execLogContainerDir
<1> DEFINE tm == materializeBuiltinTools(h, spec.tools).mounts
           gm == materializeGenericMounts(h, spec.mounts).mounts
           lm == execLogMount
<1>1. k \in DOMAIN lm /\ lm[k].target = execLogContainerDir /\ k = <<"log", 1>>
  BY DEF execLogMount
<1>2. DOMAIN tm = {"tool"} \X Offered(h, spec)
  BY DEF materializeBuiltinTools, Offered
<1>3. DOMAIN gm = {"mount"} \X DOMAIN spec.mounts
  BY DEF materializeGenericMounts
<1>4. k \notin DOMAIN tm /\ k \notin DOMAIN gm
  BY <1>1, <1>2, <1>3
<1> HIDE DEF tm, gm, lm
<1>5. Over(tm, Over(gm, lm))[k] = lm[k]
  BY <1>1, <1>4 DEF Over
<1>6. Over(tm, Over(gm, lm))[k].target = execLogContainerDir
  BY <1>1, <1>5
<1> QED
  BY <1>1, <1>6 DEF tm, gm, lm, PlannedMounts

\* Two mounts of a plan meet only where one of them is a builtin tool's or
\* the exec log's, the mounts of the request being apart.
LEMMA SharedTargets ==
  ASSUME NEW h, NEW spec, IsInjective(Targets(spec.mounts)),
         ToSet(spec.tools) \subseteq Tools,
         ~ensureUniqueMountTargets(PlannedMounts(h, spec))
  PROVE  LET targets == {m.target : m \in ToSet(spec.mounts)} IN
         \/ \E id \in mountIDs(spec.tools) :
              Available(h, id) /\ ToolTarget(id) \in targets
         \/ targets \cap LogTargets # {}
<1> DEFINE mounts == PlannedMounts(h, spec)
           targets == {m.target : m \in ToSet(spec.mounts)}
           T(k) == \E a \in Offered(h, spec) :
                     k = <<"tool", a>> /\ mounts[k].target = ToolTarget(a)
           M(k) == \E i \in DOMAIN spec.mounts :
                     k = <<"mount", i>> /\ mounts[k].target = spec.mounts[i].target
           L(k) == /\ k = <<"log", 1>> /\ mounts[k].target = execLogContainerDir
                   /\ execLogContainerDir \in LogTargets
<1>1. /\ \A i \in DOMAIN spec.mounts : spec.mounts[i].target \in targets
      /\ \A i, j \in DOMAIN spec.mounts :
           spec.mounts[i].target = spec.mounts[j].target => i = j
  BY DEF ToSet, IsInjective, Targets
<1>2. Offered(h, spec) \subseteq CapabilityIDs
  BY MountIDsBuiltin DEF Offered
<1>3. ASSUME NEW k \in DOMAIN execLogMount
      PROVE  execLogContainerDir \in LogTargets
  BY <1>3 DEF execLogMount, LogTargets, ToSet
<1>4. DOMAIN mounts = ({"tool"} \X Offered(h, spec))
                        \cup ({"mount"} \X DOMAIN spec.mounts)
                        \cup DOMAIN execLogMount
  BY PlannedDomain
<1>6. \A key \in DOMAIN mounts : T(key) \/ M(key) \/ L(key)
  <2> SUFFICES ASSUME NEW key \in DOMAIN mounts
               PROVE  T(key) \/ M(key) \/ L(key)
    OBVIOUS
  <2>1. CASE key \in {"tool"} \X Offered(h, spec)
    <3>1. PICK a \in Offered(h, spec) : key = <<"tool", a>>
      BY <2>1
    <3>2. mounts[<<"tool", a>>].target = ToolTarget(a)
      BY PlannedTool
    <3> QED
      BY <3>1, <3>2
  <2>2. CASE key \in {"mount"} \X DOMAIN spec.mounts
    <3>1. PICK i \in DOMAIN spec.mounts : key = <<"mount", i>>
      BY <2>2
    <3>2. mounts[<<"mount", i>>] =
            [source |-> spec.mounts[i].source, target |-> spec.mounts[i].target,
             readOnly |-> ~spec.mounts[i].writable]
      BY PlannedMount
    <3> HIDE DEF mounts
    <3>3. mounts[<<"mount", i>>].target = spec.mounts[i].target
      BY <3>2
    <3> QED
      BY <3>1, <3>3
  <2>3. CASE key \in DOMAIN execLogMount
    <3>1. mounts[key].target = execLogContainerDir /\ key = <<"log", 1>>
      BY <2>3, PlannedLog
    <3> QED
      BY <1>3, <2>3, <3>1
  <2> QED
    BY <1>4, <2>1, <2>2, <2>3
<1>5. PICK k \in DOMAIN mounts, l \in DOMAIN mounts :
        mounts[k].target = mounts[l].target /\ k # l
  BY DEF ensureUniqueMountTargets, IsInjective, Targets
<1> HIDE DEF mounts, targets
<1> SUFFICES ASSUME \A id \in Offered(h, spec) : ToolTarget(id) \notin targets,
                    targets \cap LogTargets = {}
             PROVE  FALSE
  BY DEF targets, Offered
<1>7. /\ \A a, b \in Offered(h, spec) : ToolTarget(a) = ToolTarget(b) => a = b
      /\ \A a \in Offered(h, spec) : ToolTarget(a) # execLogContainerDir
  BY <1>2, ToolTargetsDistinct
<1>8. T(k) \/ M(k) \/ L(k)
  BY <1>6
<1>9. T(l) \/ M(l) \/ L(l)
  BY <1>6
<1>10. ~(T(k) /\ T(l))
  BY <1>5, <1>7
<1>11. ~(M(k) /\ M(l))
  BY <1>1, <1>5
<1>12. ~(L(k) /\ L(l))
  BY <1>5
<1>13. ~(T(k) /\ M(l)) /\ ~(M(k) /\ T(l))
  BY <1>1, <1>5
<1>14. ~(T(k) /\ L(l)) /\ ~(L(k) /\ T(l))
  BY <1>5, <1>7
<1>15. ~(M(k) /\ L(l)) /\ ~(L(k) /\ M(l))
  BY <1>1, <1>5
<1> HIDE DEF T, M, L
<1> QED
  BY <1>8, <1>9, <1>10, <1>11, <1>12, <1>13, <1>14, <1>15

\* The mounts a plan takes over from the record.
LEMMA PlanHolds ==
  ASSUME NEW h, NEW spec
  PROVE  \A i \in DOMAIN spec.mounts :
           LET m == spec.mounts[i]
           IN  \E n \in ToSet(PlannedMounts(h, spec)) :
                 n.source = m.source /\ n.target = m.target /\ n.readOnly = ~m.writable
<1> DEFINE mounts == PlannedMounts(h, spec)
<1> SUFFICES ASSUME NEW i \in DOMAIN spec.mounts
             PROVE  \E n \in ToSet(mounts) : /\ n.source = spec.mounts[i].source
                                             /\ n.target = spec.mounts[i].target
                                             /\ n.readOnly = ~spec.mounts[i].writable
  OBVIOUS
<1>1. <<"mount", i>> \in DOMAIN mounts
  <2>1. DOMAIN mounts = ({"tool"} \X Offered(h, spec))
                          \cup ({"mount"} \X DOMAIN spec.mounts)
                          \cup DOMAIN execLogMount
    BY PlannedDomain
  <2> HIDE DEF mounts
  <2> QED
    BY <2>1
<1>2. mounts[<<"mount", i>>] =
        [source |-> spec.mounts[i].source, target |-> spec.mounts[i].target,
         readOnly |-> ~spec.mounts[i].writable]
  BY PlannedMount
<1> HIDE DEF mounts
<1>3. mounts[<<"mount", i>>] \in ToSet(mounts)
  BY <1>1 DEF ToSet
<1> WITNESS mounts[<<"mount", i>>] \in ToSet(mounts)
<1> QED
  BY <1>2

\* The builtin tools do not set the reserved variable.
LEMMA ToolEnvFree ==
  ASSUME NEW h, NEW tools, ToSet(tools) \subseteq Tools
  PROVE  reserved \notin DOMAIN materializeBuiltinTools(h, tools).env
<1> DEFINE ids == {id \in mountIDs(tools) : Available(h, id)}
<1>1. DOMAIN materializeBuiltinTools(h, tools).env =
        {capabilityMounts[id].env : id \in ids} \ {""}
  BY DEF materializeBuiltinTools
<1>2. \A id \in ids : capabilityMounts[id].env \in {"", "UV_PYTHON_INSTALL_DIR"}
  BY MountIDsBuiltin, ToolEnvNames
<1> HIDE DEF ids
<1> QED
  BY <1>1, <1>2 DEF reserved

\* The environment of the primary container.
LEMMA EnvFacts ==
  ASSUME NEW mounts, NEW toolEnv, NEW envs, NEW groups,
         reserved \notin DOMAIN envs, reserved \notin DOMAIN toolEnv
  PROVE  LET e == primaryEnv(mounts, toolEnv, envs, groups) IN
         /\ DOMAIN envs \subseteq DOMAIN e
         /\ \A k \in DOMAIN envs : e[k] = envs[k]
         /\ \A k \in DOMAIN toolEnv \ DOMAIN envs : e[k] = toolEnv[k]
         /\ reserved \in DOMAIN e <=> groups # {}
<1> DEFINE base == primaryContainerEnvironment(mounts)
           inner == Over(toolEnv, base)
           full == Over(envs, inner)
           rest == Without(full, reserved)
           top == GroupsEnv(groups)
           e == Over(top, rest)
<1>1. /\ DOMAIN inner = DOMAIN toolEnv \cup DOMAIN base
      /\ \A k \in DOMAIN toolEnv : inner[k] = toolEnv[k]
  BY DEF Over
<1> HIDE DEF inner
<1>2. /\ DOMAIN full = DOMAIN envs \cup DOMAIN inner
      /\ \A k \in DOMAIN envs : full[k] = envs[k]
      /\ \A k \in DOMAIN inner : k \notin DOMAIN envs => full[k] = inner[k]
  BY DEF Over
<1> HIDE DEF full
<1>3. /\ DOMAIN rest = DOMAIN full \ {reserved}
      /\ \A k \in DOMAIN rest : rest[k] = full[k]
  BY DEF Without
<1> HIDE DEF rest
<1>4. DOMAIN top = IF groups # {} THEN {reserved} ELSE {}
  BY DEF GroupsEnv
<1> HIDE DEF top
<1>5. /\ DOMAIN e = DOMAIN top \cup DOMAIN rest
      /\ \A k \in DOMAIN rest : k \notin DOMAIN top => e[k] = rest[k]
  BY DEF Over
<1> HIDE DEF e
<1>6. /\ DOMAIN envs \subseteq DOMAIN e
      /\ \A k \in DOMAIN envs : e[k] = envs[k]
  BY <1>2, <1>3, <1>4, <1>5
<1>7. \A k \in DOMAIN toolEnv \ DOMAIN envs : e[k] = toolEnv[k]
  BY <1>1, <1>2, <1>3, <1>4, <1>5
<1>8. reserved \in DOMAIN e <=> groups # {}
  BY <1>3, <1>4, <1>5
<1>9. e = primaryEnv(mounts, toolEnv, envs, groups)
  BY DEF e, top, rest, full, inner, primaryEnv
<1> QED
  BY <1>6, <1>7, <1>8, <1>9

-----------------------------------------------------------------------------
(***************************************************************************)
(* The halves of a request                                                 *)
(***************************************************************************)
\* A single half decides alone.
LEMMA WinnerOfOne ==
  ASSUME NEW req, NEW f, NEW unset, NEW h, Halves(req) = <<h>>
  PROVE  Winner(req, f, unset) = h[f]
<1> DEFINE said == {i \in DOMAIN Halves(req) : Halves(req)[i][f] # unset}
<1>1. said = IF h[f] # unset THEN {1} ELSE {}
  OBVIOUS
<1>2. CASE h[f] = unset
  <2>1. said = {}
    BY <1>1, <1>2
  <2> QED
    BY <1>2, <2>1 DEF Winner
<1>3. CASE h[f] # unset
  <2> DEFINE last == CHOOSE i \in said : \A j \in said : j <= i
  <2>1. said = {1}
    BY <1>1, <1>3
  <2> HIDE DEF said
  <2>2. last = 1
    BY <2>1
  <2>3. Winner(req, f, unset) = Halves(req)[last][f]
    BY <2>1 DEF Winner, said
  <2> HIDE DEF last
  <2> QED
    BY <2>2, <2>3
<1> QED
  BY <1>2, <1>3

\* Of two halves, the later one that sets a field wins.
LEMMA WinnerOfTwo ==
  ASSUME NEW req, NEW f, NEW unset, NEW a, NEW b, Halves(req) = <<a, b>>
  PROVE  Winner(req, f, unset) = IF b[f] # unset THEN b[f] ELSE a[f]
<1> DEFINE said == {i \in DOMAIN Halves(req) : Halves(req)[i][f] # unset}
           last == CHOOSE i \in said : \A j \in said : j <= i
<1>1. \A i : i \in said <=> \/ i = 1 /\ a[f] # unset
                            \/ i = 2 /\ b[f] # unset
  OBVIOUS
<1>2. Winner(req, f, unset) = IF said = {} THEN unset ELSE Halves(req)[last][f]
  BY DEF Winner
<1> HIDE DEF said
<1>3. CASE b[f] # unset
  <2>1. 2 \in said /\ \A j \in said : j <= 2
    BY <1>1, <1>3
  <2>2. \A i \in said : (\A j \in said : j <= i) => i = 2
    BY <1>1, <1>3
  <2>3. last = 2
    BY <2>1, <2>2
  <2> HIDE DEF last
  <2> QED
    BY <1>2, <1>3, <2>1, <2>3
<1>4. CASE b[f] = unset /\ a[f] # unset
  <2>1. said = {1}
    BY <1>1, <1>4
  <2>2. last = 1
    BY <2>1
  <2> HIDE DEF last
  <2> QED
    BY <1>2, <1>4, <2>1, <2>2
<1>5. CASE b[f] = unset /\ a[f] = unset
  <2>1. said = {}
    BY <1>1, <1>5
  <2> QED
    BY <1>2, <1>5, <2>1
<1> QED
  BY <1>3, <1>4, <1>5

\* A spec contains everything the half lists and sets.
Takes(spec, half) ==
  /\ \A f \in Appended : ToSet(half[f]) \subseteq ToSet(spec[f])
  /\ DOMAIN half.envs \subseteq DOMAIN spec.envs
  /\ DOMAIN half.labels \subseteq DOMAIN spec.labels

\* A spec holds the half's variables and labels with the half's values.
Prefers(spec, half) ==
  /\ \A k \in DOMAIN half.envs : spec.envs[k] = half.envs[k]
  /\ \A k \in DOMAIN half.labels : spec.labels[k] = half.labels[k]

\* A spec takes everything from itself.
LEMMA TakesItself ==
  ASSUME NEW s
  PROVE  Takes(s, s) /\ Prefers(s, s)
BY DEF Takes, Prefers

\* A merged spec takes everything from both halves and prefers the override.
LEMMA TakesBoth ==
  ASSUME NEW base, NEW over, IsSpec(base), IsSpec(over)
  PROVE  LET m == mergeCreateSpecs(base, over) IN
         /\ Takes(m, base) /\ Takes(m, over) /\ Prefers(m, over)
         /\ \A k \in DOMAIN base.envs :
              k \notin DOMAIN over.envs => m.envs[k] = base.envs[k]
         /\ \A k \in DOMAIN base.labels :
              k \notin DOMAIN over.labels => m.labels[k] = base.labels[k]
<1> DEFINE m == mergeCreateSpecs(base, over)
<1>1. ASSUME NEW f \in Appended
      PROVE  ToSet(base[f]) \subseteq ToSet(m[f]) /\ ToSet(over[f]) \subseteq ToSet(m[f])
  <2>1. m[f] = base[f] \o over[f]
    BY MergedAppended
  <2>2. PICK S : base[f] \in Seq(S) /\ over[f] \in Seq(S)
    BY <1>1 DEF Appended, IsSpec, ListsTyped
  <2> DEFINE s == base[f]
             t == over[f]
  <2> HIDE DEF m, s, t
  <2>3. /\ \A i \in DOMAIN s : i \in DOMAIN (s \o t) /\ (s \o t)[i] = s[i]
        /\ \A i \in DOMAIN t : \E j \in DOMAIN (s \o t) : (s \o t)[j] = t[i]
    <3>1. s \in Seq(S) /\ t \in Seq(S)
      BY <2>2 DEF s, t
    <3>2. \A i \in DOMAIN s : i \in DOMAIN (s \o t) /\ (s \o t)[i] = s[i]
      BY <3>1, ConcatFirst
    <3>3. ASSUME NEW i \in DOMAIN t
          PROVE  \E j \in DOMAIN (s \o t) : (s \o t)[j] = t[i]
      <4>1. Len(s) + i \in DOMAIN (s \o t) /\ (s \o t)[Len(s) + i] = t[i]
        BY <3>1, ConcatSecond
      <4> QED
        BY <4>1
    <3> QED
      BY <3>2, <3>3
  <2>4. ToSet(s) \subseteq ToSet(s \o t) /\ ToSet(t) \subseteq ToSet(s \o t)
    <3> DEFINE st == s \o t
    <3>1. /\ \A i \in DOMAIN s : i \in DOMAIN st /\ st[i] = s[i]
          /\ \A i \in DOMAIN t : \E j \in DOMAIN st : st[j] = t[i]
      BY <2>3
    <3> HIDE DEF st
    <3>2. ToSet(s) \subseteq ToSet(st) /\ ToSet(t) \subseteq ToSet(st)
      BY <3>1 DEF ToSet
    <3> QED
      BY <3>2 DEF st
  <2> QED
    BY <2>1, <2>4 DEF s, t
<1>2. m.envs = Over(over.envs, base.envs) /\ m.labels = Over(over.labels, base.labels)
  BY MergedMaps
<1> HIDE DEF m
<1>3. /\ DOMAIN m.envs = DOMAIN over.envs \cup DOMAIN base.envs
      /\ \A k \in DOMAIN over.envs : m.envs[k] = over.envs[k]
      /\ \A k \in DOMAIN base.envs : k \notin DOMAIN over.envs => m.envs[k] = base.envs[k]
  BY <1>2 DEF Over
<1>4. /\ DOMAIN m.labels = DOMAIN over.labels \cup DOMAIN base.labels
      /\ \A k \in DOMAIN over.labels : m.labels[k] = over.labels[k]
      /\ \A k \in DOMAIN base.labels :
           k \notin DOMAIN over.labels => m.labels[k] = base.labels[k]
  BY <1>2 DEF Over
<1>5. Takes(m, base) /\ Takes(m, over) /\ Prefers(m, over)
  BY <1>1, <1>3, <1>4 DEF Takes, Prefers
<1> QED
  BY <1>3, <1>4, <1>5 DEF m

\* A YAML alone is merged with an empty spec, and stays what it is.
LEMMA MergedAlone ==
  ASSUME NEW y, IsSpec(y)
  PROVE  LET m == mergeCreateSpecs(y, EmptySpec) IN
         /\ \A f \in Scalars \cup {"command"} : m[f] = y[f]
         /\ Takes(m, y) /\ Prefers(m, y)
<1> DEFINE m == mergeCreateSpecs(y, EmptySpec)
<1>1. ASSUME NEW f \in Scalars
      PROVE  m[f] = y[f]
  <2>0. EmptySpec.image = "" /\ EmptySpec.limit = "" /\ EmptySpec.gpus = ""
    BY DEF EmptySpec
  <2>1. EmptySpec[f] = ""
    BY <1>1, <2>0 DEF Scalars
  <2> QED
    BY <2>1, MergedScalar
<1>2. m.command = y.command
  <2>1. EmptySpec.command = <<>>
    BY DEF EmptySpec
  <2> QED
    BY <2>1, MergedCommand
<1>3. Takes(m, y)
  BY EmptyTyped, TakesBoth
<1>4. Prefers(m, y)
  <2>1. EmptySpec.envs = <<>> /\ EmptySpec.labels = <<>>
    BY DEF EmptySpec
  <2>2. /\ \A k \in DOMAIN y.envs :
             k \notin DOMAIN EmptySpec.envs => m.envs[k] = y.envs[k]
        /\ \A k \in DOMAIN y.labels :
             k \notin DOMAIN EmptySpec.labels => m.labels[k] = y.labels[k]
    BY EmptyTyped, TakesBoth
  <2> HIDE DEF m
  <2> QED
    BY <2>1, <2>2 DEF Prefers
<1> HIDE DEF m
<1>5. \A f \in Scalars \cup {"command"} : m[f] = y[f]
  BY <1>1, <1>2
<1> QED
  BY <1>3, <1>4, <1>5 DEF m

\* What the daemon makes of a request has what both halves ask for.
LEMMA AskedOfHalves ==
  ASSUME NEW req, IsRequest(req), EffectiveSpec(req) # <<>>
  PROVE  LET asked == EffectiveSpec(req)[1]
             halves == ToSet(Halves(req))
             override == Halves(req)[Len(Halves(req))]
         IN
         /\ \A f \in Scalars : asked[f] = Winner(req, f, "")
         /\ asked.command = Winner(req, "command", <<>>)
         /\ \A half \in halves : IsSpec(half) /\ Takes(asked, half)
         /\ Prefers(asked, override)
         /\ \A half \in halves : \A k \in DOMAIN half.envs :
              asked.envs[k] \in {h.envs[k] : h \in {x \in halves : k \in DOMAIN x.envs}}
<1> DEFINE asked == EffectiveSpec(req)[1]
           halves == ToSet(Halves(req))
           override == Halves(req)[Len(Halves(req))]
           Combined ==
             /\ \A f \in Scalars : asked[f] = Winner(req, f, "")
             /\ asked.command = Winner(req, "command", <<>>)
             /\ \A half \in halves : IsSpec(half) /\ Takes(asked, half)
             /\ Prefers(asked, override)
             /\ \A half \in halves : \A k \in DOMAIN half.envs :
                  asked.envs[k] \in {h.envs[k] : h \in {x \in halves : k \in DOMAIN x.envs}}
<1>1. ASSUME NEW s, IsSpec(s), Halves(req) = <<s>>, NEW m, EffectiveSpec(req) = <<m>>,
             \A f \in Scalars \cup {"command"} : m[f] = s[f],
             Takes(m, s), Prefers(m, s)
      PROVE  Combined
  <2>1. asked = m /\ halves = {s} /\ override = s
    BY <1>1 DEF ToSet
  <2>2. /\ \A f \in Scalars : m[f] = Winner(req, f, "")
        /\ m.command = Winner(req, "command", <<>>)
    BY <1>1, WinnerOfOne
  <2> HIDE DEF asked, halves, override
  <2>3. \A half \in halves : \A k \in DOMAIN half.envs :
          asked.envs[k] \in {h.envs[k] : h \in {x \in halves : k \in DOMAIN x.envs}}
    BY <1>1, <2>1 DEF Prefers
  <2> QED
    BY <1>1, <2>1, <2>2, <2>3
<1>2. ASSUME NEW y, NEW s, IsSpec(y), IsSpec(s), Halves(req) = <<y, s>>,
             EffectiveSpec(req) = <<mergeCreateSpecs(y, s)>>
      PROVE  Combined
  <2> DEFINE m == mergeCreateSpecs(y, s)
  <2>1. asked = m /\ halves = {y, s} /\ override = s
    BY <1>2 DEF ToSet
  <2>2. /\ Takes(m, y) /\ Takes(m, s) /\ Prefers(m, s)
        /\ \A k \in DOMAIN y.envs : k \notin DOMAIN s.envs => m.envs[k] = y.envs[k]
    BY <1>2, TakesBoth
  <2>3. /\ \A f \in Scalars : m[f] = IF s[f] # "" THEN s[f] ELSE y[f]
        /\ m.command = IF s.command # <<>> THEN s.command ELSE y.command
    BY MergedScalar, MergedCommand
  <2> HIDE DEF m, asked, halves, override
  <2>4. /\ \A f \in Scalars : m[f] = Winner(req, f, "")
        /\ m.command = Winner(req, "command", <<>>)
    <3>1. ASSUME NEW f, NEW unset
          PROVE  Winner(req, f, unset) = IF s[f] # unset THEN s[f] ELSE y[f]
      BY <1>2, WinnerOfTwo
    <3>2. Winner(req, "command", <<>>) = IF s.command # <<>> THEN s.command ELSE y.command
      BY <3>1
    <3>3. ASSUME NEW f \in Scalars
          PROVE  m[f] = Winner(req, f, "")
      BY <2>3, <3>1
    <3> QED
      BY <2>3, <3>2, <3>3
  <2>5. ASSUME NEW half \in halves, NEW k \in DOMAIN half.envs
        PROVE  asked.envs[k] \in {h.envs[k] : h \in {x \in halves : k \in DOMAIN x.envs}}
    <3>1. CASE k \in DOMAIN s.envs
      <4>1. m.envs[k] = s.envs[k]
        BY <2>2, <3>1 DEF Prefers
      <4> QED
        BY <2>1, <3>1, <4>1
    <3>2. CASE k \notin DOMAIN s.envs
      <4>1. k \in DOMAIN y.envs
        BY <2>1, <2>5, <3>2
      <4>2. m.envs[k] = y.envs[k]
        BY <2>2, <3>2, <4>1
      <4> QED
        BY <2>1, <4>1, <4>2
    <3> QED
      BY <3>1, <3>2
  <2> QED
    BY <1>2, <2>1, <2>2, <2>4, <2>5
<1>3. Combined
  <2> HIDE DEF Combined
  <2>1. CASE \E s : /\ IsSpec(s) /\ Halves(req) = <<s>> /\ EffectiveSpec(req) = <<s>>
    BY <1>1, <2>1, TakesItself
  <2>2. CASE \E y : /\ IsSpec(y) /\ Halves(req) = <<y>>
                    /\ EffectiveSpec(req) = <<mergeCreateSpecs(y, EmptySpec)>>
    <3>1. PICK y : /\ IsSpec(y) /\ Halves(req) = <<y>>
                   /\ EffectiveSpec(req) = <<mergeCreateSpecs(y, EmptySpec)>>
      BY <2>2
    <3> DEFINE m == mergeCreateSpecs(y, EmptySpec)
    <3>2. /\ \A f \in Scalars \cup {"command"} : m[f] = y[f]
          /\ Takes(m, y) /\ Prefers(m, y)
      BY <3>1, MergedAlone
    <3>3. EffectiveSpec(req) = <<m>>
      BY <3>1
    <3> HIDE DEF m
    <3> QED
      BY <1>1, <3>1, <3>2, <3>3
  <2>3. CASE \E y, s : /\ IsSpec(y) /\ IsSpec(s) /\ Halves(req) = <<y, s>>
                       /\ EffectiveSpec(req) = <<mergeCreateSpecs(y, s)>>
    BY <1>2, <2>3
  <2> QED
    BY <2>1, <2>2, <2>3, HalvesCases
<1> QED
  BY <1>3

-----------------------------------------------------------------------------
(***************************************************************************)
(* The request of an agent command                                         *)
(***************************************************************************)
\* The YAML of an agent type, a spec laid over "parses", is one.
LEMMA YAMLTyped ==
  ASSUME NEW spec, IsSpec(spec)
  PROVE  IsYAML(Over(spec, [parses |-> TRUE]))
<1> DEFINE cfg == Over(spec, [parses |-> TRUE])
<1>1. DOMAIN cfg = DOMAIN EmptySpec \cup {"parses"}
  BY DEF Over, IsSpec
<1>2. \A f \in DOMAIN EmptySpec : cfg[f] = spec[f]
  BY DEF Over, IsSpec
<1> HIDE DEF cfg
<1>3. /\ cfg.mounts = spec.mounts /\ cfg.copies = spec.copies
      /\ cfg.ports = spec.ports /\ cfg.companions = spec.companions
  BY <1>2, FieldNames
<1>4. IsYAML(cfg)
  BY <1>1, <1>3 DEF IsYAML, IsSpec, ListsTyped
<1> QED
  BY <1>4 DEF cfg

\* The YAML of the openclaw agent is one the daemon reads.
LEMMA OpenclawTyped == IsYAML(openclawConfigYaml)
<1> DEFINE mount == [source |-> <<"~", ".openclaw">>, target |-> <<"~", ".openclaw">>,
                     writable |-> TRUE]
           port == [container |-> 18789, host |-> 18789, proto |-> "tcp"]
           spec == [EmptySpec EXCEPT
             !.image = "openclaw-runtime", !.command = << <<"openclaw", "gateway">> >>,
             !.mounts = <<mount>>, !.ports = <<port>>,
             !.envs = [OPENCLAW_STATE_DIR |-> "/home/agbox/.openclaw"]]
<1>1. mount \in [source : Path, target : Path, writable : BOOLEAN]
  <2>1. <<"~", ".openclaw">> \in Path
    BY LiteralsAssumption DEF Path
  <2> QED
    BY <2>1
<1>2. port \in [container : Nat, host : Nat, proto : STRING]
  BY LiteralsAssumption
<1> HIDE DEF mount, port
<1>3. /\ DOMAIN spec = DOMAIN EmptySpec
      /\ spec.mounts = <<mount>> /\ spec.ports = <<port>>
      /\ spec.copies = EmptySpec.copies /\ spec.companions = EmptySpec.companions
  BY FieldNames
<1>4. openclawConfigYaml = Over(spec, [parses |-> TRUE])
  BY DEF openclawConfigYaml, mount, port
<1> HIDE DEF spec
<1>5. <<mount>> \in Seq([source : Path, target : Path, writable : BOOLEAN])
  BY <1>1
<1>6. <<port>> \in Seq([container : Nat, host : Nat, proto : STRING])
  BY <1>2
<1>7. IsSpec(spec)
  BY <1>3, <1>5, <1>6, EmptyTyped DEF IsSpec, ListsTyped
<1> QED
  BY <1>4, <1>7, YAMLTyped

\* The YAML of the paseo agent is one the daemon reads.
LEMMA PaseoTyped == IsYAML(paseoConfigYaml)
<1> DEFINE spec == [EmptySpec EXCEPT
             !.image = "paseo-runtime", !.command = << <<"paseo", "daemon">> >>,
             !.envs = [PASEO_VOICE_MODE_ENABLED |-> "0"]]
<1>1. /\ DOMAIN spec = DOMAIN EmptySpec
      /\ spec.mounts = EmptySpec.mounts /\ spec.ports = EmptySpec.ports
      /\ spec.copies = EmptySpec.copies /\ spec.companions = EmptySpec.companions
  BY FieldNames
<1>2. paseoConfigYaml = Over(spec, [parses |-> TRUE])
  BY DEF paseoConfigYaml
<1> HIDE DEF spec
<1>3. IsSpec(spec)
  BY <1>1, EmptyTyped DEF IsSpec, ListsTyped
<1> QED
  BY <1>2, <1>3, YAMLTyped

\* An agent type has no YAML or one of these two.
LEMMA TypeYAML ==
  ASSUME NEW type \in AgentTypes
  PROVE  \/ typeDef(type).yaml = <<>>
         \/ typeDef(type).yaml = <<openclawConfigYaml>>
         \/ typeDef(type).yaml = <<paseoConfigYaml>>
<1>1. type \in {"", "claude", "codex", "openclaw", "paseo"}
  BY DEF AgentTypes, agentTypeDefs
<1>2. CASE type = ""
  BY <1>2 DEF typeDef, customDef, NoYAML
<1>3. CASE type = "openclaw"
  <2>1. typeDef(type) = agentTypeDefs["openclaw"]
    BY <1>3 DEF typeDef
  <2> QED
    BY <2>1 DEF agentTypeDefs
<1>4. CASE type = "paseo"
  <2>1. typeDef(type) = agentTypeDefs["paseo"]
    BY <1>4 DEF typeDef
  <2> QED
    BY <2>1 DEF agentTypeDefs
<1>5. CASE type = "claude"
  <2>1. typeDef(type) = agentTypeDefs["claude"]
    BY <1>5 DEF typeDef
  <2> QED
    BY <2>1 DEF agentTypeDefs, NoYAML
<1>6. CASE type = "codex"
  <2>1. typeDef(type) = agentTypeDefs["codex"]
    BY <1>6 DEF typeDef
  <2> QED
    BY <2>1 DEF agentTypeDefs, NoYAML
<1> QED
  BY <1>1, <1>2, <1>3, <1>4, <1>5, <1>6

\* The workspace is one path or none, with its symlink resolved.
LEMMA WorkspaceTyped ==
  ASSUME NEW h, NEW type, NEW flags \in Flags
  PROVE  \/ workspaceOf(h, type, flags) = <<>>
         \/ \E p \in Path : workspaceOf(h, type, flags) = <<p>>
<1>1. flags.workspace # <<>> => \E p \in Path : flags.workspace = <<p>>
  BY RequestsAssumption DEF IsFlags
<1>2. CASE workspaceGiven(type, flags) = <<>>
  BY <1>2 DEF workspaceOf
<1>3. ASSUME NEW p \in Path, workspaceGiven(type, flags) = <<p>>
      PROVE  \/ workspaceOf(h, type, flags) = <<>>
             \/ \E q \in Path : workspaceOf(h, type, flags) = <<q>>
  <2>1. EvalSymlinks(h, p) \in Path
    BY LinkAssumption DEF EvalSymlinks
  <2>2. workspaceOf(h, type, flags) = validateWorkspacePath(h, p)
    BY <1>3 DEF workspaceOf
  <2> HIDE DEF EvalSymlinks
  <2> QED
    BY <2>1, <2>2, Zenon DEF validateWorkspacePath
<1>4. workspaceGiven(type, flags) = <<>> \/ \E p \in Path : workspaceGiven(type, flags) = <<p>>
  BY <1>1, CwdAssumption DEF workspaceGiven
<1> QED
  BY <1>2, <1>3, <1>4

\* What agbox agent sends is a request, whatever the flags.
LEMMA AgentTyped ==
  ASSUME NEW h, NEW type \in AgentTypes, NEW flags \in Flags
  PROVE  IsRequest(AgentRequest(h, type, flags))
<1> DEFINE args == resolveAgentSessionArgs(h, type, flags)
           spec == buildAgentCreateSpec(args, type, flags)
           ws == workspaceOf(h, type, flags)
           C == [source : Path, target : Path]
           front == [i \in DOMAIN ws |->
                       [source |-> ws[i], target |-> <<"/", "workspace">>]]
<1>1. IsSpec(flags.spec)
  BY RequestsAssumption DEF IsFlags
<1>2. args.workspace = ws
  BY DEF resolveAgentSessionArgs
<1>3. /\ DOMAIN spec = DOMAIN EmptySpec
      /\ spec.mounts = flags.spec.mounts /\ spec.ports = flags.spec.ports
      /\ spec.companions = flags.spec.companions
      /\ spec.copies = [i \in DOMAIN args.workspace |->
                          [source |-> args.workspace[i], target |-> <<"/", "workspace">>]]
                       \o flags.spec.copies
  <2> HIDE DEF args
  <2> QED
    BY <1>1, FieldNames DEF buildAgentCreateSpec, IsSpec
<1>4. spec.copies = front \o flags.spec.copies
  BY <1>2, <1>3
<1>5. front \in Seq(C)
  <2>1. CASE ws = <<>>
    <3>1. front = <<>>
      BY <2>1
    <3> QED
      BY <3>1
  <2>2. CASE \E p \in Path : ws = <<p>>
    <3>1. PICK p \in Path : ws = <<p>>
      BY <2>2
    <3> DEFINE copy == [source |-> p, target |-> <<"/", "workspace">>]
    <3>2. copy \in C
      <4>1. <<"/", "workspace">> \in Path
        BY LiteralsAssumption DEF Path
      <4> QED
        BY <4>1
    <3>3. front = [i \in 1 .. 1 |-> copy]
      BY <3>1
    <3> HIDE DEF copy, C, front
    <3> QED
      BY <3>2, <3>3
  <2> QED
    BY <2>1, <2>2, WorkspaceTyped
<1>6. flags.spec.copies \in Seq(C)
  BY <1>1 DEF IsSpec, ListsTyped
<1> HIDE DEF spec, front, C
<1>7. spec.copies \in Seq(C)
  BY <1>4, <1>5, <1>6, ConcatFacts
<1>8. IsSpec(spec)
  BY <1>1, <1>3, <1>7 DEF IsSpec, ListsTyped, C
<1>9. typeDef(type).yaml # <<>> =>
        /\ typeDef(type).yaml = <<typeDef(type).yaml[1]>>
        /\ IsYAML(typeDef(type).yaml[1])
  BY TypeYAML, OpenclawTyped, PaseoTyped
<1>10. AgentRequest(h, type, flags) = [yaml |-> typeDef(type).yaml, spec |-> <<spec>>]
  BY DEF AgentRequest, spec
<1> QED
  BY <1>8, <1>9, <1>10 DEF IsRequest

-----------------------------------------------------------------------------
(***************************************************************************)
(* The record                                                              *)
(***************************************************************************)
\* What is recorded is the validated spec with its paths expanded.
LEMMA RecordFacts ==
  ASSUME SpecInv, phase \in Granted
  PROVE  /\ IsSpec(Asked)
         /\ record = stored /\ record = expandPaths(Asked)
         /\ DOMAIN record = DOMAIN EmptySpec
         /\ \A f \in DOMAIN EmptySpec \ {"mounts", "copies"} : record[f] = Asked[f]
         /\ \E h \in Hosts : validateCreateSpec(h, Asked)
<1>1. IsSpec(Asked)
  BY EffectiveTyped DEF SpecInv, Asked
<1>2. stored = expandPaths(Asked) /\ record = cloneCreateSpec(stored)
  BY DEF SpecInv
<1>3. /\ DOMAIN expandPaths(Asked) = DOMAIN EmptySpec
      /\ \A f \in DOMAIN EmptySpec \ {"mounts", "copies"} :
           expandPaths(Asked)[f] = Asked[f]
      /\ cloneCreateSpec(expandPaths(Asked)) = expandPaths(Asked)
  BY <1>1, Expanded
<1>4. record = stored /\ record = expandPaths(Asked)
  BY <1>2, <1>3
<1> QED
  BY <1>1, <1>3, <1>4 DEF SpecInv

\* What passed validateCreateSpec is known of the record made from it.
LEMMA RecordValid ==
  ASSUME SpecInv, phase \in Granted
  PROVE  /\ \A item \in ToSet(record.mounts) \cup ToSet(record.copies) :
              IsAbs(item.source) /\ IsAbs(item.target)
         /\ IsInjective(Targets(record.mounts))
         /\ Len(record.copies) \in Nat
         /\ reserved \notin DOMAIN record.envs
         /\ validatePorts(record.ports)
         /\ ToSet(record.tools) \subseteq Tools
<1>1. PICK h \in Hosts : validateCreateSpec(h, Asked)
  BY RecordFacts
<1>2. IsSpec(Asked) /\ record = expandPaths(Asked)
  BY RecordFacts
<1> DEFINE x == expandPaths(Asked)
<1>3. /\ \A item \in ToSet(x.mounts) \cup ToSet(x.copies) :
           /\ IsAbs(item.source) /\ IsAbs(item.target)
           /\ Lstat(h, item.source) \in sourceKinds
      /\ IsInjective(Targets(x.mounts))
  BY <1>1, <1>2, ValidatedPaths
<1>4. Len(x.copies) \in Nat
  BY <1>2, CopiesExpanded
<1>5. record.envs = Asked.envs /\ record.ports = Asked.ports /\ record.tools = Asked.tools
  BY RecordFacts, FieldNames
<1>6. /\ reserved \notin DOMAIN Asked.envs /\ validatePorts(Asked.ports)
      /\ ToSet(Asked.tools) \subseteq Tools
  BY <1>1, ValidatedRest
<1> HIDE DEF x
<1>7. record = x
  BY <1>2 DEF x
<1> QED
  BY <1>3, <1>4, <1>5, <1>6, <1>7

\* On a host that has not changed, what the runtime checks again is as it was.
LEMMA RecordOnHost ==
  ASSUME SpecInv, phase = "accepted", changes = 0
  PROVE  /\ \A item \in ToSet(record.mounts) \cup ToSet(record.copies) :
              Lstat(host, item.source) \in sourceKinds
         /\ ParsesLimit(record.limit)
<1>1. phase \in Granted
  BY DEF Granted
<1>2. IsSpec(Asked) /\ record = expandPaths(Asked)
  BY <1>1, RecordFacts
<1>3. validateCreateSpec(host, Asked)
  BY DEF SpecInv
<1> DEFINE x == expandPaths(Asked)
<1>4. \A item \in ToSet(x.mounts) \cup ToSet(x.copies) :
        Lstat(host, item.source) \in sourceKinds
  BY <1>2, <1>3, ValidatedPaths
<1>5. record.limit = Asked.limit
  BY <1>1, RecordFacts, FieldNames
<1> HIDE DEF x
<1>6. record = x
  BY <1>2 DEF x
<1> QED
  BY <1>3, <1>4, <1>5, <1>6, ValidatedRest

-----------------------------------------------------------------------------
(***************************************************************************)
(* The invariant holds initially and is preserved                          *)
(***************************************************************************)
\* CreateInv holds initially.
LEMMA InitInv ==
  ASSUME CreateInit
  PROVE  CreateInv
<1>1. /\ host \in Hosts /\ changes = 0 /\ request = NoRequest /\ phase = "composing"
      /\ stored = EmptySpec /\ record = EmptySpec
      /\ container = <<>> /\ copied = 0 /\ failure = ""
      /\ tree \in Trees /\ next = 1 /\ archive = <<>> /\ tarEnd = "none"
      /\ pipe = "open" /\ client = "idle"
  BY TreesAssumption DEF CreateInit, CopyIdle
<1>10. changes = 0
  BY <1>1
<1>11. copied = 0
  BY <1>1
<1>12. ~(copied > 0)
  BY ONLY <1>11
<1>2. SpecInv
  <2>1. IsRequest(request)
    BY <1>1 DEF IsRequest, NoRequest
  <2>2. changes \in 0 .. MaxChanges
    BY ONLY <1>10, RequestsAssumption
  <2> QED
    BY <1>1, <2>1, <2>2 DEF SpecInv, Granted
<1>3. PlanInv
  BY <1>1 DEF PlanInv, Built
<1>4. FailureInv
  <2>1. EmptySpec.copies = <<>>
    BY DEF EmptySpec
  <2>2. record = EmptySpec
    BY <1>1
  <2>3. Len(record.copies) = 0
    BY <2>1, <2>2
  <2>4. copied \in 0 .. Len(record.copies)
    BY ONLY <1>11, <2>3
  <2> QED
    BY <1>1, <1>12, <2>4 DEF FailureInv
<1>5. AcceptedIsBuildable
  BY <1>1 DEF AcceptedIsBuildable
<1>6. ArchiveInv
  <2>1. ArchiveTypeOK
    <3>1. tree.top \in {"dir", "file"} /\ Len(tree.kind) \in Nat
      BY <1>1, TreeFacts
    <3>2. 1 \in 1 .. Len(tree.kind) + 1
      BY <3>1
    <3>3. <<>> \in Seq(Entries(tree))
      OBVIOUS
    <3> QED
      BY <1>1, <3>1, <3>2, <3>3 DEF ArchiveTypeOK
  <2>2. Wanted(tree) \subseteq Entries(tree)
    BY <1>1, WantedFacts
  <2>3. Len(tree.kind) \in Nat /\ Entries(tree) = 1 .. Len(tree.kind)
    BY <1>1, TreeFacts
  <2>4. \A m \in Entries(tree) : ~(m < 1)
    BY <2>3
  <2>5. DOMAIN archive = {} /\ \A m \in Wanted(tree) : ~(m < next)
    <3>1. archive = <<>> /\ next = 1
      BY <1>1
    <3>2. DOMAIN archive = {}
      BY <3>1
    <3>3. \A m \in Wanted(tree) : ~(m < next)
      BY <2>2, <2>4, <3>1
    <3> QED
      BY <3>2, <3>3
  <2>7. InOrder /\ Complete
    BY ONLY <2>5 DEF InOrder, Complete
  <2>6. NotInside /\ WalkEnded
    BY <1>1, <2>4 DEF NotInside, WalkEnded
  <2> QED
    BY <1>1, <2>1, <2>6, <2>7 DEF ArchiveInv
<1>7. WholeInv
  BY <1>12 DEF WholeInv
<1> QED
  BY <1>2, <1>3, <1>4, <1>5, <1>6, <1>7 DEF CreateInv

\* The archive.
LEMMA ArchiveNext ==
  ASSUME ArchiveInv, [CreateNext]_createVars
  PROVE  ArchiveInv'
<1>1. ArchiveTypeOK
  BY DEF ArchiveInv
<1>2. CASE UNCHANGED copyVars
  <2>1. UNCHANGED <<tree, next, archive, tarEnd, pipe, client>>
    BY <1>2 DEF copyVars
  <2> QED
    BY <1>1, <2>1, ClientKeeps DEF ArchiveTypeOK
<1>3. CASE CopyBegins
  BY <1>3, CopyStarts DEF CopyBegins, StartCopy
<1>4. CASE CopyMoves
  <2>1. CASE ArchiveStep
    BY <2>1, SkipKeeps, WriteKeeps, WalkEndKeeps DEF ArchiveStep
  <2>2. CASE ClientEnds
    BY <2>2, ClientKeeps DEF ClientEnds
  <2> QED
    BY <1>4, <2>1, <2>2 DEF CopyMoves
<1>5. CASE CopyBreaks
  BY <1>5, ClientKeeps DEF CopyBreaks, ClientBreaks
<1>6. CASE CopyReturns
  BY <1>6, ClientKeeps DEF CopyReturns, dockerCopyToContainer
<1>7. CASE UNCHANGED createVars
  BY <1>2, <1>7 DEF createVars
<1>8. CASE ClientSends \/ AgentSends \/ HostChanges \/ DockerFails
  BY <1>2, <1>8 DEF ClientSends, AgentSends, HostChanges, DockerFails
<1>9. CASE CreateSandbox \/ Materialize \/ CreatePrimary \/ StartPrimary
  BY <1>2, <1>9 DEF CreateSandbox, Materialize, CreatePrimary, StartPrimary
<1> QED
  BY <1>3, <1>4, <1>5, <1>6, <1>7, <1>8, <1>9 DEF CreateNext, CopyStep

\* Where the request and the record stay, SpecInv does.
LEMMA SpecFrame ==
  ASSUME SpecInv, UNCHANGED <<host, changes, request, stored, record>>,
         phase' \in Granted <=> phase \in Granted,
         phase' = "accepted" => phase = "accepted"
  PROVE  SpecInv'
<1>1. (IsRequest(request))' /\ EffectiveSpec(request)' = EffectiveSpec(request)
      /\ Asked' = Asked
  BY DEF SpecInv, Asked
<1> QED
  BY <1>1 DEF SpecInv

\* The request and its record.
LEMMA SpecNext ==
  ASSUME SpecInv, [CreateNext]_createVars
  PROVE  SpecInv'
<1>1. CASE ClientSends
  <2>1. request' \in Requests /\ phase = "composing" /\ phase' = "sent"
        /\ UNCHANGED <<host, changes, stored, record>>
    BY <1>1 DEF ClientSends
  <2>2. (IsRequest(request))'
    BY <2>1, RequestsAssumption
  <2> QED
    BY <2>1, <2>2 DEF SpecInv, Granted
<1>2. CASE AgentSends
  <2>1. /\ phase = "composing" /\ phase' \in {"sent", "refused"}
        /\ UNCHANGED <<host, changes, stored, record>>
    BY <1>2 DEF AgentSends
  <2>2. \/ request' = request
        \/ \E type \in AgentTypes, flags \in Flags :
             request' = AgentRequest(host, type, flags)
    BY <1>2 DEF AgentSends
  <2>3. (IsRequest(request))'
    BY <2>2, AgentTyped DEF SpecInv
  <2> QED
    BY <2>1, <2>3 DEF SpecInv, Granted
<1>3. CASE HostChanges
  <2>1. /\ phase \in {"sent", "accepted"} /\ phase' = phase
        /\ host' \in Hosts /\ changes < MaxChanges /\ changes' = changes + 1
        /\ UNCHANGED <<request, stored, record>>
    BY <1>3 DEF HostChanges
  <2>2. changes' \in 0 .. MaxChanges /\ changes' # 0
    BY <2>1, RequestsAssumption DEF SpecInv
  <2>3. (IsRequest(request))' /\ EffectiveSpec(request)' = EffectiveSpec(request)
        /\ Asked' = Asked
    BY <2>1 DEF SpecInv, Asked
  <2> QED
    BY <2>1, <2>2, <2>3 DEF SpecInv
<1>4. CASE CreateSandbox
  <2>1. phase = "sent" /\ UNCHANGED <<host, changes, request>>
    BY <1>4 DEF CreateSandbox
  <2>2. (IsRequest(request))' /\ EffectiveSpec(request)' = EffectiveSpec(request)
        /\ Asked' = Asked
    BY <2>1 DEF SpecInv, Asked
  <2>3. CASE phase' = "refused" /\ UNCHANGED <<stored, record>>
    BY <2>1, <2>2, <2>3 DEF SpecInv, Granted
  <2>4. CASE /\ EffectiveSpec(request) # <<>>
             /\ validateCreateSpec(host, Asked)
             /\ phase' = "accepted"
             /\ stored' = expandPaths(Asked)
             /\ record' = cloneCreateSpec(expandPaths(Asked))
    BY <2>1, <2>2, <2>4 DEF SpecInv, Granted
  <2> QED
    BY <1>4, <2>3, <2>4 DEF CreateSandbox, Asked
<1>5. CASE UNCHANGED createVars
  BY <1>5, SpecFrame DEF createVars, requestVars
<1>6. CASE Materialize
  BY <1>6, SpecFrame DEF Materialize, FailsAt, Granted
<1>7. CASE CreatePrimary
  BY <1>7, SpecFrame DEF CreatePrimary, Granted
<1>8. CASE CopyBegins \/ CopyMoves \/ CopyBreaks
  BY <1>8, SpecFrame DEF CopyBegins, CopyMoves, CopyBreaks, requestVars
<1>9. CASE CopyReturns
  <2>1. /\ phase = "copying" /\ phase' \in {"copying", "failed"}
        /\ UNCHANGED <<host, changes, request, stored, record>>
    BY <1>9 DEF CopyReturns, FailsAt
  <2> QED
    BY <2>1, SpecFrame DEF Granted
<1>10. CASE StartPrimary
  BY <1>10, SpecFrame DEF StartPrimary, Granted
<1>11. CASE DockerFails
  BY <1>11, SpecFrame DEF DockerFails, FailsAt, Granted
<1> QED
  BY <1>1, <1>2, <1>3, <1>4, <1>5, <1>6, <1>7, <1>8, <1>9, <1>10, <1>11
  DEF CreateNext, CopyStep

\* How a creation fails and what it has copied.
LEMMA FailureNext ==
  ASSUME SpecInv, PlanInv, FailureInv, ArchiveInv, [CreateNext]_createVars
  PROVE  FailureInv'
<1>1. CASE ClientSends \/ AgentSends \/ HostChanges
  BY <1>1 DEF FailureInv, ClientSends, AgentSends, HostChanges, copyVars, Granted
<1>2. CASE CreateSandbox
  <2>1. /\ phase = "sent" /\ phase' \in {"refused", "accepted"}
        /\ UNCHANGED <<container, copied, failure, client>>
    BY <1>2 DEF CreateSandbox, copyVars
  <2>2. container = <<>> /\ failure = "" /\ client = "idle"
    BY <2>1 DEF PlanInv, FailureInv, Built
  <2>3. copied = 0
    <3>1. record = EmptySpec
      BY <2>1 DEF SpecInv, Granted
    <3>2. Len(record.copies) = 0
      BY <3>1 DEF EmptySpec
    <3>3. copied \in 0 .. Len(record.copies)
      BY DEF FailureInv
    <3> QED
      BY <3>2, <3>3
  <2>4. Len(record'.copies) \in Nat
    <3>1. CASE record' = record
      <4>1. record = EmptySpec
        BY <2>1 DEF SpecInv, Granted
      <4>2. Len(EmptySpec.copies) = 0
        BY DEF EmptySpec
      <4> QED
        BY <3>1, <4>1, <4>2
    <3>2. CASE /\ EffectiveSpec(request) # <<>>
               /\ record' = cloneCreateSpec(expandPaths(Asked))
      <4>1. IsSpec(Asked)
        BY <3>2, EffectiveTyped DEF SpecInv, Asked
      <4>2. record' = expandPaths(Asked)
        BY <3>2, <4>1, Expanded
      <4>3. Len(expandPaths(Asked).copies) \in Nat
        BY <4>1, CopiesExpanded
      <4> QED
        BY <4>2, <4>3
    <3> QED
      BY <1>2, <3>1, <3>2 DEF CreateSandbox, Asked
  <2>5. copied' \in 0 .. Len(record'.copies) /\ ~(copied' > 0)
    BY <2>1, <2>3, <2>4
  <2> QED
    BY <2>1, <2>2, <2>5 DEF FailureInv, Granted
<1>3. CASE Materialize
  <2>1. /\ phase = "accepted"
        /\ \/ phase' = "materialized" /\ failure' = failure
           \/ phase' = "failed" /\ failure' = "materialize"
        /\ UNCHANGED <<record, container, copied, client>>
    BY <1>3 DEF Materialize, FailsAt, copyVars
  <2> QED
    BY <2>1 DEF FailureInv, Granted
<1>4. CASE CreatePrimary
  <2>1. /\ phase = "materialized" /\ phase' = "copying"
        /\ container' # <<>>
        /\ UNCHANGED <<record, copied, failure, client>>
    BY <1>4 DEF CreatePrimary, copyVars
  <2> QED
    BY <2>1 DEF FailureInv, Granted
<1>5. CASE CopyBegins
  BY <1>5 DEF CopyBegins, StartCopy, requestVars, FailureInv, Granted
<1>6. CASE CopyMoves \/ CopyBreaks
  <2>1. client # "idle" /\ UNCHANGED <<phase, record, container, copied, failure>>
    BY <1>6 DEF CopyMoves, CopyBreaks, ArchiveStep, Skip, WriteEntry, WalkEnds,
                Walking, ClientEnds, ClientBreaks, requestVars
  <2> QED
    BY <2>1 DEF FailureInv, Granted
<1>7. CASE CopyReturns
  <2>1. /\ phase = "copying" /\ client # "idle" /\ client' = "idle"
        /\ \/ copied' = copied + 1 /\ UNCHANGED <<phase, failure>>
           \/ phase' = "failed" /\ failure' = "copy" /\ UNCHANGED copied
        /\ UNCHANGED <<record, container>>
    BY <1>7 DEF CopyReturns, dockerCopyToContainer, FailsAt
  <2>2. container # <<>>
    BY <2>1 DEF PlanInv, Built
  <2>3. Len(record.copies) \in Nat /\ copied < Len(record.copies)
    BY <2>1, RecordValid DEF FailureInv, Granted
  <2>4. copied' \in 0 .. Len(record'.copies)
    <3>1. copied \in 0 .. Len(record.copies)
      BY DEF FailureInv
    <3> QED
      BY <2>1, <2>3, <3>1
  <2>5. failure' \in {"", "materialize", "docker", "copy"}
        /\ (failure' # "" <=> phase' = "failed")
    BY <2>1 DEF FailureInv
  <2> QED
    BY <2>1, <2>2, <2>4, <2>5 DEF FailureInv, Granted
<1>8. CASE StartPrimary
  BY <1>8 DEF StartPrimary, copyVars, FailureInv, Granted
<1>9. CASE DockerFails
  <2>1. /\ phase \in {"materialized", "copying"} /\ phase' = "failed"
        /\ phase = "copying" => client = "idle"
        /\ failure' = "docker" /\ UNCHANGED <<record, container, copied, client>>
    BY <1>9 DEF DockerFails, FailsAt, copyVars
  <2> QED
    BY <2>1 DEF FailureInv, Granted
<1>10. CASE UNCHANGED createVars
  BY <1>10 DEF createVars, requestVars, copyVars, FailureInv, Granted
<1> QED
  BY <1>1, <1>2, <1>3, <1>4, <1>5, <1>6, <1>7, <1>8, <1>9, <1>10
  DEF CreateNext, CopyStep

\* Only an archive that ended well counts.
LEMMA WholeNext ==
  ASSUME FailureInv, WholeInv, [CreateNext]_createVars
  PROVE  WholeInv'
<1>1. CASE CopyBegins
  BY <1>1 DEF WholeInv, CopyBegins, StartCopy
<1>2. CASE CopyMoves \/ CopyBreaks
  <2>1. client # "idle" /\ client' # "idle"
    BY <1>2 DEF CopyMoves, CopyBreaks, ArchiveStep, Skip, WriteEntry, WalkEnds,
                Walking, ClientEnds, ClientBreaks
  <2> QED
    BY <2>1 DEF WholeInv
<1>3. CASE CopyReturns
  BY <1>3 DEF WholeInv, CopyReturns, dockerCopyToContainer, copyResult, FailsAt
<1>4. CASE UNCHANGED copyVars /\ UNCHANGED copied /\ (failure = "copy" => failure' = "copy")
  BY <1>4 DEF WholeInv, copyVars
<1>5. CASE ClientSends \/ AgentSends \/ HostChanges \/ CreateSandbox \/ CreatePrimary
           \/ StartPrimary
  BY <1>4, <1>5 DEF ClientSends, AgentSends, HostChanges, CreateSandbox,
                    CreatePrimary, StartPrimary
<1>6. CASE Materialize
  <2>1. phase = "accepted" /\ UNCHANGED <<copyVars, copied>>
    BY <1>6 DEF Materialize
  <2>2. failure # "copy"
    BY <2>1 DEF FailureInv
  <2> QED
    BY <1>4, <2>1, <2>2
<1>7. CASE DockerFails
  <2>1. phase \in {"materialized", "copying"} /\ UNCHANGED <<copyVars, copied>>
    BY <1>7 DEF DockerFails
  <2>2. failure # "copy"
    BY <2>1 DEF FailureInv
  <2> QED
    BY <1>4, <2>1, <2>2
<1>8. CASE UNCHANGED createVars
  BY <1>4, <1>8 DEF createVars, requestVars
<1> QED
  BY <1>1, <1>2, <1>3, <1>5, <1>6, <1>7, <1>8 DEF CreateNext, CopyStep

\* Where the record and what was built stay, PlanInv does.
LEMMA PlanFrame ==
  ASSUME PlanInv, UNCHANGED <<record, plan, container>>,
         phase' \in Built \cup {"materialized"} => phase \in Built \cup {"materialized"},
         phase' \in Built => phase \in Built,
         phase \in Built \cup {"failed"} => phase' \in Built \cup {"failed"}
  PROVE  PlanInv'
<1>1. MountsPlanned' <=> MountsPlanned
  BY DEF MountsPlanned
<1>2. (PrimaryOf(record, plan.mounts, plan.env))' = PrimaryOf(record, plan.mounts, plan.env)
  OBVIOUS
<1> QED
  BY <1>1, <1>2 DEF PlanInv

\* The runtime's plan and the container made from it.
LEMMA PlanNext ==
  ASSUME SpecInv, PlanInv, [CreateNext]_createVars
  PROVE  PlanInv'
<1>1. CASE ClientSends
  BY <1>1, PlanFrame DEF ClientSends, Built
<1>2. CASE AgentSends
  <2>1. phase = "composing" /\ phase' \in {"sent", "refused"}
        /\ UNCHANGED <<record, plan, container>>
    BY <1>2 DEF AgentSends
  <2> QED
    BY <2>1, PlanFrame DEF Built
<1>3. CASE HostChanges
  BY <1>3, PlanFrame DEF HostChanges
<1>4. CASE CreateSandbox
  <2>1. /\ phase = "sent" /\ phase' \in {"refused", "accepted"}
        /\ UNCHANGED <<plan, container>>
    BY <1>4 DEF CreateSandbox
  <2>2. container = <<>>
    BY <2>1 DEF PlanInv, Built
  <2> QED
    BY <2>1, <2>2 DEF PlanInv, Built
<1>5. CASE Materialize
  <2> DEFINE mounts == PlannedMounts(host, record)
             env == materializeBuiltinTools(host, record.tools).env
  <2>1. phase = "accepted" /\ UNCHANGED <<record, container>>
    BY <1>5 DEF Materialize
  <2>2. container = <<>>
    BY <2>1 DEF PlanInv, Built
  <2>3. CASE phase' = "failed"
    BY <2>1, <2>2, <2>3 DEF PlanInv, Built
  <2>4. CASE /\ ensureUniqueMountTargets(mounts)
             /\ phase' = "materialized"
             /\ plan' = [mounts |-> mounts, env |-> env]
    <3>1. ToSet(record.tools) \subseteq Tools
      BY <2>1, RecordValid DEF Granted
    <3>2. reserved \notin DOMAIN env
      BY <3>1, ToolEnvFree
    <3>3. \A i \in DOMAIN record.mounts :
            LET m == record.mounts[i]
            IN  \E n \in ToSet(mounts) :
                  n.source = m.source /\ n.target = m.target /\ n.readOnly = ~m.writable
      BY PlanHolds
    <3>4. IsInjective(Targets(mounts))
      BY <2>4 DEF ensureUniqueMountTargets
    <3> HIDE DEF mounts, env
    <3>5. plan'.mounts = mounts /\ plan'.env = env
      BY <2>4
    <3>6. MountsPlanned'
      BY <2>1, <3>2, <3>3, <3>4, <3>5 DEF MountsPlanned
    <3> QED
      BY <2>1, <2>2, <2>4, <3>6 DEF PlanInv, Built
  <2> QED
    BY <1>5, <2>3, <2>4 DEF Materialize, FailsAt, PlannedMounts
<1>6. CASE CreatePrimary
  <2>1. /\ phase = "materialized" /\ phase' = "copying"
        /\ container' = <<PrimaryOf(record, plan.mounts, plan.env)>>
        /\ UNCHANGED <<record, plan>>
    BY <1>6 DEF CreatePrimary
  <2>2. MountsPlanned
    BY <2>1 DEF PlanInv
  <2>3. MountsPlanned'
    BY <2>1, <2>2 DEF MountsPlanned
  <2>4. container' # <<>>
    BY <2>1
  <2>5. (PrimaryOf(record, plan.mounts, plan.env))' =
          PrimaryOf(record, plan.mounts, plan.env)
    BY <2>1
  <2> QED
    BY <2>1, <2>3, <2>4, <2>5 DEF PlanInv, Built
<1>7. CASE CopyBegins \/ CopyMoves \/ CopyBreaks
  BY <1>7, PlanFrame DEF CopyBegins, CopyMoves, CopyBreaks, requestVars
<1>8. CASE CopyReturns
  <2>1. phase = "copying" /\ phase' \in {"copying", "failed"}
        /\ UNCHANGED <<record, plan, container>>
    BY <1>8 DEF CopyReturns, FailsAt
  <2> QED
    BY <2>1, PlanFrame DEF Built
<1>9. CASE StartPrimary
  BY <1>9, PlanFrame DEF StartPrimary, Built
<1>10. CASE DockerFails
  BY <1>10, PlanFrame DEF DockerFails, FailsAt, Built
<1>11. CASE UNCHANGED createVars
  BY <1>11, PlanFrame DEF createVars, requestVars
<1> QED
  BY <1>1, <1>2, <1>3, <1>4, <1>5, <1>6, <1>7, <1>8, <1>9, <1>10, <1>11
  DEF CreateNext, CopyStep

\* Why a request fails to materialize on the host it was accepted on.
LEMMA MaterializeFails ==
  ASSUME SpecInv, phase = "accepted", changes = 0,
         ~(/\ ParsesLimit(record.limit)
           /\ materializeBuiltinTools(host, record.tools).ok
           /\ materializeGenericMounts(host, record.mounts).ok
           /\ validateGenericCopies(host, record.copies)
           /\ ensureUniqueMountTargets(PlannedMounts(host, record)))
  PROVE  LET ids == mountIDs(record.tools)
             targets == {m.target : m \in ToSet(record.mounts)}
         IN \/ \E c \in ToSet(record.copies) : Lstat(host, c.source) = "socket"
            \/ \E id \in ids : ~capabilityMounts[id].optional /\ ~Available(host, id)
            \/ \E id \in ids : Available(host, id) /\ ToolTarget(id) \in targets
            \/ targets \cap LogTargets # {}
<1>1. phase \in Granted
  BY DEF Granted
<1>2. /\ \A item \in ToSet(record.mounts) \cup ToSet(record.copies) :
           Lstat(host, item.source) \in sourceKinds
      /\ ParsesLimit(record.limit)
  BY RecordOnHost
<1>3. IsInjective(Targets(record.mounts)) /\ ToSet(record.tools) \subseteq Tools
  BY <1>1, RecordValid
<1>4. CASE ~materializeBuiltinTools(host, record.tools).ok
  <2>1. \E id \in mountIDs(record.tools) :
          ~capabilityMounts[id].optional /\ ~Available(host, id)
    BY <1>4 DEF materializeBuiltinTools
  <2> QED
    BY <2>1
<1>5. materializeGenericMounts(host, record.mounts).ok
  BY <1>2 DEF materializeGenericMounts, sourceKinds
<1>6. CASE ~validateGenericCopies(host, record.copies)
  BY <1>2, <1>6 DEF validateGenericCopies, sourceKinds
<1>7. CASE ~ensureUniqueMountTargets(PlannedMounts(host, record))
  BY <1>3, <1>7, SharedTargets
<1> QED
  BY <1>2, <1>4, <1>5, <1>6, <1>7

\* Every step keeps AcceptedIsBuildable.
LEMMA AcceptedNext ==
  ASSUME SpecInv, FailureInv, AcceptedIsBuildable, [CreateNext]_createVars
  PROVE  AcceptedIsBuildable'
<1>1. CASE failure' # "materialize"
  BY <1>1 DEF AcceptedIsBuildable
<1>2. CASE UNCHANGED <<host, changes, record, failure>>
  <2>1. (AcceptedIsBuildable)' <=> AcceptedIsBuildable
    BY <1>2 DEF AcceptedIsBuildable
  <2> QED
    BY <2>1
<1>3. CASE Materialize
  <2>1. phase = "accepted" /\ UNCHANGED <<host, changes, record>>
    BY <1>3 DEF Materialize
  <2>2. CASE ~(/\ ParsesLimit(record.limit)
               /\ materializeBuiltinTools(host, record.tools).ok
               /\ materializeGenericMounts(host, record.mounts).ok
               /\ validateGenericCopies(host, record.copies)
               /\ ensureUniqueMountTargets(PlannedMounts(host, record)))
    <3> SUFFICES ASSUME changes = 0
                 PROVE  AcceptedIsBuildable'
      BY <2>1 DEF AcceptedIsBuildable
    <3>1. LET ids == mountIDs(record.tools)
              targets == {m.target : m \in ToSet(record.mounts)}
          IN \/ \E c \in ToSet(record.copies) : Lstat(host, c.source) = "socket"
             \/ \E id \in ids : ~capabilityMounts[id].optional /\ ~Available(host, id)
             \/ \E id \in ids : Available(host, id) /\ ToolTarget(id) \in targets
             \/ targets \cap LogTargets # {}
      BY <2>1, <2>2, MaterializeFails
    <3> QED
      BY <2>1, <3>1 DEF AcceptedIsBuildable
  <2>3. CASE failure' = failure
    BY <1>2, <2>1, <2>3
  <2> QED
    BY <1>3, <2>2, <2>3 DEF Materialize, PlannedMounts
<1>4. CASE ClientSends \/ AgentSends \/ CreatePrimary \/ StartPrimary
  BY <1>2, <1>4 DEF ClientSends, AgentSends, CreatePrimary, StartPrimary
<1>5. CASE HostChanges \/ CreateSandbox
  <2>1. phase \in {"sent", "accepted"} /\ failure' = failure
    BY <1>5 DEF HostChanges, CreateSandbox
  <2> QED
    BY <1>1, <2>1 DEF FailureInv
<1>6. CASE CopyBegins \/ CopyMoves \/ CopyBreaks \/ UNCHANGED createVars
  BY <1>2, <1>6 DEF CopyBegins, CopyMoves, CopyBreaks, requestVars, createVars
<1>7. CASE CopyReturns
  BY <1>1, <1>2, <1>7 DEF CopyReturns, FailsAt
<1>8. CASE DockerFails
  BY <1>1, <1>8 DEF DockerFails, FailsAt
<1> QED
  BY <1>3, <1>4, <1>5, <1>6, <1>7, <1>8 DEF CreateNext, CopyStep

\* CreateInv holds in every reachable state: Init establishes it and every
\* step keeps it.
THEOREM CreateInvariant == CreateSpecification => []CreateInv
<1>1. CreateInit => CreateInv
  BY InitInv
<1>2. CreateInv /\ [CreateNext]_createVars => CreateInv'
  <2> SUFFICES ASSUME CreateInv, [CreateNext]_createVars
               PROVE  CreateInv'
    OBVIOUS
  <2>1. /\ SpecInv /\ PlanInv /\ FailureInv /\ AcceptedIsBuildable
        /\ ArchiveInv /\ WholeInv
    BY DEF CreateInv
  <2>2. SpecInv' /\ PlanInv' /\ FailureInv'
    BY <2>1, SpecNext, PlanNext, FailureNext
  <2>3. AcceptedIsBuildable' /\ ArchiveInv' /\ WholeInv'
    BY <2>1, AcceptedNext, ArchiveNext, WholeNext
  <2> QED
    BY <2>2, <2>3 DEF CreateInv
<1> QED
  BY <1>1, <1>2, PTL DEF CreateSpecification

-----------------------------------------------------------------------------
(***************************************************************************)
(* The properties                                                          *)
(***************************************************************************)
\* Every variable keeps its kind of value, a stored spec has only absolute
\* paths, and a failed request says in which step it failed.
THEOREM CreateTypeCorrect == CreateSpecification => []CreateTypeOK
<1>1. CreateInv => CreateTypeOK
  <2> SUFFICES ASSUME CreateInv
               PROVE  CreateTypeOK
    OBVIOUS
  <2>1. SpecInv /\ FailureInv /\ ArchiveInv
    BY DEF CreateInv
  <2>2. ASSUME NEW spec \in {stored, record}
        PROVE  /\ DOMAIN spec = DOMAIN EmptySpec
               /\ \A item \in ToSet(spec.mounts) \cup ToSet(spec.copies) :
                    IsAbs(item.source) /\ IsAbs(item.target)
    <3>1. CASE phase \in Granted
      BY <2>1, <3>1, RecordFacts, RecordValid
    <3>2. CASE phase \notin Granted
      <4>1. spec = EmptySpec
        BY <2>1, <3>2 DEF SpecInv
      <4>2. ToSet(EmptySpec.mounts) = {} /\ ToSet(EmptySpec.copies) = {}
        BY DEF EmptySpec, ToSet
      <4> QED
        BY <4>1, <4>2
    <3> QED
      BY <3>1, <3>2
  <2>3. /\ changes \in 0 .. MaxChanges
        /\ phase \in {"composing", "sent", "refused", "accepted", "materialized",
                      "copying", "running", "failed"}
        /\ failure \in {"", "materialize", "docker", "copy"}
        /\ (failure # "") <=> (phase = "failed")
        /\ copied \in 0 .. Len(record.copies)
        /\ ArchiveTypeOK
    BY <2>1 DEF SpecInv, FailureInv, ArchiveInv, Granted
  <2> QED
    BY <2>2, <2>3 DEF CreateTypeOK
<1> QED
  BY <1>1, CreateInvariant, PTL

\* What the client is given is the beginning of what the walk should archive.
THEOREM ArchiveFaithfulCorrect == CreateSpecification => []ArchiveFaithful
<1>1. CreateInv => ArchiveFaithful
  BY InOrderFaithful DEF CreateInv
<1> QED
  BY <1>1, CreateInvariant, PTL

\* A copy that counts as done is whole.
THEOREM CopiedWholeCorrect == CreateSpecification => []CopiedWhole
<1>1. CreateInv => CopiedWhole
  <2> SUFFICES ASSUME CreateInv, copied > 0, client = "idle", failure # "copy"
               PROVE  ToSet(archive) = Wanted(tree) /\ ~Refused(tree)
    BY DEF CopiedWhole
  <2>1. tarEnd = "ok"
    BY DEF CreateInv, WholeInv
  <2> QED
    BY <2>1, EndedWellWhole DEF CreateInv
<1> QED
  BY <1>1, CreateInvariant, PTL

\* A request accepted on a host that has not changed since fails to
\* materialize only for the reasons the property lists.
THEOREM AcceptedIsBuildableCorrect == CreateSpecification => []AcceptedIsBuildable
<1>1. CreateInv => AcceptedIsBuildable
  BY DEF CreateInv
<1> QED
  BY <1>1, CreateInvariant, PTL

\* A container is made from a valid record and its plan.
LEMMA ContainerFacts ==
  ASSUME CreateInv, container # <<>>
  PROVE  /\ SpecInv /\ phase \in Granted /\ MountsPlanned
         /\ container = <<PrimaryOf(record, plan.mounts, plan.env)>>
BY DEF CreateInv, PlanInv, Built, Granted

\* No two ports of a valid list share a host port and a protocol.
LEMMA PortsApart ==
  ASSUME NEW ports, validatePorts(ports),
         NEW i \in DOMAIN ports, NEW j \in DOMAIN ports,
         ports[i].host = ports[j].host, ports[i].proto = ports[j].proto
  PROVE  i = j
BY DEF validatePorts, IsInjective

\* No two mounts of a container share a target, and no host port is bound to
\* two container ports.
THEOREM NothingIsSharedCorrect == CreateSpecification => []NothingIsShared
<1>1. CreateInv => NothingIsShared
  <2> SUFFICES ASSUME CreateInv
               PROVE  NothingIsShared
    OBVIOUS
  <2>1. CASE container = <<>>
    BY <2>1 DEF NothingIsShared
  <2>2. CASE container # <<>>
    <3> DEFINE c == PrimaryOf(record, plan.mounts, plan.env)
    <3>1. /\ SpecInv /\ phase \in Granted /\ MountsPlanned
          /\ container = <<c>>
      BY <2>2, ContainerFacts
    <3>2. c.mounts = plan.mounts /\ c.ports = buildPortBindings(record.ports)
      BY DEF PrimaryOf
    <3> HIDE DEF c
    <3>3. \A m, n \in DOMAIN c.mounts : c.mounts[m].target = c.mounts[n].target => m = n
      BY <3>1, <3>2 DEF MountsPlanned, IsInjective, Targets
    <3>4. validatePorts(record.ports)
      BY <3>1, RecordValid
    <3>5. \A i, j \in DOMAIN record.ports :
            (/\ record.ports[i].host = record.ports[j].host
             /\ record.ports[i].proto = record.ports[j].proto) => i = j
      BY <3>4, PortsApart
    <3>6. ASSUME NEW k \in DOMAIN c.ports, NEW l \in DOMAIN c.ports,
                 k[2] = l[2], c.ports[k] \cap c.ports[l] # {}
          PROVE  k = l
      <4>1. /\ c.ports[k] = {p.host : p \in {q \in ToSet(record.ports) :
                                               <<q.container, q.proto>> = k}}
            /\ c.ports[l] = {p.host : p \in {q \in ToSet(record.ports) :
                                               <<q.container, q.proto>> = l}}
        BY <3>2, <3>6 DEF buildPortBindings
      <4>2. PICK p \in ToSet(record.ports), q \in ToSet(record.ports) :
              /\ <<p.container, p.proto>> = k /\ <<q.container, q.proto>> = l
              /\ p.host = q.host
        BY <3>6, <4>1
      <4>3. p.proto = q.proto
        BY <3>6, <4>2
      <4>4. p = q
        BY <3>5, <4>2, <4>3 DEF ToSet
      <4> QED
        BY <4>2, <4>4
    <3> QED
      BY <3>1, <3>3, <3>6 DEF NothingIsShared
  <2> QED
    BY <2>1, <2>2
<1> QED
  BY <1>1, CreateInvariant, PTL

\* A number below the modulus is its own remainder.
LEMMA ModSmall ==
  ASSUME NEW n \in Nat, NEW x \in 0 .. n - 1
  PROVE  x % n = x
OBVIOUS

\* A duration that fits does not wrap.
LEMMA WrappedSmall ==
  ASSUME NEW d \in Nat, d < DurationLimit
  PROVE  Wrapped(d) = d
<1> DEFINE n == 2 * DurationLimit
           x == d + DurationLimit
<1>1. DurationLimit \in Nat
  BY WidthAssumption
<1>2. n \in Nat /\ x \in 0 .. n - 1
  BY <1>1
<1> HIDE DEF n, x
<1>3. x % n = x
  BY <1>2, ModSmall
<1>4. x - DurationLimit = d
  BY <1>1 DEF x
<1>5. (x % n) - DurationLimit = d
  BY <1>3, <1>4
<1> QED
  BY <1>5 DEF Wrapped, n, x

\* Products of natural numbers grow with their factors.
LEMMA TimesGrows ==
  ASSUME NEW a \in Nat, NEW b \in Nat, NEW c \in Nat, NEW d \in Nat,
         b <= a, d <= c
  PROVE  b * d <= a * c /\ a * c \in Nat /\ b * d \in Nat
<1>1. \A x, y \in Nat : x * y \in Nat
  OBVIOUS
<1>2. a * c = (a - b) * c + b * c
  OBVIOUS
<1>3. b * c = b * (c - d) + b * d
  OBVIOUS
<1>4. (a - b) * c \in Nat /\ b * (c - d) \in Nat /\ b * d \in Nat /\ a * c \in Nat
  BY <1>1
<1> DEFINE ac == a * c  bd == b * d  bc == b * c
           u == (a - b) * c  v == b * (c - d)
<1>5. /\ ac = u + bc /\ bc = v + bd
      /\ u \in Nat /\ v \in Nat /\ bd \in Nat /\ ac \in Nat
  BY <1>2, <1>3, <1>4
<1> HIDE DEF ac, bd, bc, u, v
<1>6. bd <= ac /\ ac \in Nat /\ bd \in Nat
  BY <1>5
<1> QED
  BY <1>6 DEF ac, bd

\* The bound is the time the checks take, or five minutes.
LEMMA WaitLong ==
  ASSUME NEW h \in Healthcheck, h.retries < RetryLimit - 1,
         ChecksTake(h, retries(h) + 1) < DurationLimit
  PROVE  \/ companionContainerHealthWaitUpperBound(h) = maxUpperBound
         \/ companionContainerHealthWaitUpperBound(h) >=
              h.startPeriod + interval(h) * retries(h)
<1> DEFINE r == retries(h)
           i == interval(h)
           s == h.startPeriod
           t == protoOrDefault(h.timeout, 30)
           g == IF s > 0 THEN MaxOf(protoOrDefault(h.startInterval,
                                                   IF s > 0 THEN 5 ELSE 0), t)
                         ELSE 0
           take == ChecksTake(h, r + 1)
<1>1. /\ h.retries \in Nat /\ h.startPeriod \in Nat /\ h.interval \in Nat
      /\ h.timeout \in Nat /\ h.startInterval \in Nat /\ RetryLimit \in Nat
      /\ RetryLimit > 4
  BY WidthAssumption DEF Healthcheck
<1>2. r \in Nat /\ r + 1 < RetryLimit
  BY <1>1 DEF retries, protoOrDefault
<1>3. i \in Nat /\ s \in Nat /\ t \in Nat
  BY <1>1 DEF interval, protoOrDefault
<1>4. g \in Nat
  BY <1>1, <1>3 DEF protoOrDefault, MaxOf
<1>5. MaxOf(i, t) \in Nat /\ i <= MaxOf(i, t)
  BY <1>3 DEF MaxOf
<1>6. take = s + g + MaxOf(i, t) * (r + 1)
  BY DEF ChecksTake
<1>7. (r + 1) % RetryLimit = r + 1
  <2>1. r + 1 \in 0 .. RetryLimit - 1
    BY <1>1, <1>2
  <2> QED
    BY <1>1, <2>1, ModSmall
<1> DEFINE m == MaxOf(i, t)
<1> HIDE DEF m, g, s, t, i, r
<1>8. i * r <= m * (r + 1) /\ m * (r + 1) \in Nat /\ i * r \in Nat
  <2>1. m \in Nat /\ i \in Nat /\ r \in Nat /\ r + 1 \in Nat /\ i <= m /\ r <= r + 1
    BY <1>2, <1>3, <1>5 DEF m
  <2> QED
    BY ONLY <2>1, TimesGrows
<1> DEFINE product == m * (r + 1)
           least == i * r
<1>9. least \in Nat /\ product \in Nat /\ least <= product /\ take = s + g + product
  BY <1>6, <1>8 DEF m
<1> HIDE DEF product, least, take
<1>10. take \in Nat /\ take >= s + least
  BY <1>3, <1>4, <1>9
<1>11. Wrapped(take) = take
  <2>1. take < DurationLimit
    BY DEF take, r
  <2> QED
    BY <1>10, <2>1, WrappedSmall
<1>12. companionContainerHealthWaitUpperBound(h) = MinOf(take, maxUpperBound)
  BY <1>7, <1>11 DEF companionContainerHealthWaitUpperBound, take, r
<1>13. MinOf(take, maxUpperBound) = maxUpperBound \/ MinOf(take, maxUpperBound) >= s + least
  BY <1>10 DEF MinOf
<1> QED
  BY <1>12, <1>13 DEF s, least, i, r

\* The wait for a companion outlasts the checks that count.
THEOREM WaitOutlastsChecksCorrect == CreateSpecification => []WaitOutlastsChecks
<1>1. CreateInv => WaitOutlastsChecks
  <2> SUFFICES ASSUME CreateInv, container # <<>>
               PROVE  WaitOutlastsChecks
    BY DEF WaitOutlastsChecks
  <2> DEFINE c == PrimaryOf(record, plan.mounts, plan.env)
  <2>1. /\ SpecInv /\ phase \in Granted /\ container = <<c>>
    BY ContainerFacts
  <2>2. c.companions = [j \in DOMAIN record.companions |->
                          CompanionOf(record.companions[j])]
    BY DEF PrimaryOf
  <2>3. \A j \in DOMAIN record.companions : record.companions[j].health \in Seq(Healthcheck)
    <3>1. record.companions = Asked.companions /\ IsSpec(Asked)
      BY <2>1, RecordFacts, FieldNames
    <3> SUFFICES ASSUME NEW j \in DOMAIN Asked.companions
                 PROVE  Asked.companions[j].health \in Seq(Healthcheck)
      BY <3>1
    <3> DEFINE Companion == [name : STRING, image : STRING, limit : STRING,
                             hooks : BOOLEAN, health : Seq(Healthcheck)]
    <3>2. \A x \in Companion : x.health \in Seq(Healthcheck)
      OBVIOUS
    <3>3. Asked.companions \in Seq(Companion)
      BY <3>1 DEF IsSpec, ListsTyped
    <3> HIDE DEF Companion
    <3>4. Asked.companions[j] \in Companion
      BY <3>3
    <3> QED
      BY <3>2, <3>4
  <2> HIDE DEF c
  <2>4. ASSUME NEW j \in DOMAIN record.companions,
               CompanionOf(record.companions[j]).wait # <<>>,
               record.companions[j].health[1].retries < RetryLimit - 1,
               ChecksTake(record.companions[j].health[1],
                          retries(record.companions[j].health[1]) + 1) < DurationLimit
        PROVE  LET cc == record.companions[j]
                   wait == CompanionOf(record.companions[j]).wait
               IN \/ wait[1] = maxUpperBound
                  \/ wait[1] >= cc.health[1].startPeriod
                                  + interval(cc.health[1]) * retries(cc.health[1])
    <3> DEFINE cc == record.companions[j]
               h == cc.health[1]
    <3>1. /\ cc.health # <<>>
          /\ CompanionOf(cc).wait = <<companionContainerHealthWaitUpperBound(h)>>
      BY <2>4 DEF CompanionOf
    <3>2. h \in Healthcheck
      BY <2>3, <3>1
    <3>3. CompanionOf(cc).wait[1] = companionContainerHealthWaitUpperBound(h)
      BY <3>1
    <3>4. \/ companionContainerHealthWaitUpperBound(h) = maxUpperBound
          \/ companionContainerHealthWaitUpperBound(h) >=
               h.startPeriod + interval(h) * retries(h)
      BY <2>4, <3>2, WaitLong
    <3> QED
      BY <3>3, <3>4
  <2>5. \A i \in DOMAIN container : container[i] = c
    BY <2>1
  <2>6. /\ DOMAIN c.companions = DOMAIN record.companions
        /\ \A j \in DOMAIN record.companions :
             c.companions[j] = CompanionOf(record.companions[j])
    BY <2>2
  <2> QED
    BY <2>4, <2>5, <2>6 DEF WaitOutlastsChecks
<1> QED
  BY <1>1, CreateInvariant, PTL

\* What was asked for in either half of a request is what runs.
THEOREM RunsWhatWasAskedCorrect == CreateSpecification => []RunsWhatWasAsked
<1>1. CreateInv => RunsWhatWasAsked
  <2> SUFFICES ASSUME CreateInv, phase = "running"
               PROVE  RunsWhatWasAsked
    BY DEF RunsWhatWasAsked
  <2> DEFINE c == PrimaryOf(record, plan.mounts, plan.env)
             groups == IF record.gpus = "all" THEN GPUGroups ELSE {}
             halves == ToSet(Halves(request))
             override == Halves(request)[Len(Halves(request))]
  <2>1. /\ SpecInv /\ phase \in Granted /\ MountsPlanned /\ container[1] = c
    <3>1. container # <<>>
      BY DEF CreateInv, PlanInv, Built
    <3> QED
      BY <3>1, ContainerFacts
  <2>2. /\ c.image = record.image /\ c.limit = record.limit /\ c.gpus = record.gpus
        /\ c.labels = record.labels
        /\ c.command = primaryContainerCommand(record.command)
        /\ c.mounts = plan.mounts /\ c.ports = buildPortBindings(record.ports)
        /\ c.env = primaryEnv(plan.mounts, plan.env, record.envs, groups)
        /\ c.companions = [j \in DOMAIN record.companions |->
                             CompanionOf(record.companions[j])]
    BY DEF PrimaryOf
  <2>3. /\ IsSpec(Asked) /\ record = stored /\ record = expandPaths(Asked)
        /\ \A f \in DOMAIN EmptySpec \ {"mounts", "copies"} : record[f] = Asked[f]
    BY <2>1, RecordFacts
  <2>4. /\ record.image = Asked.image /\ record.limit = Asked.limit
        /\ record.gpus = Asked.gpus /\ record.command = Asked.command
        /\ record.ports = Asked.ports /\ record.companions = Asked.companions
        /\ record.labels = Asked.labels /\ record.envs = Asked.envs
    BY <2>3, FieldNames
  <2>5. IsRequest(request) /\ EffectiveSpec(request) # <<>>
    BY <2>1 DEF SpecInv
  <2>6. /\ \A f \in Scalars : Asked[f] = Winner(request, f, "")
        /\ Asked.command = Winner(request, "command", <<>>)
        /\ \A half \in halves : IsSpec(half) /\ Takes(Asked, half)
        /\ Prefers(Asked, override)
        /\ \A half \in halves : \A k \in DOMAIN half.envs :
             Asked.envs[k] \in {h.envs[k] : h \in {x \in halves : k \in DOMAIN x.envs}}
    BY <2>5, AskedOfHalves DEF Asked
  <2>7. reserved \notin DOMAIN record.envs /\ reserved \notin DOMAIN plan.env
    BY <2>1, RecordValid DEF MountsPlanned
  <2>8. /\ DOMAIN record.envs \subseteq DOMAIN c.env
        /\ \A k \in DOMAIN record.envs : c.env[k] = record.envs[k]
        /\ \A k \in DOMAIN plan.env \ DOMAIN record.envs : c.env[k] = plan.env[k]
        /\ reserved \in DOMAIN c.env <=> groups # {}
    <3>1. LET e == primaryEnv(plan.mounts, plan.env, record.envs, groups) IN
          /\ DOMAIN record.envs \subseteq DOMAIN e
          /\ \A k \in DOMAIN record.envs : e[k] = record.envs[k]
          /\ \A k \in DOMAIN plan.env \ DOMAIN record.envs : e[k] = plan.env[k]
          /\ reserved \in DOMAIN e <=> groups # {}
      BY <2>7, EnvFacts
    <3> HIDE DEF c, groups
    <3> QED
      BY <2>2, <3>1
  <2>9. reserved \in DOMAIN c.env <=> (c.gpus = "all" /\ GPUGroups # {})
    <3>1. groups # {} <=> (record.gpus = "all" /\ GPUGroups # {})
      OBVIOUS
    <3> HIDE DEF c, groups
    <3> QED
      BY <2>2, <2>8, <3>1
  <2> HIDE DEF c, groups, halves, override
  <2>10. /\ c.image = Winner(request, "image", "")
         /\ c.limit = Winner(request, "limit", "")
         /\ c.gpus = Winner(request, "gpus", "")
         /\ c.command = primaryContainerCommand(Winner(request, "command", <<>>))
    BY <2>2, <2>4, <2>6 DEF Scalars
  <2>11. ASSUME NEW half \in halves
         PROVE  \A m \in ToSet(expandPaths(half).mounts) :
                  \E n \in ToSet(c.mounts) :
                    n.source = m.source /\ n.target = m.target
                    /\ n.readOnly = ~m.writable
    <3> SUFFICES ASSUME NEW i \in DOMAIN expandPaths(half).mounts
                 PROVE  LET m == expandPaths(half).mounts[i]
                        IN  \E n \in ToSet(c.mounts) :
                              n.source = m.source /\ n.target = m.target
                              /\ n.readOnly = ~m.writable
      BY DEF ToSet
    <3>1. IsSpec(half) /\ Takes(Asked, half)
      BY <2>6
    <3> DEFINE m == expandPaths(half).mounts[i]
    <3>2. /\ i \in DOMAIN half.mounts
          /\ m.source = expandHomePath(half.mounts[i].source)
          /\ m.target = expandContainerHomePath(half.mounts[i].target)
          /\ m.writable = half.mounts[i].writable
      BY <3>1, MountsExpanded
    <3>3. PICK j \in DOMAIN Asked.mounts : Asked.mounts[j] = half.mounts[i]
      BY <3>1, <3>2 DEF Takes, Appended, ToSet
    <3>4. /\ j \in DOMAIN record.mounts
          /\ record.mounts[j].source = expandHomePath(Asked.mounts[j].source)
          /\ record.mounts[j].target = expandContainerHomePath(Asked.mounts[j].target)
          /\ record.mounts[j].writable = Asked.mounts[j].writable
      BY <2>3, MountsExpanded
    <3>5. \E n \in ToSet(plan.mounts) : /\ n.source = record.mounts[j].source
                                        /\ n.target = record.mounts[j].target
                                        /\ n.readOnly = ~record.mounts[j].writable
      BY <2>1, <3>4 DEF MountsPlanned
    <3> HIDE DEF m
    <3>6. /\ m.source = record.mounts[j].source /\ m.target = record.mounts[j].target
          /\ m.writable = record.mounts[j].writable
      BY <3>2, <3>3, <3>4
    <3>7. \E n \in ToSet(c.mounts) : /\ n.source = m.source /\ n.target = m.target
                                     /\ n.readOnly = ~m.writable
      BY <2>2, <3>5, <3>6
    <3> QED
      BY <3>7 DEF m
  <2>12. ASSUME NEW half \in halves, NEW p \in ToSet(half.ports)
         PROVE  p.host \in c.ports[<<p.container, p.proto>>]
    <3>1. p \in ToSet(record.ports)
      BY <2>4, <2>6, <2>12 DEF Takes, Appended
    <3> DEFINE key == <<p.container, p.proto>>
    <3>2. key \in {<<q.container, q.proto>> : q \in ToSet(record.ports)}
      BY <3>1
    <3>3. c.ports[key] =
            {q.host : q \in {x \in ToSet(record.ports) : <<x.container, x.proto>> = key}}
      BY <2>2, <3>2 DEF buildPortBindings
    <3> QED
      BY <3>1, <3>3
  <2>13. ASSUME NEW half \in halves, NEW cc \in ToSet(half.companions)
         PROVE  \E d \in ToSet(c.companions) :
                  d.name = cc.name /\ d.image = cc.image /\ d.limit = cc.limit
    <3>1. cc \in ToSet(record.companions)
      BY <2>4, <2>6, <2>13 DEF Takes, Appended
    <3>2. PICK j \in DOMAIN record.companions : record.companions[j] = cc
      BY <3>1 DEF ToSet
    <3>3. c.companions[j] = CompanionOf(cc) /\ c.companions[j] \in ToSet(c.companions)
      BY <2>2, <3>2 DEF ToSet
    <3>4. /\ CompanionOf(cc).name = cc.name /\ CompanionOf(cc).image = cc.image
          /\ CompanionOf(cc).limit = cc.limit
      BY DEF CompanionOf
    <3> QED
      BY <3>3, <3>4
  <2>14. ASSUME NEW half \in halves
         PROVE  DOMAIN half.envs \subseteq DOMAIN c.env
                /\ DOMAIN half.labels \subseteq DOMAIN c.labels
    BY <2>2, <2>4, <2>6, <2>8 DEF Takes
  <2>15. /\ \A k \in DOMAIN override.envs : c.env[k] = override.envs[k]
         /\ \A k \in DOMAIN override.labels : c.labels[k] = override.labels[k]
    <3>1. override \in halves
      <4>1. Halves(request) # <<>> /\ Len(Halves(request)) \in DOMAIN Halves(request)
        BY <2>5, HalvesCases
      <4> QED
        BY <4>1 DEF halves, override, ToSet
    <3>2. ASSUME NEW k \in DOMAIN override.envs
          PROVE  c.env[k] = override.envs[k]
      <4>1. k \in DOMAIN record.envs
        BY <2>4, <2>6, <3>1 DEF Takes
      <4>2. c.env[k] = Asked.envs[k]
        BY <2>4, <2>8, <4>1
      <4>3. Asked.envs[k] = override.envs[k]
        BY <2>6 DEF Prefers
      <4> QED
        BY <4>2, <4>3
    <3>3. ASSUME NEW k \in DOMAIN override.labels
          PROVE  c.labels[k] = override.labels[k]
      <4>1. c.labels = Asked.labels
        BY <2>2, <2>4
      <4>2. Asked.labels[k] = override.labels[k]
        BY <2>6 DEF Prefers
      <4> QED
        BY <4>1, <4>2
    <3> QED
      BY <3>2, <3>3
  <2>16. ASSUME NEW half \in halves, NEW k \in DOMAIN half.envs
         PROVE  c.env[k] \in {h.envs[k] : h \in {x \in halves : k \in DOMAIN x.envs}}
    <3>1. k \in DOMAIN record.envs
      BY <2>4, <2>6, <2>16 DEF Takes
    <3>2. c.env[k] = Asked.envs[k]
      BY <2>4, <2>8, <3>1
    <3> QED
      BY <2>6, <3>2
  <2>17. \A half \in halves :
            /\ \A m \in ToSet(expandPaths(half).mounts) :
                 \E n \in ToSet(c.mounts) :
                   n.source = m.source /\ n.target = m.target
                   /\ n.readOnly = ~m.writable
            /\ \A p \in ToSet(half.ports) :
                 p.host \in c.ports[<<p.container, p.proto>>]
            /\ \A cc \in ToSet(half.companions) :
                 \E d \in ToSet(c.companions) :
                   d.name = cc.name /\ d.image = cc.image /\ d.limit = cc.limit
            /\ DOMAIN half.envs \subseteq DOMAIN c.env
            /\ DOMAIN half.labels \subseteq DOMAIN c.labels
    BY <2>11, <2>12, <2>13, <2>14
  <2>18. \A half \in halves : \A k \in DOMAIN half.envs :
            c.env[k] \in {h.envs[k] : h \in {x \in halves : k \in DOMAIN x.envs}}
    BY <2>16
  <2>19. stored = record /\ container[1] = c
    BY <2>1, <2>3
  <2> QED
    BY <2>8, <2>9, <2>10, <2>15, <2>17, <2>18, <2>19, ZenonT(60)
    DEF RunsWhatWasAsked, halves, override
<1> QED
  BY <1>1, CreateInvariant, PTL
=============================================================================
