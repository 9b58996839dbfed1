---------------------------- MODULE CopyArchive ----------------------------
(***************************************************************************)
(* The copy of one host source into a created, not yet started container:  *)
(* dockerCopyToContainer (docker_runtime_dockerapi.go) runs buildCopyTar   *)
(* (docker_runtime_copy.go) in a goroutine at one end of a pipe and the    *)
(* Docker client, which reads the archive and extracts it, at the other.   *)
(*                                                                         *)
(* A source tree lists its entries in the order WalkDir visits them        *)
(* (lexical, a directory before what it holds):                            *)
(*   top       "dir", or "file" when the source is a single file           *)
(*   kind      of each entry: "dir", "file", "insideLink", "outsideLink"   *)
(*             (a symbolic link by where its target resolves), "unread" (a *)
(*             file that cannot be opened, after its header was written)   *)
(*   last      of each entry, the last entry it holds, or the entry itself *)
(*   excluded  the entries an exclude pattern matches                      *)
(*   ignored   the entries the source's .gitignore matches                 *)
(***************************************************************************)
EXTENDS Integers, Sequences

CONSTANT
  Trees \* the source trees that are copied

VARIABLES
  tree,    \* the tree being copied
  next,    \* the entry the walk visits next
  archive, \* the entries the client has read, in order
  tarEnd,  \* how buildCopyTar ended: "none", "ok" or "error"
  pipe,    \* "open", "eof" (writer closed) or "broken" (reader closed)
  client   \* "idle", "reading", "ok" or "error"

copyVars == <<tree, next, archive, tarEnd, pipe, client>>

Entries(t) == DOMAIN t.kind
Below(t, n) == n .. t.last[n]
Above(t, n) == {a \in Entries(t) : n \in Below(t, a)}

\* Only directories hold anything, and what they hold as a whole.
ASSUME TreesAssumption ==
  /\ Trees # {}
  /\ \A t \in Trees :
       /\ t.top \in {"dir", "file"}
       /\ t.kind \in Seq({"dir", "file", "insideLink", "outsideLink", "unread"})
       /\ t.top = "file" => Len(t.kind) = 1
       /\ \A n \in Entries(t) :
            /\ t.last[n] \in n .. Len(t.kind)
            /\ t.kind[n] # "dir" => t.last[n] = n
            /\ \A m \in Below(t, n) : t.last[m] <= t.last[n]

\* Does a directory hold a symbolic link that resolves outside the source?
\* Excluded entries are looked at too.
dirContainsExternalSymlink(t, n) ==
  \E m \in Below(t, n) : t.kind[m] = "outsideLink"

IgnoredWhole(t, n) ==
  /\ t.kind[n] = "dir"
  /\ n \in t.ignored
  /\ dirContainsExternalSymlink(t, n)

\* The order of the checks is the order of the code: the exclude patterns
\* before anything else, whatever the entry is.
verdictLinkFirst(t, n) ==
  IF t.kind[n] = "outsideLink" /\ n \notin t.ignored THEN "refuse"
  ELSE IF \/ n \in t.excluded \/ IgnoredWhole(t, n)
          \/ t.kind[n] = "outsideLink"
  THEN "skip" ELSE "write"

\* The function WalkDir calls, with writeTarSymlink.
verdict(t, n) ==
  IF \/ n \in t.excluded \/ IgnoredWhole(t, n)
     \/ t.kind[n] = "outsideLink" /\ n \in t.ignored
  THEN "skip"
  ELSE IF t.kind[n] = "outsideLink" THEN "refuse" ELSE "write"

\* filepath.SkipDir passes over a directory with all it holds.
After(t, n) ==
  IF verdict(t, n) = "skip" THEN t.last[n] + 1 ELSE n + 1

CopyIdle(t) ==
  /\ tree = t /\ next = 1 /\ archive = <<>>
  /\ tarEnd = "none" /\ pipe = "open" /\ client = "idle"

StartCopy ==
  /\ tree' \in Trees
  /\ next' = 1 /\ archive' = <<>>
  /\ tarEnd' = "none" /\ pipe' = "open" /\ client' = "reading"

Walking == client # "idle" /\ tarEnd = "none"
LastEntry == IF tree.top = "file" THEN 1 ELSE Len(tree.kind)

\* closeAll: the archive and the pipe are closed however the walk ended, and
\* the first error is returned.
closeAllOnSuccess(result) ==
  /\ tarEnd' = result
  /\ pipe' = IF result = "ok" /\ pipe = "open" THEN "eof" ELSE pipe
closeAll(result) ==
  /\ tarEnd' = result
  /\ pipe' = IF pipe = "open" THEN "eof" ELSE pipe

Skip ==
  /\ Walking /\ next <= LastEntry /\ tree.top = "dir"
  /\ verdict(tree, next) = "skip"
  /\ next' = After(tree, next)
  /\ UNCHANGED <<tree, archive, tarEnd, pipe, client>>

\* A write blocks until the client reads it. A broken pipe, a refused link
\* and a file that cannot be opened end the walk with an error.
WriteEntry ==
  LET refused == tree.top = "dir" /\ verdict(tree, next) = "refuse" IN
  /\ Walking /\ next <= LastEntry
  /\ tree.top = "file" \/ verdict(tree, next) # "skip"
  /\ \/ /\ refused \/ pipe = "broken"
        /\ closeAll("error")
        /\ UNCHANGED <<next, archive>>
     \/ /\ ~refused /\ pipe = "open" /\ client = "reading"
        /\ archive' = Append(archive, next)
        /\ IF tree.kind[next] = "unread"
           THEN closeAll("error") /\ UNCHANGED next
           ELSE next' = next + 1 /\ UNCHANGED <<tarEnd, pipe>>
  /\ UNCHANGED <<tree, client>>

WalkEnds ==
  /\ Walking /\ next > LastEntry
  /\ closeAll(IF pipe = "broken" THEN "error" ELSE "ok")
  /\ UNCHANGED <<tree, next, archive, client>>

\* The client answers when it has read to the end of the pipe; Docker may
\* have refused what it read. An archive cut short by an error still ends
\* the pipe, so Docker may accept it.
ClientEnds ==
  /\ client = "reading" /\ pipe = "eof"
  /\ client' \in {"ok", "error"}
  /\ UNCHANGED <<tree, next, archive, tarEnd, pipe>>

\* Docker may also refuse at once; the client then closes the body it was
\* given, and the writer's next write fails.
ClientBreaks ==
  /\ client = "reading" /\ pipe = "open"
  /\ client' = "error" /\ pipe' = "broken"
  /\ UNCHANGED <<tree, next, archive, tarEnd>>

\* The client's error first, then buildCopyTar's.
copyResultOfClient(c, t) == IF c = "ok" THEN "ok" ELSE "error"
copyResult(c, t) == IF c = "ok" /\ t = "ok" THEN "ok" ELSE "error"

dockerCopyToContainer ==
  /\ client \in {"ok", "error"} /\ tarEnd # "none"
  /\ client' = "idle"
  /\ UNCHANGED <<tree, next, archive, tarEnd, pipe>>

ArchiveStep == Skip \/ WriteEntry \/ WalkEnds

---------------------------------------------------------------------------
(* What the comment of buildCopyTar promises, without the walk. *)

Passed(t, n) ==
  \/ \E a \in Above(t, n) : a \in t.excluded \/ IgnoredWhole(t, a)
  \/ t.kind[n] = "outsideLink" /\ n \in t.ignored

Wanted(t) ==
  IF t.top = "file" THEN {1} ELSE {n \in Entries(t) : ~Passed(t, n)}

Refused(t) ==
  \E n \in Wanted(t) :
    t.kind[n] = "unread" \/ (t.top = "dir" /\ t.kind[n] = "outsideLink")

\* The walk and the pipe are at known points (a part of CreateTypeOK).
ArchiveTypeOK ==
  /\ tree.top \in {"dir", "file"}
  /\ next \in 1 .. Len(tree.kind) + 1
  /\ archive \in Seq(Entries(tree))
  /\ tarEnd \in {"none", "ok", "error"}
  /\ pipe \in {"open", "eof", "broken"}
  /\ client \in {"idle", "reading", "ok", "error"}

\* What the client is given is at every moment the beginning of what the
\* walk should archive: an entry after the directory that holds it, nothing
\* excluded, nothing of an ignored directory with a link out of the source,
\* and no link out of the source. A link out of the source in an excluded
\* directory stops nothing (buildCopyTar, writeTarSymlink).
ArchiveFaithful ==
  /\ \A i \in DOMAIN archive :
       /\ archive[i] \in Wanted(tree)
       /\ tree.top = "dir" => tree.kind[archive[i]] # "outsideLink"
       /\ \A m \in Wanted(tree) :
            m < archive[i] => \E j \in 1 .. i - 1 : archive[j] = m
  /\ tarEnd = "error" => (Refused(tree) \/ pipe = "broken")
===========================================================================
