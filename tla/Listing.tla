------------------------------ MODULE Listing -------------------------------
(***************************************************************************)
(* Listing the objects of a bucket page by page: ListObjects of the XL and *)
(* the FS layer and ListObjectsHeal (cmd/xl-v1-list-objects.go,            *)
(* cmd/fs-v1.go, cmd/xl-v1-list-objects-heal.go), the goroutine that walks *)
(* the directory tree ahead of the pages (cmd/tree-walk.go), and the pool  *)
(* where it waits for the next page under a timer (cmd/tree-walk-pool.go). *)
(*                                                                         *)
(* A name is a sequence of characters; only their order relative to the    *)
(* slash matters.  Objects are added and removed while listings are under  *)
(* way.                                                                    *)
(***************************************************************************)
EXTENDS Integers, Sequences, FiniteSets, SequencesExt

CONSTANTS
  Slash,               \* the character '/'
  Trees,               \* sets of objects a bucket may have at the start
  Lacking,             \* what each of the disks of XL may lack: a set of functions from disks to sets of objects
  NewObject,           \* objects that may be added
  Params,              \* the listings asked for: records [prefix, recursive, kind]
  MaxKeys,             \* names in a page
  maxObjectList,       \* names a walk is ahead of the pages
  Lister, MaxWalk, MaxObjChange, MaxTimer  \* clients, and bounds of walks, changes and timeouts

VARIABLES
  objs,                \* objects of the bucket
  lacks,               \* objects that a disk lacks
  walks,               \* walks that were started
  listPool,            \* the pool: in order, [params, marker, walk, timer]
  fired,               \* timers that went off and wait for the pool's lock: [walk, timer]
  cl,                  \* the clients
  objChanges, timers,
  panicked             \* a channel was closed twice

listVars == <<objs, lacks, walks, listPool, fired, cl, objChanges, timers, panicked>>

Disk == DOMAIN lacks
NoList == [pc |-> "idle"]

ListingInit ==
  /\ objs \in Trees /\ lacks \in Lacking /\ walks = <<>> /\ listPool = <<>> /\ fired = {}
  /\ cl = [c \in Lister |-> NoList] /\ objChanges = 0 /\ timers = 0 /\ panicked = FALSE

-----------------------------------------------------------------------------
(* Names.                                                                  *)
less(s, t) == \E k \in 1 .. Len(t) :
                /\ \A i \in 1 .. k - 1 : i <= Len(s) /\ s[i] = t[i]
                /\ k <= Len(s) => s[k] < t[k]
sorted(S) == SetToSortSeq(S, less)
isDir(e) == e # <<>> /\ e[Len(e)] = Slash
trimmed(e) == IF isDir(e) THEN SubSeq(e, 1, Len(e) - 1) ELSE e
slashes(s) == {i \in DOMAIN s : s[i] = Slash}
firstSlash(s) == CHOOSE i \in slashes(s) : \A j \in slashes(s) : i <= j
lastSlash(s) == IF slashes(s) = {} THEN 0 ELSE CHOOSE i \in slashes(s) : \A j \in slashes(s) : j <= i

(* What is listed for an object: its name, or the directory it is in.      *)
item(p, o) ==
  LET rest == SubSeq(o, Len(p.prefix) + 1, Len(o))
  IN IF ~p.recursive /\ slashes(rest) # {} THEN SubSeq(o, 1, Len(p.prefix) + firstSlash(rest)) ELSE o
items(p, S) == {item(p, o) : o \in {x \in S : IsPrefix(p.prefix, x)}}

-----------------------------------------------------------------------------
(* listDir: XL keeps an object in a directory, FS in a file.               *)
onDisk(kind, d) == IF kind = "FS" THEN objs ELSE objs \ lacks[d]
isLeaf(kind, path) == IF kind = "FS" THEN ~isDir(path) ELSE trimmed(path) \in objs
entriesOf(kind, d, dir, match) ==
  {LET rest == SubSeq(o, Len(dir) + 1, Len(o))
   IN IF slashes(rest) # {} THEN SubSeq(rest, 1, firstSlash(rest)) ELSE IF kind = "FS" THEN rest ELSE Append(rest, Slash) :
   o \in {x \in onDisk(kind, d) : IsPrefix(dir \o match, x) /\ x # dir}}
dirExists(kind, d, dir) == dir = <<>> \/ \E o \in onDisk(kind, d) : IsPrefix(dir, o)

delayIsLeafCheck(es) ==
  \A i \in 1 .. Len(es) - 1 : \A j \in 1 .. Len(es[i]) :
    es[i][j] < Slash /\ Len(es[i + 1]) >= j => es[i + 1][j] # Slash
leavesTrimmed(kind, dir, S) == {IF isLeaf(kind, dir \o e) THEN trimmed(e) ELSE e : e \in S}

delayAlways(kind, d, dir, match) == [entries |-> sorted(entriesOf(kind, d, dir, match)), delay |-> TRUE]
listDir(kind, d, dir, match) ==
  LET es == entriesOf(kind, d, dir, match)
  IN IF delayIsLeafCheck(sorted(es)) THEN [entries |-> sorted(es), delay |-> TRUE]
     ELSE [entries |-> sorted(leavesTrimmed(kind, dir, es)), delay |-> FALSE]

(* listDirHeal takes from the second disk only what sorts after everything *)
(* on the first: SearchStrings returns where an entry would be, not        *)
(* whether it is there.                                                    *)
merge(merged, new) ==
  IF merged = {} THEN new ELSE merged \cup {e \in new : \A m \in merged : less(m, e)}
listDirHeal(dir, match) ==
  LET of(d) == leavesTrimmed("heal", dir, entriesOf("heal", d, dir, match))
  IN [entries |-> sorted(FoldLeftDomain(LAMBDA acc, d : merge(acc, of(d)), {}, lacks)), delay |-> FALSE]

-----------------------------------------------------------------------------
(* doTreeWalk.  A frame is one call of it; a walk that fails ends with the *)
(* error as its last result.                                               *)
frame(dir, l, marker, end) ==
  LET mdir == IF slashes(marker) = {} THEN marker ELSE SubSeq(marker, 1, firstSlash(marker))
  IN [dir |-> dir, entries |-> SelectSeq(l.entries, LAMBDA e : ~less(e, mdir)), delay |-> l.delay, first |-> TRUE,
      markerDir |-> mdir, markerBase |-> SubSeq(marker, Len(mdir) + 1, Len(marker)), end |-> end]
lists(kind, dir, match) ==
  IF kind = "heal" THEN {listDirHeal(dir, match)}
  ELSE {listDir(kind, d, dir, match) : d \in {x \in Disk : dirExists(kind, x, dir)}}

newWalk(p) == [p |-> p, stack |-> <<>>, out |-> <<[err |-> TRUE]>>, closed |-> TRUE, ended |-> FALSE]
startTreeWalk(p, marker) ==
  LET dir == SubSeq(p.prefix, 1, lastSlash(p.prefix))
      found == lists(p.kind, dir, SubSeq(p.prefix, Len(dir) + 1, Len(p.prefix)))
      from(l) == <<frame(dir, l, SubSeq(marker, Len(dir) + 1, Len(marker)), TRUE)>>
  IN IF found = {} THEN {newWalk(p)}
     ELSE {[newWalk(p) EXCEPT !.stack = from(l), !.out = <<>>, !.closed = FALSE] : l \in found}

top(w) == walks[w].stack[1]
below(w) == Tail(walks[w].stack)
entryOf(w) == LET e == Head(top(w).entries)
              IN IF top(w).delay /\ isLeaf(walks[w].p.kind, top(w).dir \o e) THEN trimmed(e) ELSE e
rest(w) == [top(w) EXCEPT !.entries = Tail(@), !.first = FALSE]
isLast(w) == Len(top(w).entries) = 1 /\ top(w).end
neverListed(w) == FALSE
alreadyListed(w) ==
  /\ top(w).first /\ top(w).markerDir = entryOf(w)
  /\ walks[w].p.recursive => ~isDir(entryOf(w))
descends(w) == walks[w].p.recursive /\ isDir(entryOf(w))
running(w) == walks[w].stack # <<>>
walkTo(w, r) == walks' = [walks EXCEPT ![w] = r]
keepsRest == UNCHANGED <<objs, lacks, listPool, fired, cl, objChanges, timers, panicked>>

WalkReturn(w) ==
  /\ running(w) /\ top(w).entries = <<>>
  /\ walkTo(w, [walks[w] EXCEPT !.stack = below(w), !.closed = below(w) = <<>>]) /\ keepsRest
WalkSkip(w) ==
  /\ running(w) /\ top(w).entries # <<>> /\ alreadyListed(w)
  /\ walkTo(w, [walks[w] EXCEPT !.stack[1] = rest(w)]) /\ keepsRest
WalkDown(w) ==
  /\ running(w) /\ top(w).entries # <<>> /\ ~alreadyListed(w) /\ descends(w)
  /\ LET dir == top(w).dir \o entryOf(w)
         marker == IF entryOf(w) = top(w).markerDir THEN top(w).markerBase ELSE <<>>
         found == lists(walks[w].p.kind, dir, <<>>)
     IN \/ /\ found = {}
           /\ walkTo(w, [walks[w] EXCEPT !.stack = <<>>, !.closed = TRUE,
                                         !.out = IF walks[w].ended THEN @ ELSE Append(@, [err |-> TRUE])])
        \/ \E l \in found :
             walkTo(w, [walks[w] EXCEPT !.stack = <<frame(dir, l, marker, isLast(w)), rest(w)>> \o below(w)])
  /\ keepsRest
WalkSend(w) ==
  /\ running(w) /\ top(w).entries # <<>> /\ ~alreadyListed(w) /\ ~descends(w) /\ Len(walks[w].out) < maxObjectList
  /\ walkTo(w, [walks[w] EXCEPT !.stack[1] = rest(w),
                                !.out = Append(@, [err |-> FALSE, name |-> top(w).dir \o entryOf(w), end |-> isLast(w)])])
  /\ keepsRest
WalkAbort(w) ==
  /\ running(w) /\ top(w).entries # <<>> /\ ~alreadyListed(w) /\ ~descends(w) /\ walks[w].ended
  /\ walkTo(w, [walks[w] EXCEPT !.stack = <<>>, !.closed = TRUE]) /\ keepsRest

-----------------------------------------------------------------------------
(* ListObjects: a page, from a walk of the pool that waits at this marker  *)
(* or from a new one.                                                      *)
AskList(c, p) ==
  /\ cl[c].pc = "idle" /\ \A k \in Lister : k < c => cl[k].pc # "idle"
  /\ \A k \in Lister : cl[k].pc # "idle" => (cl[k].p.kind = "FS" <=> p.kind = "FS")  \* a server has one backend
  /\ cl' = [cl EXCEPT ![c] = [pc |-> "call", p |-> p, marker |-> <<>>, got |-> <<>>, page |-> 0, walk |-> 0,
                              always |-> objs, cut |-> FALSE, blind |-> FALSE]]
  /\ UNCHANGED <<objs, lacks, walks, listPool, fired, objChanges, timers, panicked>>

matching(p, marker) == {i \in DOMAIN listPool : listPool[i].p = p /\ listPool[i].marker = marker}
firstOf(S) == CHOOSE i \in S : \A j \in S : i <= j
Release(c) ==
  LET found == matching(cl[c].p, cl[c].marker) i == firstOf(found)
  IN /\ cl[c].pc = "call" /\ found # {}
     /\ cl' = [cl EXCEPT ![c].pc = "read", ![c].walk = listPool[i].walk, ![c].page = 0]
     /\ listPool' = RemoveAt(listPool, i)
     /\ UNCHANGED <<objs, lacks, walks, fired, objChanges, timers, panicked>>
StartWalk(c) ==
  LET p == cl[c].p
  IN /\ cl[c].pc = "call" /\ matching(p, cl[c].marker) = {} /\ Len(walks) < MaxWalk
     /\ walks' \in {Append(walks, w) : w \in startTreeWalk(p, cl[c].marker)}
     /\ cl' = [cl EXCEPT ![c].pc = "read", ![c].walk = Len(walks) + 1, ![c].page = 0,
                         ![c].blind = @ \/ (cl[c].marker # <<>> /\ \E d \in Disk : cl[c].marker \notin items(p, onDisk(p.kind, d)))]
     /\ UNCHANGED <<objs, lacks, listPool, fired, objChanges, timers, panicked>>

(* A result that is no longer an object is passed over by XL, and ends the *)
(* listing of FS, as the error of a walk does: with an empty page.         *)
gone(r) == ~isDir(r.name) /\ r.name \notin objs
endsListing(c, r) == r.err \/ (cl[c].p.kind = "FS" /\ gone(r))
Ended(c, cut) == cl' = [cl EXCEPT ![c].pc = "done", ![c].cut = @ \/ cut]
ReadResult(c) ==
  LET w == cl[c].walk r == Head(walks[w].out)
  IN /\ cl[c].pc = "read" /\ walks[w].out # <<>>
     /\ walks' = [walks EXCEPT ![w].out = Tail(@)]
     /\ IF endsListing(c, r) THEN Ended(c, TRUE)
        ELSE IF gone(r) THEN UNCHANGED cl
        ELSE cl' = [cl EXCEPT ![c].got = Append(@, r.name), ![c].marker = r.name, ![c].page = @ + 1,
                              ![c].pc = IF r.end THEN "done" ELSE IF cl[c].page + 1 = MaxKeys THEN "set" ELSE "read"]
     /\ UNCHANGED <<objs, lacks, listPool, fired, objChanges, timers, panicked>>
ReadClosed(c) ==
  LET w == cl[c].walk
  IN /\ cl[c].pc = "read" /\ walks[w].out = <<>> /\ walks[w].closed /\ Ended(c, walks[w].ended)
     /\ UNCHANGED <<objs, lacks, walks, listPool, fired, objChanges, timers, panicked>>
Set(c) ==
  /\ cl[c].pc = "set"
  /\ listPool' = Append(listPool, [p |-> cl[c].p, marker |-> cl[c].marker, walk |-> cl[c].walk, timer |-> Len(cl[c].got)])
  /\ cl' = [cl EXCEPT ![c].pc = "page", ![c].walk = 0]
  /\ UNCHANGED <<objs, lacks, walks, fired, objChanges, timers, panicked>>

(* The client goes on after the last name of the page.                     *)
validateListObjectsArgs(p, marker) == marker # <<>> => IsPrefix(p.prefix, marker)
NextPage(c) ==
  /\ cl[c].pc = "page" /\ validateListObjectsArgs(cl[c].p, cl[c].marker) /\ cl' = [cl EXCEPT ![c].pc = "call"]
  /\ UNCHANGED <<objs, lacks, walks, listPool, fired, objChanges, timers, panicked>>

(* The timer of a walk in the pool goes off, then gets the pool's lock.    *)
(* A lister that releases the walk in between cannot stop it any more.     *)
TimerFires(i) ==
  /\ i \in DOMAIN listPool /\ timers < MaxTimer /\ timers' = timers + 1
  /\ LET t == [walk |-> listPool[i].walk, timer |-> listPool[i].timer]
     IN t \notin fired /\ fired' = fired \cup {t}
  /\ UNCHANGED <<objs, lacks, walks, listPool, cl, objChanges, panicked>>
TimerEnds(t) ==
  /\ t \in fired /\ fired' = fired \ {t}
  /\ listPool' = SelectSeq(listPool, LAMBDA x : [walk |-> x.walk, timer |-> x.timer] # t)
  /\ walks' = [walks EXCEPT ![t.walk].ended = TRUE] /\ panicked' = (panicked \/ walks[t.walk].ended)
  /\ UNCHANGED <<objs, lacks, cl, objChanges, timers>>

(* Objects come and go; one is not put inside another.                     *)
ObjectChange(o) ==
  /\ objChanges < MaxObjChange /\ objChanges' = objChanges + 1
  /\ objs' = IF o \in objs THEN objs \ {o} ELSE objs \cup {o}
  /\ \A x, y \in objs' : ~IsPrefix(Append(x, Slash), y)
  /\ cl' = [c \in Lister |-> IF cl[c].pc \in {"idle", "done"} THEN cl[c] ELSE [cl[c] EXCEPT !.always = @ \cap objs']]
  /\ UNCHANGED <<lacks, walks, listPool, fired, timers, panicked>>

ListingNext ==
  \/ \E w \in DOMAIN walks : WalkReturn(w) \/ WalkSkip(w) \/ WalkDown(w) \/ WalkSend(w) \/ WalkAbort(w)
  \/ \E c \in Lister : \/ Release(c) \/ StartWalk(c) \/ ReadResult(c) \/ ReadClosed(c) \/ Set(c) \/ NextPage(c)
                       \/ \E p \in Params : AskList(c, p)
  \/ \E i \in DOMAIN listPool : TimerFires(i)
  \/ \E t \in fired : TimerEnds(t)
  \/ \E o \in objs \cup NewObject : ObjectChange(o)
ListingSpec == ListingInit /\ [][ListingNext]_listVars

-----------------------------------------------------------------------------
(* Properties.                                                             *)
asLong(s) == \A i \in 1 .. Len(s) - 1 : less(s[i], s[i + 1])

(* The pages of a listing together are in order, name nothing twice, and   *)
(* name everything that was in the bucket all the time, on every disk:     *)
(* whoever adds or removes objects, and whichever walk serves which page.  *)
(* Excepted are listings that were cut (a name or directory that the walk  *)
(* had found was gone, or a timer ended the walk under the lister) and,    *)
(* for the order, a new walk that cannot find the name it continues after. *)
ListedOnce ==
  \A c \in Lister : cl[c].pc = "done" =>
    /\ ~cl[c].blind => asLong(cl[c].got)
    /\ ~cl[c].cut =>
         items(cl[c].p, {o \in cl[c].always : \A d \in Disk : o \in lacks[d] => cl[c].p.kind = "FS"}) \subseteq ToSet(cl[c].got)

(* Trailing slashes of objects do not disturb the order of a listing.      *)
ListedInOrder == \A c \in Lister : cl[c].pc = "done" => asLong(cl[c].got)

(* A listing to heal names what any disk lacks, as long as one has it.     *)
HealListsAll ==
  \A c \in Lister : cl[c].pc = "done" /\ cl[c].p.kind = "heal" /\ ~cl[c].cut =>
    items(cl[c].p, cl[c].always) \subseteq ToSet(cl[c].got)

(* The timer of a walk does not end the walk of a listing under way.       *)
TimerSparesListing ==
  \A c \in Lister : cl[c].pc = "read" => ~walks[cl[c].walk].ended

(* A timer closes the channel of its walk once.                            *)
ClosedOnce == ~panicked
=============================================================================
