---------------------------- MODULE WatcherProofs ----------------------------
(***************************************************************************)
(* Theorems about Watcher, for any workspaces, trees, rules and bounds.    *)
(***************************************************************************)
EXTENDS Watcher, TLAPS

-----------------------------------------------------------------------------
(* Operators.                                                              *)

\* A directory's root is one of its workspace's, and contains it.
LEMMA OwnerType ==
  ASSUME NEW w \in Workspaces, NEW d \in Dirs, Owner(w, d) # None
  PROVE  Owner(w, d) \in Roots[w] \cap Within[d]
<1>1. Roots[w] \cap Within[d] # {}
  BY DEF Owner
<1> QED
  BY <1>1, OwnerAssumption DEF Owner

\* Notifying only adds events, and adds this one wherever it is heard.
LEMMA NotifyAdds ==
  ASSUME TypeOK, NEW d \in Dirs, NEW via, NEW added \in BOOLEAN,
         Notify(d, via, added)
  PROVE  /\ events' \in [Workspaces -> SUBSET Event]
         /\ \A w \in Workspaces : events[w] \subseteq events'[w]
         /\ \A w \in Workspaces :
              Heard(w, d, via) => [dir |-> d, added |-> added] \in events'[w]
<1>1. [dir |-> d, added |-> added] \in Event
  BY DEF Event
<1> QED
  BY <1>1 DEF Notify, TypeOK

LEMMA OwnWritesAdds ==
  ASSUME TypeOK, OwnWrites
  PROVE  /\ events' \in [Workspaces -> SUBSET Event]
         /\ \A w \in Workspaces : events[w] \subseteq events'[w]
<1>1. CASE StateDir = None
  BY <1>1 DEF OwnWrites, TypeOK
<1>2. CASE StateDir # None
  <2>1. StateDir \in Dirs /\ Notify(StateDir, StateDir, FALSE)
    BY <1>2, WatcherAssumption DEF OwnWrites
  <2> QED
    BY <2>1, NotifyAdds
<1> QED
  BY <1>1, <1>2

LEMMA DrainedRoots ==
  ASSUME TypeOK, NEW w \in Workspaces
  PROVE  Drained(w) \subseteq Roots[w] /\ Drained(w) \subseteq Dirs
<1>1. ASSUME NEW r \in Drained(w)
      PROVE  r \in Roots[w]
  <2>1. PICK e \in events[w] : e.dir # None /\ r = Owner(w, e.dir)
    BY <1>1 DEF Drained
  <2>2. e.dir \in Dirs /\ r # None
    BY <2>1, <1>1 DEF TypeOK, Event, Drained
  <2> QED
    BY <2>1, <2>2, OwnerType
<1>2. Roots[w] \subseteq Dirs
  BY WatcherAssumption
<1> QED
  BY <1>1, <1>2

-----------------------------------------------------------------------------
(* Types.                                                                  *)

LEMMA TypeInit == Init => TypeOK
<1> SUFFICES ASSUME Init PROVE TypeOK
  OBVIOUS
<1>1. disk \in [Dirs -> 0..MaxChanges \cup {None}]
  BY WatcherAssumption DEF Init
<1>2. indexed \in [Workspaces -> [Dirs -> [Dirs -> 0..MaxChanges \cup {None}]]]
  BY <1>1 DEF Init
<1> QED
  BY <1>1, <1>2, WatcherAssumption DEF Init, TypeOK

LEMMA TypeOutside == TypeOK /\ Outside => TypeOK'
<1> SUFFICES ASSUME TypeOK, Outside PROVE TypeOK'
  OBVIOUS
<1>1. ASSUME NEW d \in Dirs, NEW via, Changed(d, via)
      PROVE  /\ disk' \in [Dirs -> 0..MaxChanges \cup {None}]
             /\ changes' \in 0..MaxChanges
             /\ excused' \in [Workspaces -> SUBSET (Dirs \cup {None})]
  BY <1>1, WatcherAssumption DEF TypeOK, Changed
<1>2. ASSUME NEW d \in Dirs, Edit(d)
      PROVE  TypeOK'
  <2>1. Changed(d, d) /\ Notify(d, d, FALSE)
    BY <1>2 DEF Edit
  <2> QED
    BY <1>1, <1>2, <2>1, NotifyAdds DEF TypeOK, Edit, watcher
<1>3. ASSUME NEW d \in Dirs, MakeDir(d)
      PROVE  TypeOK'
  <2>1. Changed(d, Parent[d]) /\ Notify(d, Parent[d], TRUE)
    BY <1>3 DEF MakeDir
  <2> QED
    BY <1>1, <1>3, <2>1, NotifyAdds DEF TypeOK, MakeDir, watcher
<1>4. ASSUME NEW d \in Dirs, RemoveDir(d)
      PROVE  TypeOK'
  <2>1. Notify(d, Parent[d], FALSE)
    BY <1>4 DEF RemoveDir
  <2>2. /\ disk' \in [Dirs -> 0..MaxChanges \cup {None}]
        /\ changes' \in 0..MaxChanges
        /\ watched' \in [Workspaces -> SUBSET Dirs]
    BY <1>4, WatcherAssumption DEF TypeOK, RemoveDir
  <2> QED
    BY <1>4, <2>1, <2>2, NotifyAdds DEF TypeOK, RemoveDir
<1>5. ASSUME NEW c \in Excludes \cup {None}, WriteConfig(c)
      PROVE  TypeOK'
  <2>1. [dir |-> None, added |-> FALSE] \in Event
    BY DEF Event
  <2>2. /\ events' \in [Workspaces -> SUBSET Event]
        /\ excused' \in [Workspaces -> SUBSET (Dirs \cup {None})]
    BY <1>5, <2>1 DEF TypeOK, WriteConfig
  <2>3. changes' \in 0..MaxChanges /\ yaml' \in Excludes \cup {None}
    BY <1>5, WatcherAssumption DEF TypeOK, WriteConfig
  <2> QED
    BY <1>5, <2>2, <2>3 DEF TypeOK, WriteConfig, watcher
<1> QED
  BY <1>2, <1>3, <1>4, <1>5 DEF Outside

LEMMA TypeDone ==
  ASSUME TypeOK, NEW w \in Workspaces, Done(w)
  PROVE  /\ pc' \in [Workspaces -> {"starting", "watching", "locking", "indexing"}]
         /\ queue' \in [Workspaces -> SUBSET Dirs]
         /\ \A v \in Workspaces : queue'[v] \subseteq Roots[v]
         /\ current' \in [Workspaces -> Dirs \cup {None}]
         /\ \A v \in Workspaces : pc'[v] = "indexing" => current'[v] \in queue'[v]
         /\ unread' \in [Workspaces -> SUBSET Dirs]
         /\ lock' \in Workspaces \cup {None}
<1>1. /\ pc' \in [Workspaces -> {"starting", "watching", "locking", "indexing"}]
      /\ queue' \in [Workspaces -> SUBSET Dirs]
      /\ current' \in [Workspaces -> Dirs \cup {None}]
      /\ unread' \in [Workspaces -> SUBSET Dirs]
      /\ lock' \in Workspaces \cup {None}
  BY DEF TypeOK, Done
<1>2. ASSUME NEW v \in Workspaces
      PROVE  /\ queue'[v] \subseteq Roots[v]
             /\ pc'[v] = "indexing" => current'[v] \in queue'[v]
  <2>1. pc'[w] # "indexing"
    BY DEF TypeOK, Done
  <2>2. v # w => pc'[v] = pc[v] /\ current'[v] = current[v] /\ queue'[v] = queue[v]
    BY DEF TypeOK, Done
  <2>3. queue'[w] \subseteq queue[w]
    BY DEF TypeOK, Done
  <2> QED
    BY <2>1, <2>2, <2>3 DEF TypeOK
<1> QED
  BY <1>1, <1>2

LEMMA TypeStep == TypeOK /\ [Next]_vars => TypeOK'
<1> SUFFICES ASSUME TypeOK, [Next]_vars PROVE TypeOK'
  OBVIOUS
<1>1. CASE Outside
  BY <1>1, TypeOutside
<1>2. ASSUME NEW w \in Workspaces, StartWatch(w)
      PROVE  TypeOK'
  BY <1>2 DEF TypeOK, StartWatch, world
<1>3. ASSUME NEW w \in Workspaces, HandleChanges(w)
      PROVE  TypeOK'
  <2>1. /\ queue' \in [Workspaces -> SUBSET Dirs]
        /\ \A v \in Workspaces : queue'[v] \subseteq Roots[v]
    BY <1>3, DrainedRoots DEF TypeOK, HandleChanges
  <2>2. /\ pc' \in [Workspaces -> {"starting", "watching", "locking", "indexing"}]
        /\ \A v \in Workspaces : pc'[v] = "indexing" => current'[v] \in queue'[v]
    BY <1>3 DEF TypeOK, HandleChanges
  <2>3. /\ config' \in [Workspaces -> Excludes]
        /\ excused' \in [Workspaces -> SUBSET (Dirs \cup {None})]
    <3>1. Reload(w) \/ UNCHANGED <<config, excused>>
      BY <1>3 DEF HandleChanges
    <3>2. CASE Reload(w)
      <4>1. CASE yaml # None
        <5>1. yaml \in Excludes /\ {d \in Dirs : Excluded(yaml, d)} \subseteq Dirs
          BY <4>1 DEF TypeOK
        <5>2. /\ config' = [config EXCEPT ![w] = yaml]
              /\ excused' = [excused EXCEPT ![w] =
                    @ \cup {d \in Dirs : Excluded(yaml, d)}]
          BY <3>2, <4>1 DEF Reload
        <5> QED
          BY <5>1, <5>2 DEF TypeOK
      <4>2. CASE yaml = None
        BY <3>2, <4>2 DEF Reload, TypeOK
      <4> QED
        BY <4>1, <4>2
    <3> QED
      BY <3>1, <3>2 DEF TypeOK
  <2>4. events' \in [Workspaces -> SUBSET Event]
    BY <1>3 DEF TypeOK, HandleChanges
  <2>5. rescope' \in [Workspaces -> BOOLEAN]
    <3> DEFINE seen == rescope[w] \/ \E e \in events[w] :
                 e.dir # None /\ e.added /\ Watchable(w, config[w], e.dir)
    <3>1. seen \in BOOLEAN
      BY DEF TypeOK
    <3>2. rescope' = [rescope EXCEPT ![w] = seen]
      BY <1>3 DEF HandleChanges
    <3> QED
      BY <3>1, <3>2 DEF TypeOK
  <2> QED
    BY <1>3, <2>1, <2>2, <2>3, <2>4, <2>5 DEF TypeOK, HandleChanges, world
<1>4. ASSUME NEW w \in Workspaces, Acquire(w)
      PROVE  TypeOK'
  <2>1. OwnWrites /\ lock' = w
    BY <1>4 DEF Acquire
  <2>2. /\ pc' \in [Workspaces -> {"starting", "watching", "locking", "indexing"}]
        /\ current' \in [Workspaces -> Dirs \cup {None}]
        /\ unread' \in [Workspaces -> SUBSET Dirs]
        /\ queue' = queue
        /\ \A v \in Workspaces : pc'[v] = "indexing" => current'[v] \in queue'[v]
    BY <1>4 DEF TypeOK, Acquire
  <2> QED
    BY <1>4, <2>1, <2>2, OwnWritesAdds DEF TypeOK, Acquire, world
<1>5. ASSUME NEW w \in Workspaces, NEW d \in Dirs, Read(w, d)
      PROVE  TypeOK'
  <2>1. current[w] \in Dirs /\ disk[d] \in 0..MaxChanges \cup {None}
    BY <1>5 DEF TypeOK, Read
  <2>2. indexed' \in [Workspaces -> [Dirs -> [Dirs -> 0..MaxChanges \cup {None}]]]
    <3>1. indexed \in [Workspaces -> [Dirs -> [Dirs -> 0..MaxChanges \cup {None}]]]
      BY DEF TypeOK
    <3>2. CASE indexed' = [indexed EXCEPT ![w][current[w]][d] = disk[d]]
      <4>1. [indexed[w][current[w]] EXCEPT ![d] = disk[d]]
              \in [Dirs -> 0..MaxChanges \cup {None}]
        BY <2>1, <3>1
      <4>2. [indexed[w] EXCEPT ![current[w]] =
              [indexed[w][current[w]] EXCEPT ![d] = disk[d]]]
              \in [Dirs -> [Dirs -> 0..MaxChanges \cup {None}]]
        BY <2>1, <3>1, <4>1
      <4> QED
        BY <3>1, <3>2, <4>2
    <3> QED
      BY <1>5, <3>1, <3>2 DEF Read
  <2> QED
    BY <1>5, <2>2 DEF TypeOK, Read, world
<1>6. ASSUME NEW w \in Workspaces, FinishReindex(w)
      PROVE  TypeOK'
  <2>1. Done(w) /\ OwnWrites
    BY <1>6 DEF FinishReindex
  <2> QED
    BY <1>6, <2>1, TypeDone, OwnWritesAdds DEF TypeOK, FinishReindex, Done, world
<1>7. ASSUME NEW w \in Workspaces, FailReindex(w)
      PROVE  TypeOK'
  <2>1. Done(w)
    BY <1>7 DEF FailReindex
  <2>2. failures' \in 0..MaxFailures
    BY <1>7, WatcherAssumption DEF TypeOK, FailReindex
  <2>3. excused' \in [Workspaces -> SUBSET (Dirs \cup {None})]
    BY <1>7 DEF TypeOK, FailReindex
  <2> QED
    BY <1>7, <2>1, <2>2, <2>3, TypeDone DEF TypeOK, FailReindex, Done, world
<1>8. CASE UNCHANGED vars
  BY <1>8 DEF TypeOK, vars, world, watcher
<1> QED
  BY <1>1, <1>2, <1>3, <1>4, <1>5, <1>6, <1>7, <1>8 DEF Next

(* Every variable keeps its type: only roots of the workspace are ever     *)
(* queued, and a run is always of a queued root.                           *)
THEOREM TypeCorrect == Spec => []TypeOK
<1> QED
  BY TypeInit, TypeStep, PTL DEF Spec

-----------------------------------------------------------------------------
(* Nothing heard is lost.                                                  *)

\* A watcher that is not reindexing has nothing left to reindex.
QueueIdle ==
  \A w \in Workspaces : pc[w] \in {"starting", "watching"} => queue[w] = {}

LEMMA QueueIdleStep == TypeOK /\ QueueIdle /\ [Next]_vars => QueueIdle'
<1> SUFFICES ASSUME TypeOK, QueueIdle, [Next]_vars PROVE QueueIdle'
  OBVIOUS
<1>1. CASE Outside
  <2>1. pc' = pc /\ queue' = queue
    BY <1>1 DEF Outside, Edit, MakeDir, RemoveDir, WriteConfig, watcher
  <2> QED
    BY <2>1 DEF QueueIdle
<1>2. ASSUME NEW w \in Workspaces, StartWatch(w)
      PROVE  QueueIdle'
  BY <1>2 DEF TypeOK, QueueIdle, StartWatch
<1>3. ASSUME NEW w \in Workspaces, HandleChanges(w)
      PROVE  QueueIdle'
  <2>1. queue' = [queue EXCEPT ![w] = Drained(w)]
    BY <1>3 DEF HandleChanges
  <2>2. pc' = [pc EXCEPT ![w] = IF Drained(w) = {} THEN "watching" ELSE "locking"]
    BY <1>3 DEF HandleChanges
  <2> QED
    BY <2>1, <2>2 DEF TypeOK, QueueIdle
<1>4. ASSUME NEW w \in Workspaces, Acquire(w)
      PROVE  QueueIdle'
  BY <1>4 DEF TypeOK, QueueIdle, Acquire
<1>5. ASSUME NEW w \in Workspaces, NEW d \in Dirs, Read(w, d)
      PROVE  QueueIdle'
  BY <1>5 DEF TypeOK, QueueIdle, Read
<1>6. ASSUME NEW w \in Workspaces, Done(w)
      PROVE  QueueIdle'
  BY <1>6 DEF TypeOK, QueueIdle, Done
<1>7. CASE UNCHANGED vars
  BY <1>7 DEF QueueIdle, vars, watcher
<1> QED
  BY <1>1, <1>2, <1>3, <1>4, <1>5, <1>6, <1>7 DEF Next, FinishReindex, FailReindex

\* What is on its way stays so while the watcher stands still and events
\* only gather.
LEMMA ComingStays ==
  ASSUME NEW w \in Workspaces, NEW d \in Dirs, Coming(w, d),
         events[w] \subseteq events'[w],
         config'[w] = config[w], pc'[w] = pc[w], queue'[w] = queue[w],
         current'[w] = current[w], unread'[w] = unread[w]
  PROVE  Coming(w, d)'
BY DEF Coming, Excluded, Owner

LEMMA LostInit == Init => NoChangeLost
<1> SUFFICES ASSUME Init, NEW w \in Workspaces, NEW d \in Dirs, Owner(w, d) # None
             PROVE  Fresh(w, d)
  BY DEF NoChangeLost, Answerable
<1>1. Owner(w, d) \in Dirs
  BY OwnerType, WatcherAssumption
<1> QED
  BY <1>1 DEF Init, Fresh

\* The step of the directory that changed, and of the ones that did not.
LEMMA LostChanged ==
  ASSUME TypeOK, NoChangeLost, NEW x \in Dirs, NEW via, NEW added \in BOOLEAN,
         Changed(x, via), Notify(x, via, added), UNCHANGED <<watcher, indexed>>
  PROVE  NoChangeLost'
<1> SUFFICES ASSUME NEW w \in Workspaces, NEW d \in Dirs, Answerable(w, d)'
             PROVE  Fresh(w, d)' \/ Coming(w, d)'
  BY DEF NoChangeLost
<1>1. /\ events[w] \subseteq events'[w]
      /\ Heard(w, x, via) => [dir |-> x, added |-> added] \in events'[w]
  BY NotifyAdds
<1>2. CASE d = x
  <2>1. Heard(w, x, via) /\ ~Excluded(config[w], x)
    BY <1>2 DEF TypeOK, Changed, Answerable
  <2>2. [dir |-> x, added |-> added] \in events'[w]
    BY <1>1, <2>1
  <2>3. x # None /\ config'[w] = config[w]
    BY NoneAssumption DEF watcher
  <2>4. \E e \in events'[w] : /\ e.dir # None
                              /\ Owner(w, e.dir) = Owner(w, d)
                              /\ ~Excluded(config[w], e.dir)
    <3>1. [dir |-> x, added |-> added].dir = x
      OBVIOUS
    <3> QED
      BY <1>2, <2>1, <2>2, <2>3, <3>1
  <2> QED
    BY <2>3, <2>4 DEF Coming, Excluded, Owner
<1>3. CASE d # x
  <2>1. disk'[d] = disk[d] /\ (d \in excused'[w] <=> d \in excused[w])
    BY <1>3 DEF TypeOK, Changed
  <2>2. Answerable(w, d)
    BY <2>1 DEF Answerable, Owner, Excluded
  <2>3. Fresh(w, d) \/ Coming(w, d)
    BY <2>2 DEF NoChangeLost
  <2>4. Fresh(w, d) => Fresh(w, d)'
    BY <2>1 DEF Fresh, Owner
  <2>5. Coming(w, d) => Coming(w, d)'
    BY <1>1, ComingStays DEF watcher
  <2> QED
    BY <2>3, <2>4, <2>5
<1> QED
  BY <1>2, <1>3

\* Steps of the watcher that neither read nor write what d is waiting for.
LEMMA LostQuiet ==
  ASSUME NEW w \in Workspaces, NEW d \in Dirs, NoChangeLost, Answerable(w, d)',
         disk' = disk, indexed'[w] = indexed[w], excused[w] \subseteq excused'[w],
         Coming(w, d) => Coming(w, d)'
  PROVE  Fresh(w, d)' \/ Coming(w, d)'
<1>1. Answerable(w, d)
  BY DEF Answerable, Owner, Excluded
<1>2. Fresh(w, d) => Fresh(w, d)'
  BY DEF Fresh, Owner
<1> QED
  BY <1>1, <1>2 DEF NoChangeLost

LEMMA LostOutside == TypeOK /\ NoChangeLost /\ Outside => NoChangeLost'
<1> SUFFICES ASSUME TypeOK, NoChangeLost, Outside PROVE NoChangeLost'
  OBVIOUS
<1>1. ASSUME NEW d \in Dirs, Edit(d) \/ MakeDir(d)
      PROVE  NoChangeLost'
  BY <1>1, LostChanged DEF Edit, MakeDir
<1>2. ASSUME NEW x \in Dirs, RemoveDir(x), NEW w \in Workspaces, NEW d \in Dirs,
             Answerable(w, d)'
      PROVE  Fresh(w, d)' \/ Coming(w, d)'
  <2>1. d # x /\ disk'[d] = disk[d]
    BY <1>2 DEF TypeOK, RemoveDir, Answerable
  <2>2. Answerable(w, d)
    BY <1>2, <2>1 DEF Answerable, Owner, Excluded, RemoveDir
  <2>3. Fresh(w, d) => Fresh(w, d)'
    BY <1>2, <2>1 DEF Fresh, Owner, RemoveDir
  <2>4. events[w] \subseteq events'[w]
    BY <1>2, NotifyAdds DEF RemoveDir
  <2>5. Coming(w, d) => Coming(w, d)'
    BY <1>2, <2>4, ComingStays DEF RemoveDir
  <2> QED
    BY <2>2, <2>3, <2>5 DEF NoChangeLost
<1>3. ASSUME NEW c \in Excludes \cup {None}, WriteConfig(c),
             NEW w \in Workspaces, NEW d \in Dirs, Answerable(w, d)'
      PROVE  Fresh(w, d)' \/ Coming(w, d)'
  <2>1. events[w] \subseteq events'[w] /\ (d \in excused[w] <=> d \in excused'[w])
    BY <1>3, NoneAssumption DEF TypeOK, WriteConfig
  <2>2. Answerable(w, d)
    BY <1>3, <2>1 DEF Answerable, Owner, Excluded, WriteConfig
  <2>3. Fresh(w, d) => Fresh(w, d)'
    BY <1>3 DEF Fresh, Owner, WriteConfig
  <2>4. Coming(w, d) => Coming(w, d)'
    BY <1>3, <2>1, ComingStays DEF WriteConfig, watcher
  <2> QED
    BY <2>2, <2>3, <2>4 DEF NoChangeLost
<1> QED
  BY <1>1, <1>2, <1>3 DEF Outside, NoChangeLost

\* A batch that named d's root puts the root in the queue.
LEMMA LostHandleChanges ==
  ASSUME TypeOK, QueueIdle, NoChangeLost, NEW v \in Workspaces, HandleChanges(v)
  PROVE  NoChangeLost'
<1> SUFFICES ASSUME NEW w \in Workspaces, NEW d \in Dirs, Answerable(w, d)'
             PROVE  Fresh(w, d)' \/ Coming(w, d)'
  BY DEF NoChangeLost
<1>1. excused[w] \subseteq excused'[w]
  BY DEF TypeOK, HandleChanges, Reload
<1>2. CASE w = v
  <2>1. queue[w] = {}
    BY <1>2 DEF HandleChanges, QueueIdle
  <2>2. queue'[w] = Drained(w) /\ pc'[w] # "indexing"
    BY <1>2 DEF TypeOK, HandleChanges
  <2>3. ASSUME Coming(w, d)
        PROVE  Owner(w, d) \in Drained(w)
    BY <2>1, <2>3 DEF Coming, Drained, Answerable, Owner
  <2>4. Coming(w, d) => Coming(w, d)'
    BY <2>2, <2>3 DEF Coming, Owner
  <2> QED
    BY <1>1, <2>4, LostQuiet DEF HandleChanges, world
<1>3. CASE w # v
  <2>1. /\ events'[w] = events[w] /\ pc'[w] = pc[w] /\ queue'[w] = queue[w]
        /\ current'[w] = current[w] /\ unread'[w] = unread[w]
    BY <1>3 DEF TypeOK, HandleChanges
  <2>2. config'[w] = config[w]
    BY <1>3 DEF TypeOK, HandleChanges, Reload
  <2>3. Coming(w, d) => Coming(w, d)'
    BY <2>1, <2>2, ComingStays
  <2> QED
    BY <1>1, <2>3, LostQuiet DEF HandleChanges, world
<1> QED
  BY <1>2, <1>3

\* A run begins with every directory of its root still to be read.
LEMMA LostAcquire ==
  ASSUME TypeOK, NoChangeLost, NEW v \in Workspaces, Acquire(v)
  PROVE  NoChangeLost'
<1> SUFFICES ASSUME NEW w \in Workspaces, NEW d \in Dirs, Answerable(w, d)'
             PROVE  Fresh(w, d)' \/ Coming(w, d)'
  BY DEF NoChangeLost
<1>1. events[w] \subseteq events'[w]
  BY OwnWritesAdds DEF Acquire
<1>2. CASE w = v
  <2>1. Owner(w, d) \in Within[d] /\ ~Excluded(Initial, d)
    BY OwnerType DEF Answerable, Owner, Excluded
  <2>2. current'[w] = Owner(w, d) => d \in unread'[w]
    BY <1>2, <2>1 DEF TypeOK, Acquire
  <2>3. config'[w] = config[w] /\ queue'[w] = queue[w]
    BY DEF Acquire
  <2>4. Coming(w, d) => Coming(w, d)'
    BY <1>1, <2>2, <2>3 DEF Coming, Excluded, Owner
  <2> QED
    BY <2>4, LostQuiet DEF Acquire, world
<1>3. CASE w # v
  <2>1. /\ config'[w] = config[w] /\ pc'[w] = pc[w] /\ queue'[w] = queue[w]
        /\ current'[w] = current[w] /\ unread'[w] = unread[w]
    BY <1>3 DEF TypeOK, Acquire
  <2>2. Coming(w, d) => Coming(w, d)'
    BY <1>1, <2>1, ComingStays
  <2> QED
    BY <2>2, LostQuiet DEF Acquire, world
<1> QED
  BY <1>2, <1>3

LEMMA LostRead ==
  ASSUME TypeOK, NoChangeLost, NEW v \in Workspaces, NEW x \in Dirs, Read(v, x)
  PROVE  NoChangeLost'
<1> SUFFICES ASSUME NEW w \in Workspaces, NEW d \in Dirs, Answerable(w, d)'
             PROVE  Fresh(w, d)' \/ Coming(w, d)'
  BY DEF NoChangeLost
<1>1. Answerable(w, d)
  BY DEF Answerable, Owner, Excluded, Read, world
<1>2. Owner(w, d) \in Dirs /\ current[v] \in Dirs /\ disk[d] # None
  BY <1>1, OwnerType, WatcherAssumption DEF TypeOK, Read, Answerable
<1>3. disk' = disk /\ events' = events /\ config' = config
  BY DEF Read, world
<1>4. CASE w = v /\ d = x /\ current[w] = Owner(w, d)
  <2>1. indexed' = [indexed EXCEPT ![w][current[w]][d] = disk[d]]
    BY <1>2, <1>4 DEF Read
  <2>2. indexed'[w][Owner(w, d)][d] = disk[d]
    BY <1>2, <1>4, <2>1 DEF TypeOK
  <2>3. indexed'[w][Owner(w, d)][d] = disk'[d]
    BY <1>3, <2>2
  <2>4. Fresh(w, d)'
    BY <2>3, Zenon DEF Fresh, Owner
  <2> QED
    BY <2>4
<1>5. CASE ~(w = v /\ d = x /\ current[w] = Owner(w, d))
  <2>1. indexed'[w][Owner(w, d)][d] = indexed[w][Owner(w, d)][d]
    <3>1. ASSUME NEW o \in Dirs, ~(w = v /\ d = x /\ current[w] = o),
                 indexed' = [indexed EXCEPT ![v][current[v]][x] = disk[x]]
          PROVE  indexed'[w][o][d] = indexed[w][o][d]
      <4>1. CASE w # v
        BY <3>1, <4>1 DEF TypeOK
      <4>2. CASE w = v /\ o # current[v]
        BY <3>1, <4>2, <1>2 DEF TypeOK
      <4>3. CASE w = v /\ o = current[v] /\ d # x
        BY <3>1, <4>3, <1>2 DEF TypeOK
      <4> QED
        BY <3>1, <4>1, <4>2, <4>3
    <3> QED
      BY <1>2, <1>5, <3>1 DEF Read
  <2>2. Fresh(w, d) => Fresh(w, d)'
    BY <1>3, <2>1 DEF Fresh, Owner
  <2>3. d \in unread[w] /\ current[w] = Owner(w, d) => d \in unread'[w]
    BY <1>5 DEF TypeOK, Read
  <2>4. pc' = pc /\ queue' = queue /\ current' = current
    BY DEF Read
  <2>5. Coming(w, d) => Coming(w, d)'
    BY <1>3, <2>3, <2>4 DEF Coming, Excluded, Owner
  <2> QED
    BY <1>1, <2>2, <2>5 DEF NoChangeLost
<1> QED
  BY <1>4, <1>5

\* A run that ends has read everything, or is known to have failed.
LEMMA LostDone ==
  ASSUME TypeOK, NoChangeLost, NEW v \in Workspaces,
         FinishReindex(v) \/ FailReindex(v)
  PROVE  NoChangeLost'
<1> SUFFICES ASSUME NEW w \in Workspaces, NEW d \in Dirs, Answerable(w, d)'
             PROVE  Fresh(w, d)' \/ Coming(w, d)'
  BY DEF NoChangeLost
<1>1. Done(v) /\ indexed' = indexed /\ disk' = disk /\ config' = config
  BY DEF FinishReindex, FailReindex, Done, world
<1>2. events[w] \subseteq events'[w]
  BY OwnWritesAdds DEF FinishReindex, FailReindex
<1>3. excused[w] \subseteq excused'[w]
  BY DEF TypeOK, FinishReindex, FailReindex
<1>4. CASE w = v
  <2>1. d \notin unread[w]
    BY <1>4 DEF TypeOK, FinishReindex, FailReindex, Answerable
  <2>2. queue'[w] = queue[w] \ {current[w]} /\ pc'[w] # "indexing" /\ pc[w] = "indexing"
    BY <1>1, <1>4 DEF TypeOK, Done
  <2>3. Coming(w, d) => Coming(w, d)'
    BY <1>1, <1>2, <2>1, <2>2 DEF Coming, Excluded, Owner
  <2> QED
    BY <1>1, <1>3, <2>3, LostQuiet
<1>5. CASE w # v
  <2>1. /\ pc'[w] = pc[w] /\ queue'[w] = queue[w]
        /\ current'[w] = current[w] /\ unread'[w] = unread[w]
    BY <1>1, <1>5 DEF TypeOK, Done
  <2>2. Coming(w, d) => Coming(w, d)'
    BY <1>1, <1>2, <2>1, ComingStays
  <2> QED
    BY <1>1, <1>3, <2>2, LostQuiet
<1> QED
  BY <1>4, <1>5

LEMMA LostStep ==
  TypeOK /\ QueueIdle /\ NoChangeLost /\ [Next]_vars => NoChangeLost'
<1> SUFFICES ASSUME TypeOK, QueueIdle, NoChangeLost, [Next]_vars
             PROVE  NoChangeLost'
  OBVIOUS
<1>1. CASE Outside
  BY <1>1, LostOutside
<1>2. ASSUME NEW v \in Workspaces, StartWatch(v),
             NEW w \in Workspaces, NEW d \in Dirs, Answerable(w, d)'
      PROVE  Fresh(w, d)' \/ Coming(w, d)'
  <2>1. pc'[w] = "indexing" <=> pc[w] = "indexing"
    BY <1>2 DEF TypeOK, StartWatch
  <2>2. Coming(w, d) => Coming(w, d)'
    BY <1>2, <2>1 DEF Coming, Excluded, Owner, StartWatch
  <2> QED
    BY <1>2, <2>2, LostQuiet DEF StartWatch, world
<1>3. CASE UNCHANGED vars
  BY <1>3 DEF NoChangeLost, Answerable, Fresh, Coming, Owner, Excluded,
              vars, world, watcher
<1> QED
  BY <1>1, <1>2, <1>3, LostHandleChanges, LostAcquire, LostRead, LostDone
     DEF Next, NoChangeLost

(* Whatever a watcher heard of, the index has it or something on its way   *)
(* will bring it: through batches handled late, the lock, runs of other    *)
(* roots and other workspaces, reloads and torn configs.                   *)
THEOREM NothingHeardIsLost == Spec => []NoChangeLost
<1>1. Init => QueueIdle
  BY DEF Init, QueueIdle
<1> QED
  BY <1>1, TypeInit, TypeStep, QueueIdleStep, LostInit, LostStep, PTL DEF Spec

=============================================================================
