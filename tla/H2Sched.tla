------------------------------ MODULE H2Sched ------------------------------
(***************************************************************************)
(* The priority tree of the streams of one HTTP/2 connection               *)
(* (fw/http_stream_sched.c).  Every stream is a child of the root or of    *)
(* another stream; PRIORITY frames move subtrees, exclusive dependencies   *)
(* insert a level, and the removal of a stream gives its children to its   *)
(* parent.  Counters of active descendants are kept along every path, so   *)
(* that the next stream to send is found by one walk down from the root.   *)
(*                                                                         *)
(* Everything runs under the socket lock: an action is a whole operation   *)
(* of the scheduler.  A child list of the code is the set of streams with  *)
(* this parent and this list: active lists are sorted by weight and id at  *)
(* every insertion, and the order of the blocked ones decides nothing.     *)
(***************************************************************************)
EXTENDS Integers, FiniteSets, FiniteSetsExt, Functions, SequencesExt

CONSTANTS MaxStream,    \* the streams are 1..MaxStream
          Weights,      \* weights in HEADERS and PRIORITY frames
          MaxWeight     \* bound on the weights that removals may give

Streams == 1..MaxStream
Root    == 0
None    == MaxStream + 1    \* no parent: the stream is not in the tree
Entries == {Root} \cup Streams

ASSUME SchedBounds == /\ MaxStream \in Nat \ {0}
                      /\ MaxWeight \in Nat
                      /\ Weights \subseteq 1..MaxWeight

VARIABLE t  \* TfwStreamSched with the entries of the streams

(***************************************************************************)
(* streams: the streams stored; act: the ones with data and not blocked by *)
(* a window; parent, list (sched_state), weight; cnt and total are         *)
(* active_cnt and total_weight of an entry; bugs the assertions that       *)
(* failed.                                                                 *)
(***************************************************************************)
Init == t = [streams |-> {}, act |-> {},
             parent |-> [i \in Streams |-> None],
             list   |-> [i \in Streams |-> "unknown"],
             weight |-> [i \in Streams |-> 0],
             cnt    |-> [e \in Entries |-> 0],
             total  |-> [e \in Entries |-> 0],
             bugs   |-> {}]

Bug(x, name, cond) == [x EXCEPT !.bugs = IF cond THEN @ \cup {name} ELSE @]

Kids(x, p, l) == {i \in Streams : x.parent[i] = p /\ x.list[i] = l}
HasChildren(x, p) == Kids(x, p, "active") \cup Kids(x, p, "blocked") # {}

\* What the stream contributes to active_cnt of its ancestors.
Share(x, i) == x.cnt[i] + (IF i \in x.act THEN 1 ELSE 0)

\* The entry p and its ancestors, up to the root or to a stream that is out
\* of the tree at the moment.
Chain(x, p) ==
    LET up[n \in 0..MaxStream] ==
            IF n = 0 THEN p
            ELSE IF up[n - 1] \in {Root, None} THEN None
            ELSE x.parent[up[n - 1]]
    IN {up[n] : n \in 0..MaxStream} \ {None}

----------------------------------------------------------------------------
\* tfw_h2_stream_sched_insert_active() and _insert_blocked()
InsertActive(x, i) ==
    Bug([x EXCEPT !.list[i] = "active"], "insert_active",
        x.parent[i] = None \/ Share(x, i) = 0 \/ x.list[i] = "active")

InsertBlocked(x, i) ==
    Bug([x EXCEPT !.list[i] = "blocked"], "insert_blocked",
        x.parent[i] = None \/ Share(x, i) # 0 \/ x.list[i] = "blocked")

\* The counters of p and of what is above it grow by k; streams that had no
\* active descendant before go to the active list of their parent.
PropagateAdd(x, p, k) ==
    LET path == Chain(x, p)
        y == [x EXCEPT !.cnt = [e \in Entries |-> IF e \in path THEN @[e] + k
                                                  ELSE @[e]]]
        moved == {i \in path \ {Root} : /\ x.parent[i] # None
                                        /\ x.cnt[i] = 0 /\ i \notin x.act}
        Move(z, i) == InsertActive(Bug(z, "add_cnt", z.list[i] # "blocked"), i)
    IN FoldLeft(Move, y, SetToSeq(moved))

PropagateDec(x, p, k) ==
    LET path == Chain(x, p)
        y == [x EXCEPT !.cnt = [e \in Entries |-> IF e \in path THEN @[e] - k
                                                  ELSE @[e]]]
        moved == {i \in path \ {Root} : x.parent[i] # None /\ Share(y, i) = 0}
        Move(z, i) == InsertBlocked(Bug(z, "dec_cnt", z.list[i] # "active"), i)
    IN FoldLeft(Move, y, SetToSeq(moved))

\* __tfw_h2_stream_sched_remove(), which leaves the counters.
Unhook(x, i) ==
    [x EXCEPT !.list[i] = "unknown", !.parent[i] = None,
              !.total[x.parent[i]] = @ - x.weight[i]]

\* __tfw_h2_stream_sched_enqueue()
Hook(x, i, p) ==
    LET y == Bug([x EXCEPT !.total[p] = @ + x.weight[i], !.parent[i] = p],
                 "enqueue", x.list[i] # "unknown")
    IN IF Share(y, i) > 0 THEN InsertActive(y, i) ELSE InsertBlocked(y, i)

\* Mutant: active descendants of the stream are not taken from the counters.
SchedRemoveSelf(x, i) ==
    IF i \in x.act THEN PropagateDec(Unhook(x, i), x.parent[i], 1)
    ELSE Unhook(x, i)

SchedRemove(x, i) ==
    LET k == Share(x, i)
    IN IF k = 0 THEN Unhook(x, i)
       ELSE PropagateDec(Unhook(x, i), x.parent[i], k)

Enqueue(x, i, p) ==
    LET k == Share(x, i)
    IN IF k = 0 THEN Hook(x, i, p) ELSE PropagateAdd(Hook(x, i, p), p, k)

Reinsert(x, i, p) == Hook(Unhook(x, i), i, p)

----------------------------------------------------------------------------
\* tfw_h2_add_stream_dep(): an exclusive stream takes the children of dep.
AddStreamDep(x, i, dep, excl) ==
    LET Move(z, j) == Enqueue(SchedRemove(z, j), j, i)
        all == SetToSeq(Kids(x, dep, "blocked")) \o
               SetToSeq(Kids(x, dep, "active"))
        y == FoldLeft(Move, x, all)
    IN IF ~excl THEN Enqueue(x, i, dep)
       ELSE Enqueue(Bug(y, "add_dep", HasChildren(y, dep)), i, dep)

\* An unsigned 64-bit division: a divisor below zero is a huge one in the
\* code.  The result is cut to 16 bits and is 1 at least.
NewWeight(w, parent, total) ==
    IF total < 0 THEN 1 ELSE Max({1, ((w * parent) \div total) % 65536})

\* tfw_h2_stream_sched_move_children(): total_weight is read once, then the
\* weight of each child is changed and the child is unhooked with it.
MoveChildren(x, i, p, l, share) ==
    LET total == x.total[i]
        Move(z, j) ==
            IF share /\ total = 0 THEN Reinsert(Bug(z, "div", TRUE), j, p)
            ELSE IF share
            THEN Reinsert([z EXCEPT !.weight[j] =
                               NewWeight(@, z.weight[i], total)], j, p)
            ELSE Reinsert(z, j, p)
    IN FoldLeft(Move, x, SetToSeq(Kids(x, i, l)))

\* tfw_h2_remove_stream_dep(), then the stream and its entry are freed.
RemoveStreamDep(x, i) ==
    LET p == x.parent[i]
        y == [Unhook(x, i) EXCEPT !.cnt[i] = 0]
        share == HasChildren(y, p)
        z == MoveChildren(MoveChildren(y, i, p, "blocked", share),
                          i, p, "active", share)
        d == IF i \in x.act THEN PropagateDec(z, p, 1) ELSE z
    IN [d EXCEPT !.streams = @ \ {i}, !.act = @ \ {i},
                 !.weight[i] = 0, !.total[i] = 0]

\* tfw_h2_is_stream_depend_on_child()
DependsOnChild(x, i, p) == p \in Streams /\ i \in Chain(x, x.parent[p])

\* Mutant: the new parent is not moved out of the way first.
ChangeStreamDepPlain(x, i, p, w, excl) ==
    AddStreamDep([SchedRemove(x, i) EXCEPT !.weight[i] = w], i, p, excl)

\* tfw_h2_change_stream_dep(): if the new parent depends on the stream, it
\* first takes its place (RFC 7540 5.3.3).
ChangeStreamDep(x, i, p, w, excl) ==
    IF ~DependsOnChild(x, i, p)
    THEN AddStreamDep([SchedRemove(x, i) EXCEPT !.weight[i] = w], i, p, excl)
    ELSE LET y == SchedRemove(SchedRemove(x, p), i)
             z == AddStreamDep([y EXCEPT !.weight[i] = w], p, x.parent[i], FALSE)
         IN AddStreamDep(z, i, p, excl)

\* tfw_h2_sched_get_most_prio_stream(): down from the root, at each level the
\* last stream of the active list (the largest weight, then the smallest id),
\* until one is active itself.
Heaviest(x, p) ==
    CHOOSE i \in Kids(x, p, "active") :
        \A j \in Kids(x, p, "active") :
            \/ x.weight[j] < x.weight[i]
            \/ x.weight[j] = x.weight[i] /\ j >= i

MostPrio(x) ==
    LET walk[n \in 0..MaxStream] ==
            IF n = 0 THEN Root
            ELSE LET e == walk[n - 1]
                 IN IF e = None \/ e \in x.act THEN e
                    ELSE IF Kids(x, e, "active") = {} THEN None
                    ELSE Heaviest(x, e)
    IN walk[MaxStream]

\* tfw_h2_stream_is_exclusive(): the only child of its parent.
Exclusive(x, i) == {j \in Streams : x.parent[j] = x.parent[i]} = {i}

----------------------------------------------------------------------------
\* tfw_h2_find_stream_dep(): a stream that is not stored means the root.
Deps == {Root} \cup t.streams

\* tfw_h2_stream_create() and tfw_h2_add_stream_dep().
Create(i, d, w, excl) ==
    /\ i \notin t.streams
    /\ t' = AddStreamDep([t EXCEPT !.streams = @ \cup {i}, !.weight[i] = w],
                         i, d, excl)

\* PRIORITY of a stream that is stored.
Priority(i, d, w, excl) ==
    /\ i \in t.streams
    /\ d # i
    /\ t' = ChangeStreamDep(t, i, d, w, excl)

\* RST_STREAM, or the stream is dropped from the queue of closed streams.
Clean(i) ==
    /\ i \in t.streams
    /\ t' = RemoveStreamDep(t, i)

\* Mutant: a stream with active children is inserted again.
ActivateAgain(i) ==
    /\ i \in t.streams \ t.act
    /\ LET x == [t EXCEPT !.act = @ \cup {i}]
       IN t' = PropagateAdd(InsertActive(x, i), t.parent[i], 1)

\* tfw_h2_sched_activate_stream(): a response was queued to the stream, or
\* its window was opened.
Activate(i) ==
    /\ i \in t.streams \ t.act
    /\ LET x == [t EXCEPT !.act = @ \cup {i}]
           y == IF x.cnt[i] = 0 THEN InsertActive(x, i) ELSE x
       IN t' = PropagateAdd(y, t.parent[i], 1)

\* tfw_h2_sched_deactivate_stream()
DeactivateStream(x, i) ==
    LET y == [x EXCEPT !.act = @ \ {i}]
        z == IF y.cnt[i] = 0 THEN InsertBlocked(y, i) ELSE y
    IN PropagateDec(z, x.parent[i], 1)

\* tfw_h2_make_frames() has sent what stream i may send: all that it has, or as
\* much as the window of the stream allows.
Sent(i, all) ==
    LET y == DeactivateStream(t, i)
    IN IF ~all THEN y
       ELSE IF Exclusive(t, i) THEN RemoveStreamDep(y, i)
       ELSE Reinsert(y, i, y.parent[i])

SendNext(all) ==
    /\ t.cnt[Root] > 0
    /\ LET i == MostPrio(t)
       IN t' = IF i = None THEN Bug(t, "make_frames", TRUE) ELSE Sent(i, all)

\* The stream in the middle of a header block or with an error response goes
\* before the others; it may be any active one.
SendCurrent(i, all) ==
    /\ t.cnt[Root] > 0
    /\ i \in t.act
    /\ t' = Sent(i, all)

\* Bound of the instance: the weights that removals give stay small.
WeightsBounded == \A i \in Streams : t'.weight[i] <= MaxWeight

Next ==
    /\ \/ \E i \in Streams, d \in Deps, w \in Weights, excl \in BOOLEAN :
             Create(i, d, w, excl) \/ Priority(i, d, w, excl)
       \/ \E i \in Streams : Clean(i) \/ Activate(i)
       \/ \E all \in BOOLEAN : SendNext(all) \/ \E i \in Streams : SendCurrent(i, all)
    /\ WeightsBounded

Spec == Init /\ [][Next]_t

----------------------------------------------------------------------------
(***************************************************************************)
(* Properties.                                                             *)
(***************************************************************************)

\* After any sequence of insertions, moves, exclusive insertions, removals
\* and sends, active_cnt of every entry is the number of its active
\* descendants and total_weight the sum of the weights of its children: no
\* path of the code counts a subtree twice or forgets it.
CountsExact ==
    \A e \in {Root} \cup t.streams :
        /\ t.cnt[e] = Cardinality({i \in t.act : i # e /\ e \in Chain(t, i)})
        /\ t.total[e] = MapThenSumSet(LAMBDA i : t.weight[i],
                                      {i \in t.streams : t.parent[i] = e})

\* The tree is a tree: every stream stored reaches the root, so that no
\* PRIORITY frame makes a cycle or cuts off a subtree; and a stream is in the
\* active list of its parent if and only if it or a descendant may send.
TreeRight ==
    \A i \in t.streams :
        /\ Root \in Chain(t, i)
        /\ Chain(t, i) \subseteq {Root} \cup t.streams
        /\ t.list[i] = IF Share(t, i) > 0 THEN "active" ELSE "blocked"

\* No assertion of the scheduler and of tfw_h2_make_frames() fails, and as
\* long as the root counts an active stream the walk ends at one: data that
\* may be sent is never out of reach.  The exception is the divisor of the new
\* weights, which can be 0 when the second list of children is moved
\* (WeightsShared): a division by zero in the kernel.
AssertionsHold ==
    /\ t.bugs \subseteq {"div"}
    /\ t.cnt[Root] > 0 => MostPrio(t) \in t.act

\* If a stream is removed and its parent has other children, its weight is
\* divided between its own children according to their weights, as the
\* comment in tfw_h2_stream_sched_move_children() says.
WeightsShared ==
    [][\A i \in t.streams \ t'.streams :
          LET kids == {j \in t.streams : t.parent[j] = i}
              others == {j \in t.streams : t.parent[j] = t.parent[i]} \ {i}
              sum == MapThenSumSet(LAMBDA j : t.weight[j], kids)
          IN others # {} => \A j \in kids :
                t'.weight[j] = Max({1, (t.weight[j] * t.weight[i]) \div sum})]_t
=============================================================================
