----------------------------- MODULE DhtSearch -----------------------------
(***************************************************************************)
(* The searching side of the DHT: the bootstrap, the refresh of the table, *)
(* the lookups, and the handler that starts them, hands them the answers   *)
(* and timeouts and reacts to their status.  The handler is one task, so   *)
(* it handles a task in one step; what runs beside it are the network and  *)
(* the timers.  A request that was sent may be answered at any time, again *)
(* and again, or never; timers expire in any order.                        *)
(*                                                                         *)
(* The operators take the state h of the handler and give the state after; *)
(* those of methods that return a status put it in h.status.               *)
(***************************************************************************)
EXTENDS RoutingTable

CONSTANTS
    StartAddrs,      \* addresses of the routers, then of the starting nodes
    Routers,         \* the addresses among them that are routers
    InfoHash,        \* the info hash of every search, by the name of its action
    Knows,           \* the nodes that a contact names in its answers
    Kinds,           \* what get_peers answers have: "nodes", "values", "both"
    PingsPerBucket,  \* BOOTSTRAP_PINGS_PER_BUCKET
    GoodThreshold,   \* BOOTSTRAP_GOOD_NODE_THRESHOLD
    MaxAttempts,     \* MAX_BOOTSTRAP_ATTEMPTS
    InitialPick,     \* INITIAL_PICK_NUM
    IterativePick,   \* ITERATIVE_PICK_NUM
    Credits          \* how many messages the messenger may take in all

VARIABLE dht         \* the handler, its actions, the channels and timers

Unlimited == -1
Targets == DOMAIN InfoHash

NewLookup == [state |-> "none", active |-> {}, sorted |-> <<>>, asked |-> {}, tokens |-> {},
              endgame |-> FALSE, values |-> FALSE, next |-> 0]

SearchInit ==
    \E credit \in Credits :
        dht = [table |-> <<NewBucket>>,
               boot |-> [state |-> "none", active |-> {}, curr |-> 0, attempts |-> 0, next |-> 0],
               refresh |-> [state |-> "none", curr |-> 0],
               lookups |-> [t \in Targets |-> NewLookup],
               future |-> <<"refresh">>,    \* future_actions: the refresh and the queued targets
               bootstrapping |-> FALSE,
               shutdown |-> {},             \* Shutdown tasks in the main channel
               events |-> <<>>,             \* what was broadcast
               sent |-> {},                 \* requests sent: [act, n, to]
               timers |-> {},               \* timers running: [act, n]
               out |-> credit,              \* messages the messenger still takes
               panicked |-> FALSE,
               status |-> "none"]

-----------------------------------------------------------------------------
(* Sending                                                                 *)

(* How many of k messages can be sent; the first that cannot be is an Err. *)
Sendable(h, k) == IF h.out = Unlimited THEN k ELSE Min({h.out, k})

(* The messages of action act with ids n + 1, n + 2, ... to the addresses. *)
SendTo(h, act, n, addrs) ==
    [h EXCEPT !.sent = @ \cup {[act |-> act, n |-> n + k, to |-> addrs[k]] : k \in DOMAIN addrs},
              !.out = IF @ = Unlimited THEN @ ELSE @ - Len(addrs)]

(* A timer for each of the ids n + 1 .. n + k.                             *)
StartTimers(h, act, n, k) == [h EXCEPT !.timers = @ \cup {[act |-> act, n |-> n + i] : i \in 1 .. k}]

(* Mark a request of ours in the nodes of the table.                       *)
MarkAsked(h, places) == [h EXCEPT !.table = Mark(@, places, local_request)]

TablePlaces(t, contacts) ==
    {<<b, i>> \in (DOMAIN t) \X (1 .. BucketSize) :
        t[b][i].response # Never /\ \E c \in contacts : SameNode(t[b][i], c)}

broadcast_dht_event(h, event) == [h EXCEPT !.events = Append(@, event)]

handle_shutdown(h, cause) == broadcast_dht_event(h, cause)

ShutdownIfFailed(h) == IF h.status = "Failed" THEN handle_shutdown(h, "ShuttingDown") ELSE h

Take(s, n) == SubSeq(s, 1, Min({Len(s), n}))
Contact(n) == [id |-> n.id, addr |-> n.addr]
IsQuestionable(n) == Status(n) = Questionable
IsGood(n) == Status(n) = Good

-----------------------------------------------------------------------------
(* TableBootstrap                                                          *)

current_bootstrap_status(h) ==
    [h EXCEPT !.status = IF h.boot.curr = MAX_BUCKETS \/ h.boot.active = {}
                         THEN "Idle" ELSE "Bootstrapping"]

(* One id for all the routers and starting nodes.  The timer is aborted if *)
(* a message cannot be sent; the id stays active.                          *)
start_bootstrap(h) ==
    LET n == h.boot.next + 1
        addrs == SubSeq(StartAddrs, 1, Sendable(h, Len(StartAddrs)))
        started == [h EXCEPT !.boot.active = {n}, !.boot.curr = 0, !.boot.next = n,
            !.sent = @ \cup {[act |-> "boot", n |-> n, to |-> a] : a \in ToSet(addrs)},
            !.out = IF @ = Unlimited THEN @ ELSE @ - Len(addrs)]
    IN  IF Len(addrs) < Len(StartAddrs) THEN [started EXCEPT !.status = "Failed"]
        ELSE current_bootstrap_status(StartTimers(started, "boot", n - 1, 1))

RECURSIVE bootstrap_next_bucket(_)

(* Asks up to PingsPerBucket nodes, and goes on with the next bucket right *)
(* away when there is nobody to ask.                                       *)
send_bootstrap_requests(h, nodes) ==
    LET want == Take(nodes, PingsPerBucket)
        Asked(ok, n) ==
            [StartTimers(MarkAsked(SendTo(h, "boot", n, [k \in DOMAIN ok |-> ok[k].addr]),
                                   TablePlaces(h.table, ToSet(ok))), "boot", n, Len(ok))
             EXCEPT !.boot.active = @ \cup ((n + 1) .. (n + Len(ok))), !.boot.next = n + Len(want)]
        GoOn(next) ==
            IF next.boot.curr = MAX_BUCKETS THEN [next EXCEPT !.status = "Completed"]
            ELSE IF want = <<>> THEN bootstrap_next_bucket(next)
            ELSE [next EXCEPT !.status = "Bootstrapping"]
        ok == SubSeq(want, 1, Sendable(h, Len(want)))
    IN  IF Len(ok) < Len(want) THEN [Asked(ok, h.boot.next) EXCEPT !.status = "Failed"]
        ELSE GoOn([Asked(want, h.boot.next) EXCEPT !.boot.curr = @ + 1])

(* The questionable nodes for bucket curr; flip_id_bit_at_index panics     *)
(* past the last one.                                                      *)
bootstrap_next_bucket(h) ==
    LET curr == h.boot.curr
        BucketAt(i) == LET item == BucketContents(h.table, i)
                       IN  IF item.kind = "empty" THEN <<>> ELSE h.table[item.at]
        nodes == IF curr \in {0, 1} THEN closest_nodes(h.table, flip_id_bit_at_index(SelfId, curr))
                 ELSE BucketAt(curr - 2) \o BucketAt(curr - 1) \o BucketAt(curr)
    IN  IF curr >= MAX_BUCKETS THEN [h EXCEPT !.panicked = TRUE, !.status = "panic"]
        ELSE send_bootstrap_requests(h, SelectSeq(nodes, IsQuestionable))

(* TableBootstrap::recv_response: an answer to the initial messages leaves *)
(* their id active until the timeout.                                      *)
boot_recv_response(h, n) ==
    LET left == IF h.boot.curr = 0 THEN h ELSE [h EXCEPT !.boot.active = @ \ {n}]
    IN  IF n \notin h.boot.active THEN current_bootstrap_status(h)
        ELSE IF left.boot.active = {} THEN bootstrap_next_bucket(left)
        ELSE current_bootstrap_status(left)

(* Mutant: only an answer goes on with the next bucket.                    *)
boot_recv_timeout_stay(h, n) == [h EXCEPT !.boot.active = @ \ {n}, !.status = "Bootstrapping"]

boot_recv_timeout(h, n) ==
    LET left == [h EXCEPT !.boot.active = @ \ {n}]
    IN  IF n \notin h.boot.active THEN current_bootstrap_status(h)
        ELSE IF left.boot.active = {} THEN bootstrap_next_bucket(left)
        ELSE current_bootstrap_status(left)

-----------------------------------------------------------------------------
(* TableRefresh                                                            *)

(* Asks the first questionable node of the walk for the next bucket and    *)
(* starts the timer for the one after.  Only the action id of its ids is   *)
(* used, so that they are all taken to be 0.                               *)
continue_refresh(h) ==
    LET bucket == IF h.refresh.curr = MAX_BUCKETS THEN 0 ELSE h.refresh.curr
        Ask(ask) == [MarkAsked(h, TablePlaces(h.table, ToSet(ask))) EXCEPT
            !.sent = @ \cup {[act |-> "refresh", n |-> 0, to |-> c.addr] : c \in ToSet(ask)},
            !.out = IF @ = Unlimited THEN @ ELSE @ - Len(ask)]
        Refresh(ask) ==
            IF Sendable(h, Len(ask)) < Len(ask) THEN [h EXCEPT !.refresh.curr = bucket, !.status = "Failed"]
            ELSE [StartTimers(Ask(ask), "refresh", -1, 1) EXCEPT !.refresh.curr = bucket + 1, !.status = "Refreshing"]
    IN  Refresh(Take(SelectSeq(closest_nodes(h.table, flip_id_bit_at_index(SelfId, bucket)), IsQuestionable), 1))

(* handle_check_table_refresh, the action being a refresh.                 *)
check_table_refresh(h) == ShutdownIfFailed(continue_refresh(h))

-----------------------------------------------------------------------------
(* TableLookup: t is the name of the action, InfoHash[t] its target        *)

Dist(t, c) == Xor[InfoHash[t], c.id]

(* Mutant: a node at the distance of another is always inserted.           *)
insert_sorted_again(nodes, t, c, pinged) ==
    InsertAt(nodes, 1 + Cardinality({i \in DOMAIN nodes : nodes[i].dist < Dist(t, c)}),
             [dist |-> Dist(t, c), node |-> c, pinged |-> pinged])

(* Sorted by distance, a node once; what was asked of it is not changed    *)
(* for a node that is there already.                                       *)
insert_sorted_node(nodes, t, c, pinged) ==
    LET new == [dist |-> Dist(t, c), node |-> c, pinged |-> pinged]
        same == {i \in DOMAIN nodes : nodes[i].dist = new.dist}
        at == IF same # {} THEN Min(same)
              ELSE 1 + Cardinality({i \in DOMAIN nodes : nodes[i].dist < new.dist})
    IN  IF same # {} /\ nodes[at].node = c THEN nodes ELSE InsertAt(nodes, at, new)

insert_all(nodes, t, cs, Pinged(_)) ==
    FoldLeft(LAMBDA s, c : insert_sorted_node(s, t, c, Pinged(c)), nodes, cs)

(* A newcomer takes the place of the first pick that is farther away.      *)
insert_closest_nodes(picks, t, c) ==
    LET farther == {i \in DOMAIN picks : Dist(t, c) < Dist(t, picks[i])}
    IN  IF farther # {} THEN [picks EXCEPT ![Min(farther)] = c]
        ELSE IF Len(picks) < IterativePick THEN Append(picks, c)
        ELSE picks

pick_iterate_nodes(cs, t) == FoldLeft(LAMBDA p, c : insert_closest_nodes(p, t, c), <<>>, cs)

current_lookup_status(h, t) ==
    [h EXCEPT !.status = IF h.lookups[t].endgame \/ h.lookups[t].active # {} THEN "Searching" ELSE "Completed"]

(* One request to each of nodes, with the distance its answer has to beat. *)
start_request_round(h, t, nodes, beats) ==
    LET ok == SubSeq(nodes, 1, Sendable(h, Len(nodes)))
        n == h.lookups[t].next
        tried == Min({Len(nodes), Len(ok) + 1})
        places == UNION {FindNode(h.table, c) : c \in ToSet(ok)}
        asked == StartTimers(MarkAsked(SendTo(h, t, n, [k \in DOMAIN ok |-> ok[k].addr]), places), t, n, Len(ok))
    IN  [asked EXCEPT
            !.lookups[t].active = IF nodes = <<>> THEN {}
                                  ELSE @ \cup {[n |-> n + k, beat |-> beats[k]] : k \in 1 .. tried},
            !.lookups[t].asked = @ \cup ToSet(ok),
            !.lookups[t].next = n + tried,
            !.status = IF Len(ok) < Len(nodes) THEN "Failed" ELSE IF nodes = <<>> THEN "Completed" ELSE "Searching"]

(* Once no request of the search is out: unless peers were found, every    *)
(* node that was not asked is.  No timer is started.                       *)
start_endgame_round(h, t) ==
    LET l == h.lookups[t]
        fresh == IF l.values THEN <<>> ELSE SelectSeq(l.sorted, LAMBDA e : ~e.pinged)
        ok == SubSeq(fresh, 1, Sendable(h, Len(fresh)))
        places == UNION {FindNode(h.table, ok[k].node) : k \in DOMAIN ok}
    IN  [MarkAsked(SendTo(h, t, l.next, [k \in DOMAIN ok |-> ok[k].node.addr]), places) EXCEPT
            !.lookups[t].endgame = TRUE,
            !.lookups[t].active = @ \cup {[n |-> l.next + k, beat |-> fresh[k].dist] : k \in DOMAIN fresh},
            !.lookups[t].next = l.next + Len(fresh),
            !.lookups[t].sorted = [i \in DOMAIN @ |->
                [@[i] EXCEPT !.pinged = @ \/ \E k \in DOMAIN ok : ok[k] = l.sorted[i]]],
            !.status = IF Len(ok) < Len(fresh) THEN "Failed" ELSE "Searching"]

(* TableLookup::new: the closest good nodes, the first of them asked.      *)
NewTableLookup(h, t) ==
    LET good == Take(SelectSeq(closest_nodes(h.table, InfoHash[t]), IsGood), BucketSize)
        Pinged(sorted) == [i \in DOMAIN sorted |-> [sorted[i] EXCEPT !.pinged = i <= InitialPick]]
        Begin(sorted, picks) ==
            start_request_round([h EXCEPT !.lookups[t] = [NewLookup EXCEPT !.state = "active", !.sorted = Pinged(sorted)]],
                t, [k \in DOMAIN picks |-> picks[k].node], [k \in DOMAIN picks |-> picks[k].dist])
        Start(sorted) == Begin(sorted, Take(sorted, InitialPick))
    IN  Start(insert_all(<<>>, t, [k \in DOMAIN good |-> Contact(good[k])], LAMBDA c : FALSE))

(* When no request is out and the endgame has not begun, it begins.        *)
MaybeEndgame(h, t) ==
    IF ~h.lookups[t].endgame /\ h.lookups[t].active = {} THEN start_endgame_round(h, t)
    ELSE current_lookup_status(h, t)

(* TableLookup::recv_response: the nodes of the answer are remembered; if  *)
(* one that was not asked beats the distance, the closest of them are      *)
(* asked.  In the endgame they are only taken down as asked.               *)
lookup_recv_response(h, t, n, c, nodes, kind) ==
    LET l == h.lookups[t]
        beat == (CHOOSE a \in l.active : a.n = n).beat
        named == IF kind = "values" THEN <<>> ELSE nodes
        fresh == SelectSeq(named, LAMBDA m : m \notin l.asked)
        closest == Min({beat} \cup {Dist(t, m) : m \in ToSet(fresh)})
        Heard(picks) == [h EXCEPT !.lookups[t].active = {a \in @ : a.n # n},
                                  !.lookups[t].tokens = @ \cup {c},
                                  !.lookups[t].values = @ \/ kind = "values",
                                  !.lookups[t].sorted = insert_all(@, t, named, LAMBDA m : m \in ToSet(picks))]
        Ask(g, picks) == IF l.endgame \/ picks = <<>> THEN [g EXCEPT !.status = "Searching"]
                         ELSE start_request_round(g, t, picks, [k \in DOMAIN picks |-> closest])
        Asked(picks) == Ask(Heard(picks), picks)
        Done(g) == IF g.status = "Failed" THEN g ELSE MaybeEndgame(g, t)
        WithValues(g) == IF g.status # "Failed" /\ kind # "nodes" THEN [g EXCEPT !.status = "Values"] ELSE g
    IN  IF ~\E a \in l.active : a.n = n THEN current_lookup_status(h, t)
        ELSE WithValues(Done(Asked(IF closest < beat THEN pick_iterate_nodes(fresh, t) ELSE <<>>)))

lookup_recv_timeout(h, t, n) ==
    IF ~\E a \in h.lookups[t].active : a.n = n THEN current_lookup_status(h, t)
    ELSE MaybeEndgame([h EXCEPT !.lookups[t].active = {a \in @ : a.n # n}], t)

-----------------------------------------------------------------------------
(* The handler                                                             *)

(* handle_start_lookup: queued while bootstrapping; a lookup that cannot   *)
(* send its first requests is dropped.                                     *)
start_lookup(h, t) ==
    LET Started(new) ==
            IF new.status # "Failed" THEN new
            ELSE handle_shutdown([new EXCEPT !.lookups[t] = [NewLookup EXCEPT !.state = "failed"]], "ShuttingDown")
    IN  IF h.bootstrapping THEN [h EXCEPT !.future = Append(@, t), !.lookups[t].state = "queued"]
        ELSE Started(NewTableLookup(h, t))

(* The event, and then the actions that waited for the end.  Answers and   *)
(* timeouts of the bootstrap find no action from here on and are dropped   *)
(* here, when their action goes.                                           *)
broadcast_bootstrap_completed(h) ==
    LET ended == [broadcast_dht_event(h, "BootstrapCompleted") EXCEPT
                    !.bootstrapping = FALSE, !.boot.state = "removed", !.boot.active = {}, !.future = <<>>,
                    !.sent = {m \in @ : m.act # "boot"}, !.timers = {r \in @ : r.act # "boot"}]
        Start(g, a) == IF a = "refresh"
                         THEN check_table_refresh([g EXCEPT !.refresh.state = "active"])
                       ELSE start_lookup(g, a)
    IN  FoldLeft(Start, ended, h.future)

num_good_nodes(t) == Len(SelectSeq(closest_nodes(t, SelfId), IsGood))

should_rebootstrap(t) == num_good_nodes(t) <= GoodThreshold

shutdown_event_loop(h, cause) == [h EXCEPT !.shutdown = @ \cup {cause}, !.status = "none"]

(* status "complete": the caller goes on with the end of the bootstrap.    *)
attempt_rebootstrap(h) ==
    LET tried == [h EXCEPT !.boot.attempts = @ + 1]
        again == start_bootstrap(tried)
    IN  IF tried.boot.attempts >= MaxAttempts
          THEN IF num_good_nodes(h.table) = 0 THEN shutdown_event_loop(tried, "BootstrapFailed")
               ELSE [tried EXCEPT !.status = "complete"]
        ELSE IF again.status = "Failed" THEN shutdown_event_loop(again, "ShuttingDown")
        ELSE again

(* What the handler does with the status of the bootstrap, after an answer *)
(* and after a timeout alike.                                              *)
BootstrapStep(h) ==
    LET GoOn(next) == IF next.status \in {"Idle", "Completed", "complete"} THEN broadcast_bootstrap_completed(next)
                      ELSE next
    IN  IF h.status = "Failed" THEN handle_shutdown(h, "ShuttingDown")
        ELSE GoOn(IF h.status = "Completed" /\ should_rebootstrap(h.table) THEN attempt_rebootstrap(h) ELSE h)

(* What it does with the status of a lookup; peers go to the handshaker.   *)
LookupStep(h, t) ==
    IF h.status = "Completed" THEN broadcast_dht_event(h, "LookupCompleted")
    ELSE ShutdownIfFailed(h)

(* The status does not outlive the step.                                   *)
Becomes(h) == dht' = [h EXCEPT !.status = "none"]

Alive == ~dht.panicked

handle_start_bootstrap ==
    /\ Alive /\ dht.boot.state = "none"
    /\ Becomes(ShutdownIfFailed([start_bootstrap(dht) EXCEPT !.bootstrapping = TRUE, !.boot.state = "active"]))

handle_start_lookup(t) ==
    /\ Alive /\ dht.boot.state # "none" /\ dht.lookups[t].state = "none"
    /\ Becomes(start_lookup(dht, t))

HandleShutdownTask(cause) ==
    /\ Alive
    /\ Becomes(handle_shutdown([dht EXCEPT !.shutdown = @ \ {cause}], cause))

(* Node c answers a find_node request of the bootstrap or of the refresh.  *)
FindNodeResponse(m, c) ==
    LET isRouter == m.act = "boot" /\ c.addr \in Routers
        Heard(t) == IF isRouter THEN t ELSE AddNode(t, as_good(c))
        h == [dht EXCEPT !.table = Heard(AddNodes(@, [k \in DOMAIN Knows[c] |-> as_questionable(Knows[c][k])]))]
    IN  /\ Alive /\ c.addr = m.to
        /\ \/ m.act = "refresh" /\ Becomes(h)
           \/ m.act = "boot" /\ dht.boot.state = "active" /\ Becomes(BootstrapStep(boot_recv_response(h, m.n)))

(* Node c answers a get_peers request of a lookup.                         *)
GetPeersResponse(m, c, kind) ==
    LET h == [dht EXCEPT !.table = AddNode(@, as_good(c))]
    IN  /\ Alive /\ c.addr = m.to
        /\ m.act \in Targets /\ dht.lookups[m.act].state = "active"
        /\ Becomes(LookupStep(lookup_recv_response(h, m.act, m.n, c, Knows[c], kind), m.act))

handle_check_table_refresh(r) ==
    /\ Alive /\ r.act = "refresh"
    /\ Becomes(check_table_refresh([dht EXCEPT !.timers = @ \ {r}]))

handle_check_bootstrap_timeout(r) ==
    LET h == [dht EXCEPT !.timers = @ \ {r}]
    IN  /\ Alive /\ r.act = "boot"
        /\ Becomes(BootstrapStep(boot_recv_timeout(h, r.n)))

handle_check_lookup_timeout(r) ==
    LET h == [dht EXCEPT !.timers = @ \ {r}]
    IN  /\ Alive /\ r.act \in Targets
        /\ Becomes(IF dht.lookups[r.act].state = "active"
                   THEN LookupStep(lookup_recv_timeout(h, r.act, r.n), r.act) ELSE h)

Timeout(r) ==
    \/ handle_check_table_refresh(r)
    \/ handle_check_bootstrap_timeout(r)
    \/ handle_check_lookup_timeout(r)

SearchNext ==
    \/ handle_start_bootstrap
    \/ \E t \in Targets : handle_start_lookup(t)
    \/ \E cause \in dht.shutdown : HandleShutdownTask(cause)
    \/ \E m \in dht.sent, c \in Contacts :
        FindNodeResponse(m, c) \/ \E kind \in Kinds : GetPeersResponse(m, c, kind)
    \/ \E r \in dht.timers : Timeout(r)

(* Weak fairness of the tasks of the handler: those in its two channels    *)
(* are handled, and timers expire.  It is written out, a timer running     *)
(* being what enables a timeout.  That anybody answers is not assumed.     *)
TimersExpire(acts) ==
    \/ []<>(dht.panicked \/ ~\E r \in dht.timers : r.act \in acts)
    \/ []<><<\E r \in dht.timers : r.act \in acts /\ r \notin dht'.timers>>_dht

SearchFairness ==
    /\ []<>(dht.panicked \/ dht.shutdown = {})
    /\ TimersExpire({"boot"})
    /\ TimersExpire(Targets)

SearchSpec == SearchInit /\ [][SearchNext]_dht /\ SearchFairness

-----------------------------------------------------------------------------
(* Properties                                                              *)

Count(e) == Cardinality({k \in DOMAIN dht.events : dht.events[k] = e})

SearchTypeOK ==
    /\ dht.boot.curr \in 0 .. MAX_BUCKETS /\ dht.boot.attempts \in 0 .. MaxAttempts
    /\ dht.refresh.curr \in 0 .. MAX_BUCKETS
    /\ \A t \in Targets :
        dht.lookups[t].state \in {"none", "queued", "active", "failed"} /\ dht.lookups[t].tokens \subseteq Contacts
    /\ dht.status = "none"

(* Nothing waits for what may never come: while the messenger takes        *)
(* messages, every id that the bootstrap, or a lookup before its endgame,  *)
(* counts as active has a timer running; and a bootstrap at work has one.  *)
ActiveIsTimed ==
    dht.out = Unlimited =>
        /\ dht.boot.state = "active" /\ Alive =>
            \A n \in dht.boot.active : [act |-> "boot", n |-> n] \in dht.timers
        /\ dht.boot.state = "active" /\ Alive /\ dht.boot.attempts < MaxAttempts => dht.boot.active # {}
        /\ \A t \in Targets : dht.lookups[t].state = "active" /\ ~dht.lookups[t].endgame =>
            \A a \in dht.lookups[t].active : [act |-> t, n |-> a.n] \in dht.timers

(* The end of the bootstrap is announced once; searches are queued before  *)
(* it and only before it, and with it all of them and the refresh start.   *)
QueuedUntilBootstrapped ==
    /\ Count("BootstrapCompleted") <= 1
    /\ Count("BootstrapCompleted") = 1 <=> dht.boot.state = "removed"
    /\ dht.refresh.state = "active" <=> dht.boot.state = "removed"
    /\ \A t \in Targets : dht.lookups[t].state = "queued" <=> t \in ToSet(dht.future)
    /\ dht.boot.state = "removed" => dht.future = <<>> /\ ~dht.bootstrapping

(* Until its endgame a lookup has asked the closest node it has heard of,  *)
(* whatever the order of the answers.                                      *)
ClosestIsAsked ==
    \A t \in Targets :
        LET l == dht.lookups[t]
        IN  l.state = "active" /\ ~l.endgame /\ l.sorted # <<>> /\ dht.out # 0 =>
                l.sorted[1].node \in l.asked

(* What a lookup remembers is sorted by distance, has a node once, has     *)
(* every node it asked, and a node that was not asked is not taken for one *)
(* that was, until the endgame.                                            *)
SortedIsConsistent ==
    \A t \in Targets :
        LET l == dht.lookups[t]
        IN  /\ \A i, j \in DOMAIN l.sorted : i < j => l.sorted[i].dist <= l.sorted[j].dist
            /\ \A i, j \in DOMAIN l.sorted : i # j => l.sorted[i].node # l.sorted[j].node
            /\ l.asked \subseteq {l.sorted[i].node : i \in DOMAIN l.sorted}
            /\ ~l.endgame /\ dht.out # 0 =>
                \A i \in DOMAIN l.sorted : l.sorted[i].pinged => l.sorted[i].node \in l.asked

(* A bootstrap ends, in a completed bootstrap, a shutdown event or a       *)
(* crash, even if nobody ever answers.                                     *)
BootstrapEnds == (dht.boot.state # "none") ~> (dht.events # <<>> \/ dht.panicked)

(* The searches, whatever the network does with their messages: they begin *)
(* after the bootstrap, ask the closest nodes first, remember them in      *)
(* order, wait only for what is timed, and count within the buckets.       *)
SearchIsSound ==
    /\ SearchTypeOK /\ QueuedUntilBootstrapped
    /\ ClosestIsAsked /\ SortedIsConsistent /\ ActiveIsTimed
=============================================================================
