------------------------------- MODULE Cluster -------------------------------
(***************************************************************************)
(* Nodes that ask each other for keys: HTTPPool and httpGetter             *)
(* (cache/http.go), the registry of groups (cache/gocache.go), and the     *)
(* order in which src/main.go puts them together.                          *)
(*                                                                         *)
(* A Get that misses becomes the leader of its key's flight or waits for   *)
(* the leader.  The leader asks the node that owns the key on its own      *)
(* node's ring; the other node parses the URL, finds a group in its        *)
(* registry and calls Get there, in a goroutine of its own.  Every error   *)
(* on that way makes the leader load the key itself.                       *)
(*                                                                         *)
(* Two parts are here at the level of what other modules show of them: the *)
(* ring is any function of its members (ConsistentHash), and the end of a  *)
(* flight releases all who wait in one step (Group has those steps).       *)
(*                                                                         *)
(* Names and keys are sequences of symbols, because the URL of a request   *)
(* is made and taken apart symbol by symbol.  Source values are constant;  *)
(* the value of a key in a group is the pair of their names.               *)
(***************************************************************************)
EXTENDS Naturals, Sequences, SequencesExt

CONSTANTS
    Node,
    Name, Key,          \* of groups, and of entries: sequences of symbols
    Slash, Space, Plus, \* the symbols "/", " " and "+"
    PeerLists,          \* what Set is called with on each node: sets of nodes
    Owners,             \* the placements explored: see owner
    Client, Handler,    \* goroutines of callers, and of net/http
    Home, Asks,         \* each client's node; the names and keys it asks for
    Panicky,            \* the entries whose getter may panic
    None, Err,          \* nothing; an error in place of a value
    MaxFaults           \* bound: crashes, and nodes that hang

Proc == Client \cup Handler
Value == Name \X Key
Request == [node : Node, group : Name, key : Key]

\* url.QueryEscape, and what net/http makes of it again in a path: every symbol
\* comes back, but for the space, which is a "+" by then.
Escaped(name) ==
    [i \in DOMAIN name |-> IF name[i] = Space THEN Plus ELSE name[i]]

ASSUME ClusterAssumption ==
    /\ Name \cup Key \subseteq Seq(UNION {ToSet(s) : s \in Name \cup Key})
    /\ PeerLists \in [Node -> SUBSET SUBSET Node]
    /\ Slash \notin {Space, Plus}
    /\ Home \in [Client -> Node]
    /\ Asks \in [Client -> SUBSET Value]
    /\ Owners \subseteq [(SUBSET Node) \ {{}} -> [Key -> Node]]
    /\ \A f \in Owners : \A S \in DOMAIN f : \A k \in Key : f[S][k] \in S
    /\ Client \cap Handler = {}
    /\ None \notin Proc \cup Node \cup Value \cup Request \cup {Err}
    /\ \A S \in SUBSET Node : S # None
    /\ Err \notin Value
    \* What follows a slash in the path of a request is a key.
    /\ \A g \in Name, k \in Key \ {<<>>} :
          LET rest == Tail(Escaped(g) \o Escaped(k)) IN
          \A i \in DOMAIN rest :
             rest[i] = Slash => SubSeq(rest, i + 1, Len(rest)) \in Key
    /\ MaxFaults \in Nat

VARIABLES
    owner,      \* the ring's answer for each list of peers and key
    boot,       \* how far each node's main has come: made the group, Set the
                \* pool, written one word of g.picker or both, serves
    ring,       \* the keys of HTTPPool.httpGetters, which are the members of
                \* the ring HTTPPool.peers too; None while that one is nil
    cached,     \* the entries of each node's groups
    poisoned,   \* the flights whose leader panicked: they stay registered
    at, req, parent, peer, got,  \* goroutines: see TypeOK
    hung,       \* the nodes that accept connections and do not go on
    faults      \* bounds the exploration: crashes and hangs so far

nodeVars == <<owner, boot, ring, poisoned, hung, faults>>
procVars == <<at, req, parent, peer, got>>
vars == <<nodeVars, cached, procVars>>

\* A goroutine that is in fn leads its flight.
InFn == {"test", "pick", "peer", "http", "replied", "local"}
Place == {"idle", "missed", "wait", "done"} \cup InFn

TypeOK ==
    /\ owner \in Owners
    /\ boot \in [Node -> {"down", "group", "set", "torn", "peers", "serving"}]
    /\ ring \in [Node -> (SUBSET Node) \cup {None}]
    /\ cached \in [Node -> SUBSET Value]
    /\ poisoned \subseteq Request
    /\ at \in [Proc -> Place]
    /\ req \in [Proc -> Request \cup {None}]      \* the Get it is in
    /\ parent \in [Proc -> Proc \cup {None}]      \* who waits for its response
    /\ peer \in [Proc -> Node \cup {None}]        \* whom PickPeer picked
    /\ got \in [Proc -> Value \cup {Err, None}]   \* the value in its hands
    /\ hung \subseteq Node
    /\ faults \in 0 .. MaxFaults

Init ==
    /\ owner \in Owners
    /\ boot = [n \in Node |-> "down"]
    /\ ring = [n \in Node |-> None]
    /\ cached = [n \in Node |-> {}]
    /\ poisoned = {}
    /\ at = [p \in Proc |-> "idle"]
    /\ req = [p \in Proc |-> None]
    /\ parent = [p \in Proc |-> None]
    /\ peer = [p \in Proc |-> None]
    /\ got = [p \in Proc |-> None]
    /\ hung = {}
    /\ faults = 0

Up(n) == boot[n] # "down" /\ n \notin hung

\* The entry of a request, and the value the group's own getter has for it.
Own(r) == <<r.group, r.key>>

-----------------------------------------------------------------------------
(* The URL.  httpGetter.Get appends group and key to baseURL, both escaped,  *)
(* with nothing between them; ServeHTTP drops one symbol after basePath,     *)
(* where it expects a slash, and splits the rest at the first slash.         *)

\* Faulty variant: a slash before the key.
PathHalf(g, k) == Escaped(g) \o <<Slash>> \o Escaped(k)

\* Faulty variant: the format the comment in ServeHTTP asks for.  Nodes with
\* different lists of peers then wait for each other.
PathSlashed(g, k) == <<Slash>> \o Escaped(g) \o <<Slash>> \o Escaped(k)

\* The part of the path after basePath.
Path(g, k) == Escaped(g) \o Escaped(k)

\* parts[0] and parts[1], or None when there is no second part.
Parse(path) ==
    LET rest == Tail(path)
        i == SelectInSeq(rest, LAMBDA s : s = Slash)
    IN  IF i = 0 THEN None
        ELSE [name |-> SubSeq(rest, 1, i - 1),
              key |-> SubSeq(rest, i + 1, Len(rest))]

-----------------------------------------------------------------------------
(* Steps of goroutines. *)

Goto(p, place) == at' = [at EXCEPT ![p] = place]

\* The goroutines that lead, and that wait for, the flight of a request.
Leaders(r) == {p \in Proc : at[p] \in InFn /\ req[p] = r}
Waiters(r) == {p \in Proc : at[p] = "wait" /\ req[p] = r}

\* A goroutine begins Group.Get: an empty key is an error, a cached one is
\* answered, any other leads to load.  q waits for the answer, if anyone does.
Enter(p, r, q) ==
    /\ at' = [at EXCEPT ![p] =
          IF r.key = <<>> \/ Own(r) \in cached[r.node]
          THEN "done" ELSE "missed",
          ![q] = IF q = p THEN @ ELSE "http"]
    /\ got' = [got EXCEPT ![p] =
          CASE r.key = <<>> -> Err
            [] r.key # <<>> /\ Own(r) \in cached[r.node] -> Own(r)
            [] OTHER -> None]
    /\ req' = [req EXCEPT ![p] = r]

\* fn returns v: so does Do, to the leader and to all who wait.
EndFlight(p, v) ==
    LET all == {p} \cup Waiters(req[p]) IN
    /\ at' = [q \in Proc |-> IF q \in all THEN "done" ELSE at[q]]
    /\ got' = [q \in Proc |-> IF q \in all THEN v ELSE got[q]]
    /\ UNCHANGED <<req, parent, peer>>

\* The response to p's request: a value, or an error.
Respond(p, v) ==
    /\ Goto(p, "replied")
    /\ got' = [got EXCEPT ![p] = v]

\* The goroutines in dead are gone, and their Gets with them.  Who waits for a
\* response of one of them has an error, or asks again: net/http repeats a GET
\* when a connection that it has used before is closed without an answer.
Lose(dead) ==
    LET bereft == {p \in Proc \ dead : \E h \in dead : parent[h] = p} IN
    \E again \in SUBSET bereft :
        /\ at' = [p \in Proc |-> IF p \in dead THEN "idle"
                                 ELSE IF p \in again THEN "peer"
                                 ELSE IF p \in bereft THEN "replied" ELSE at[p]]
        /\ got' = [p \in Proc |-> IF p \in dead THEN None
                                  ELSE IF p \in bereft \ again THEN Err ELSE got[p]]
        /\ req' = [p \in Proc |-> IF p \in dead THEN None ELSE req[p]]
        /\ peer' = [p \in Proc |-> IF p \in dead THEN None ELSE peer[p]]
        /\ parent' = [p \in Proc |-> IF p \in dead \/ parent[p] \in dead THEN None
                                     ELSE parent[p]]

-----------------------------------------------------------------------------
(* Faulty variants: the bug each property catches. *)

\* The group gets its peers before the pool has any.
RegisterPeersEarly(n) ==
    /\ boot[n] = "group" /\ n \notin hung
    /\ boot' = [boot EXCEPT ![n] = "peers"]
    /\ UNCHANGED <<owner, ring, poisoned, hung, faults, cached, procVars>>

\* The goroutine does not look for a flight of its key.
DoAlone(p) ==
    /\ at[p] = "missed"
    /\ Goto(p, "test")
    /\ UNCHANGED <<nodeVars, cached, req, parent, peer, got>>

\* A peer's error ends the leader's Get at once, and nobody tells those who
\* wait for its flight.
RepliedGivesUp(p) ==
    /\ at[p] = "replied"
    /\ IF got[p] = Err
       THEN Goto(p, "done") /\ UNCHANGED <<got, req, parent, peer>>
       ELSE EndFlight(p, got[p])
    /\ UNCHANGED <<nodeVars, cached>>

-----------------------------------------------------------------------------
\* A client calls Get on one of its program's groups.
ClientGet(p, g, k) ==
    /\ at[p] = "idle"
    /\ Up(Home[p])
    /\ Enter(p, [node |-> Home[p], group |-> g, key |-> k], p)
    /\ UNCHANGED <<nodeVars, cached, parent, peer>>

\* The flight of a request is in the loader's map.
InFlight(r) == Leaders(r) # {} \/ r \in poisoned

\* The head of loader.Do: join the key's flight or lead one.
Do(p) ==
    /\ at[p] = "missed"
    /\ Goto(p, IF InFlight(req[p]) THEN "wait" ELSE "test")
    /\ UNCHANGED <<nodeVars, cached, req, parent, peer, got>>

\* if g.picker != nil: true as soon as the type word is there.
Test(p) ==
    /\ at[p] = "test"
    /\ Goto(p, IF boot[req[p].node] \in {"torn", "peers", "serving"}
               THEN "pick" ELSE "local")
    /\ UNCHANGED <<nodeVars, cached, req, parent, peer, got>>

\* A panic in fn unwinds out of Do, which neither wakes who waits nor takes the
\* flight out of its map (see SingleFlight), and out of the goroutine's Get, to
\* net/http, which recovers it and closes the connection.
Panic(p) ==
    /\ Lose({p})
    /\ poisoned' = poisoned \cup {req[p]}
    /\ UNCHANGED <<owner, boot, ring, hung, faults, cached>>

\* g.picker is the pool, with both its words, and the pool has its ring.
PickerWorks(n) == boot[n] # "torn" /\ ring[n] # None

\* HTTPPool.PickPeer, under its lock: the owner's getter, unless there is no
\* owner or it is this node.
PickPeer(p) ==
    LET n == req[p].node
        to == IF ring[n] = {} THEN n ELSE owner[ring[n]][req[p].key]
    IN
    /\ at[p] = "pick" /\ PickerWorks(n)
    /\ Goto(p, IF to = n THEN "local" ELSE "peer")
    /\ peer' = [peer EXCEPT ![p] = IF to = n THEN None ELSE to]
    /\ UNCHANGED <<nodeVars, cached, req, parent, got>>

\* A pool or a ring that is nil.
PickPanic(p) == at[p] = "pick" /\ ~ PickerWorks(req[p].node) /\ Panic(p)

\* The Get that ServeHTTP on the picked node makes of p's request, or None: the
\* answer is then 400 (no second part) or 404 (GetGroup finds no such group).
Handled(p) ==
    LET to == Parse(Path(req[p].group, req[p].key)) IN
    IF to = None THEN None
    ELSE IF to.name \notin Name THEN None
    ELSE [node |-> peer[p], group |-> to.name, key |-> to.key]

\* http.Get reaches nobody who listens, or ServeHTTP answers with an error.
Refused(p) ==
    /\ at[p] = "peer"
    /\ boot[peer[p]] = "serving"
          => peer[p] \notin hung /\ Handled(p) = None
    /\ Respond(p, Err)
    /\ UNCHANGED <<nodeVars, cached, req, parent, peer>>

\* ServeHTTP finds the group and calls its Get, in a goroutine that net/http
\* has for it; http.Get waits.
Served(p) ==
    LET idle == {h \in Handler : at[h] = "idle"}
        h == CHOOSE x \in idle : TRUE
    IN
    /\ at[p] = "peer"
    /\ boot[peer[p]] = "serving" /\ peer[p] \notin hung
    /\ Handled(p) # None
    /\ idle # {}
    /\ Enter(h, Handled(p), p)
    /\ parent' = [parent EXCEPT ![h] = p]
    /\ UNCHANGED <<nodeVars, cached, peer>>

\* getFromPeer's value ends the flight; after an error load goes on.
Replied(p) ==
    /\ at[p] = "replied"
    /\ IF got[p] = Err
       THEN Goto(p, "local") /\ UNCHANGED <<got, req, parent, peer>>
       ELSE EndFlight(p, got[p])
    /\ UNCHANGED <<nodeVars, cached>>

\* getLocally: the getter returns the value, which is cached, or an error.
Local(p) ==
    LET r == req[p] IN
    /\ at[p] = "local"
    /\ \/ /\ cached' = [cached EXCEPT ![r.node] = @ \cup {Own(r)}]
          /\ EndFlight(p, Own(r))
       \/ /\ EndFlight(p, Err)
          /\ UNCHANGED cached
    /\ UNCHANGED nodeVars

GetterPanic(p) == at[p] = "local" /\ Own(req[p]) \in Panicky /\ Panic(p)

\* Get returns to its caller: a client, or ServeHTTP, which writes the value
\* or the error to the node that asked, if it is still there.
Return(p) ==
    LET q == parent[p] IN
    /\ at[p] = "done"
    /\ at' = [x \in Proc |-> IF x = p THEN "idle"
                             ELSE IF x = q THEN "replied" ELSE at[x]]
    /\ got' = [x \in Proc |-> IF x = p THEN None
                              ELSE IF x = q THEN got[p] ELSE got[x]]
    /\ req' = [req EXCEPT ![p] = None]
    /\ parent' = [parent EXCEPT ![p] = None]
    /\ peer' = [peer EXCEPT ![p] = None]
    /\ UNCHANGED <<nodeVars, cached>>

\* The steps of a goroutine, while its node goes on.
Step(p) ==
    /\ req[p] # None /\ req[p].node \notin hung
    /\ \/ Do(p) \/ Test(p) \/ PickPeer(p)
       \/ Refused(p) \/ Served(p)
       \/ Replied(p) \/ Local(p) \/ Return(p)
       \/ PickPanic(p) \/ GetterPanic(p)

-----------------------------------------------------------------------------
(* Steps of nodes. *)

\* main calls createGroup; with -api clients may call Get from here on.
Start(n) ==
    /\ boot[n] = "down"
    /\ boot' = [boot EXCEPT ![n] = "group"]
    /\ UNCHANGED <<owner, ring, poisoned, hung, faults, cached, procVars>>

\* HTTPPool.Set: a new ring and new getters, under the lock.  main calls it on
\* the pool that it has just made with NewHttpPool.
Set(n, peers) ==
    /\ Up(n)
    /\ ring' = [ring EXCEPT ![n] = peers]
    /\ boot' = [boot EXCEPT ![n] = IF @ = "group" THEN "set" ELSE @]
    /\ UNCHANGED <<owner, poisoned, hung, faults, cached, procVars>>

\* RegisterPeers, which main calls when it has called Set.  It assigns the two
\* words of g.picker without a lock, while the API server calls Get: a reader
\* may find one of them written, or both.
RegisterPeers(n) ==
    /\ boot[n] = "set" /\ n \notin hung
    /\ \E words \in {"torn", "peers"} : boot' = [boot EXCEPT ![n] = words]
    /\ UNCHANGED <<owner, ring, poisoned, hung, faults, cached, procVars>>

RegisterPeersDone(n) ==
    /\ boot[n] = "torn" /\ n \notin hung
    /\ boot' = [boot EXCEPT ![n] = "peers"]
    /\ UNCHANGED <<owner, ring, poisoned, hung, faults, cached, procVars>>

\* http.ListenAndServe
Serve(n) ==
    /\ boot[n] = "peers" /\ n \notin hung
    /\ boot' = [boot EXCEPT ![n] = "serving"]
    /\ UNCHANGED <<owner, ring, poisoned, hung, faults, cached, procVars>>

\* The cache evicts an entry (see LRU).
Evict(n) ==
    /\ Up(n)
    /\ \E e \in cached[n] : cached' = [cached EXCEPT ![n] = @ \ {e}]
    /\ UNCHANGED <<nodeVars, procVars>>

\* The process ends, and with it its goroutines and its flights.
Crash(n) ==
    /\ boot[n] # "down" /\ faults < MaxFaults
    /\ faults' = faults + 1
    /\ boot' = [boot EXCEPT ![n] = "down"]
    /\ ring' = [ring EXCEPT ![n] = None]
    /\ cached' = [cached EXCEPT ![n] = {}]
    /\ poisoned' = {r \in poisoned : r.node # n}
    /\ hung' = hung \ {n}
    /\ Lose({p \in Proc : req[p] # None /\ req[p].node = n})
    /\ UNCHANGED owner

\* The node stops in its tracks, its listener still open; it may come to.
Hang(n) ==
    /\ Up(n) /\ faults < MaxFaults
    /\ faults' = faults + 1
    /\ hung' = hung \cup {n}
    /\ UNCHANGED <<owner, boot, ring, poisoned, cached, procVars>>

Resume(n) ==
    /\ n \in hung
    /\ hung' = hung \ {n}
    /\ UNCHANGED <<owner, boot, ring, poisoned, faults, cached, procVars>>

Next ==
    \/ \E p \in Client : \E e \in Asks[p] : ClientGet(p, e[1], e[2])
    \/ \E p \in Proc : Step(p)
    \/ \E n \in Node :
        \/ Start(n) \/ Serve(n)
        \/ \E peers \in PeerLists[n] : Set(n, peers)
        \/ RegisterPeers(n) \/ RegisterPeersDone(n)
        \/ Evict(n) \/ Crash(n) \/ Hang(n) \/ Resume(n)

Spec == Init /\ [][Next]_vars

\* Fairness: goroutines of nodes that go on are scheduled, and getters return.
\* A hung node need not come to.
FairSpec == Spec /\ \A p \in Proc : WF_vars(Step(p))

-----------------------------------------------------------------------------
(* What a goroutine waits for: the leader of its flight, or the handler of   *)
(* its request on another node.                                              *)
WaitsFor(p, q) ==
    \/ at[p] = "wait" /\ at[q] \in InFn /\ req[q] = req[p]
    \/ at[p] = "http" /\ parent[q] = p

\* Nobody waits in vain: a goroutine that waits for a flight has exactly one
\* leader to wait for, one that waits for a response exactly one handler, even
\* when nodes have crashed in between; and no key has two leaders on a node.
\* Only the flight of a leader that panicked has nobody, then and later.
SomebodyAnswers ==
    \A p \in Proc :
        /\ \/ at[p] = "wait" /\ req[p] \notin poisoned
           \/ at[p] = "http"
           => \E q \in Proc : WaitsFor(p, q)
        /\ at[p] \in InFn => Leaders(req[p]) = {p} /\ req[p] \notin poisoned
        /\ \A q, x \in Proc : WaitsFor(p, q) /\ WaitsFor(p, x) => q = x

\* The goroutines of all nodes fit together, whatever crashed.
ClusterInv == TypeOK /\ SomebodyAnswers

\* How much of a path is left in a request.
Left(r) == Len(r.group) + Len(r.key)

\* No nodes wait for each other in a circle, although their lists of peers may
\* differ and a request may be forwarded again: the path of a request that was
\* forwarded is shorter than that of the one it came from, because ServeHTTP
\* takes away two symbols that httpGetter.Get did not put there.
WaitsDescend ==
    \A p, q \in Proc : WaitsFor(p, q) =>
        \/ Left(req[q]) < Left(req[p])
        \/ at[p] = "wait" /\ at[q] # "wait" /\ req[q] = req[p]

\* PickPeer never finds the ring nil, although the API server takes requests
\* before there is one: main registers the pool only when Set has been called.
\* (That the word for the pool is still missing is another matter: PickPanic.)
RingIsThere == \A p \in Proc : at[p] = "pick" => ring[req[p].node] # None

\* A plain name has no slash in it.
Plain(s) == \A i \in DOMAIN s : s[i] # Slash

\* A Get of a group and a key without slashes is answered with that group's
\* value of that key, or an error, whichever nodes were asked on the way.
AnswersAreOwn ==
    \A p \in Proc :
        (at[p] = "done" /\ Plain(req[p].group) /\ Plain(req[p].key))
            => got[p] \in {Own(req[p]), Err}

\* A goroutine whose node, or whose peer, hangs, or whose flight's leader panicked.
Obstructed(q) ==
    \/ req[q] # None /\ req[q].node \in hung
    \/ at[q] = "peer" /\ peer[q] \in hung
    \/ at[q] = "wait" /\ req[q] \in poisoned

\* p is obstructed, or waits, at one remove or several, for one who is: any set
\* of others that p is in waits for somebody outside.
HeldUp(p) ==
    \/ Obstructed(p)
    \/ /\ at[p] \in {"wait", "http"}
       /\ \A S \in SUBSET {q \in Proc : ~ Obstructed(q)} :
             p \in S => \E x \in S, y \in Proc \ S : WaitsFor(x, y)

\* Every Get ends, unless it waits for a node that hangs, because http.Get has
\* no timeout, or for a flight that nobody ends, because a load of the key has
\* panicked on the node: in the getter, or at a g.picker that is half written.
\* A node that is down, or goes down with the request, is no obstacle.
GetReturnsUnlessHeldUp ==
    \A p \in Client : (at[p] # "idle") ~> (at[p] = "idle" \/ HeldUp(p))

\* A request that reaches a node which serves, and does not hang, is understood
\* by ServeHTTP.
RequestsAreUnderstood ==
    \A p \in Proc :
        (at[p] = "peer" /\ boot[peer[p]] = "serving" /\ peer[p] \notin hung)
            => Parse(Path(req[p].group, req[p].key)) # None
=============================================================================
