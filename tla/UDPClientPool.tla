--------------------------- MODULE UDPClientPool ---------------------------
(***************************************************************************)
(* The DNS UDPClientPool (src/lib/dns/udp_client_pool.go) together with   *)
(* the goroutines that forward queries through it (spec section 4.7):      *)
(* each forwarder Gets a client, Sends the query upstream, Recvs the reply *)
(* (or hits its read deadline), Puts the client back, rewrites the reply's *)
(* transaction ID and relays it to the original sender.                    *)
(*                                                                         *)
(* The pool is a sync.Pool whose New hook is newClient: Get may return any *)
(* pooled client or, whenever it likes, a fresh one from newClient; the    *)
(* garbage collector may evict pooled clients at any time.  Upstream       *)
(* traffic goes over UDP, which may lose, duplicate and reorder datagrams. *)
(***************************************************************************)
EXTENDS Naturals, Sequences, FiniteSets, SequencesExt

CONSTANTS
    NameServers,   \* ucp.ns: the configured upstream servers, in order
    Forwarders,    \* goroutines forwarding queries through the pool
    Questions,     \* the questions a forwarder may be asked to resolve
    None,          \* the absent client
    UseDeadline,   \* the clients have a read deadline (UDPClient.Timeout)
    Faulty,        \* the network loses, duplicates and reorders datagrams
    MaxHandles,    \* bound: clients ever created
    MaxPending     \* bound: datagrams outstanding on one client

ASSUME
    /\ Len(NameServers) > 0
    /\ UseDeadline \in BOOLEAN /\ Faulty \in BOOLEAN
    /\ MaxHandles >= Len(NameServers) /\ MaxPending >= 1

N == Len(NameServers)
Handles == 1..MaxHandles

VARIABLES
    pool,      \* clients currently in the sync.Pool
    bound,     \* [created client -> the name server it is connected to]
    seq,       \* ucp.seq, the next name server for newClient
    evicted,   \* clients the garbage collector dropped from the pool
    upstream,  \* [client -> questions sent and not yet answered or lost]
    sock,      \* [client -> replies waiting in its socket, in arrival order]
    pc,        \* [forwarder -> "idle" | "got" | "sent"]
    held,      \* [forwarder -> the client it holds, or None]
    ask        \* [forwarder -> the question it forwards]

vars == <<pool, bound, seq, evicted, upstream, sock, pc, held, ask>>

Created == DOMAIN bound
Held == {held[f] : f \in {g \in Forwarders : held[g] # None}}

-----------------------------------------------------------------------------
(* NewUDPClientPool(nameServers): one client per name server, each put in *)
(* the pool; seq stays 0.  (An empty list is rejected by the ASSUME.)      *)
Init ==
    /\ pool = 1..N
    /\ bound = [h \in 1..N |-> NameServers[h]]
    /\ seq = 0
    /\ evicted = {}
    /\ upstream = [h \in Handles |-> <<>>]
    /\ sock = [h \in Handles |-> <<>>]
    /\ pc = [f \in Forwarders |-> "idle"]
    /\ held = [f \in Forwarders |-> None]
    /\ ask = [f \in Forwarders |-> CHOOSE q \in Questions : TRUE]

-----------------------------------------------------------------------------
(* Mutants: plausible bugs of the definitions below, used to show that     *)
(* each checked property can catch a mistake in the code it is about.      *)

\* newClient without "ucp.seq %= len(ucp.ns)": seq grows without bound.
NewClientNoWrap(h) ==
    /\ bound' = bound @@ (h :> NameServers[(seq % N) + 1])
    /\ seq' = seq + 1

\* newClient that forgets "ucp.seq++": every new client goes to ns[0].
NewClientNoIncrement(h) ==
    /\ bound' = bound @@ (h :> NameServers[(seq % N) + 1])
    /\ seq' = seq % N

\* Put with its nil test inverted: no client is ever returned to the pool.
PutNilInverted(h) ==
    pool' = pool

-----------------------------------------------------------------------------
(* newClient: under the pool mutex, wrap seq into range, connect the new   *)
(* client h to ns[seq], and advance seq.  NewUDPClient failing here ends   *)
(* the process (log.Fatal); the constructor already dialled every server,  *)
(* so that is not modelled.                                                *)
newClient(h) ==
    LET s == seq % N IN
    /\ bound' = bound @@ (h :> NameServers[s + 1])
    /\ seq' = s + 1

(* Put: a non-nil client goes back to the pool.  A client is never nil.  *)
Put(h) ==
    pool' = pool \cup {h}

(* Get, served from the pool: any pooled client is removed and returned.   *)
GetPooled(f) ==
    /\ pc[f] = "idle"
    /\ \E h \in pool, q \in Questions :
        /\ pool' = pool \ {h}
        /\ held' = [held EXCEPT ![f] = h]
        /\ ask' = [ask EXCEPT ![f] = q]
    /\ pc' = [pc EXCEPT ![f] = "got"]
    /\ UNCHANGED <<bound, seq, evicted, upstream, sock>>

(* Get, served by New: sync.Pool may ignore its content and call newClient *)
(* at any time, not only when the pool is empty.                           *)
GetNew(f) ==
    /\ pc[f] = "idle"
    /\ Cardinality(Created) < MaxHandles
    /\ LET h == Cardinality(Created) + 1 IN
       /\ newClient(h)
       /\ held' = [held EXCEPT ![f] = h]
    /\ \E q \in Questions : ask' = [ask EXCEPT ![f] = q]
    /\ pc' = [pc EXCEPT ![f] = "got"]
    /\ UNCHANGED <<pool, evicted, upstream, sock>>

(* The garbage collector drops a pooled client (sync.Pool eviction).  The  *)
(* bound: once MaxHandles clients exist, the last pooled one is kept.      *)
Evict(h) ==
    /\ h \in pool
    /\ Cardinality(Created) < MaxHandles \/ Cardinality(pool) > 1
    /\ pool' = pool \ {h}
    /\ evicted' = evicted \cup {h}
    /\ UNCHANGED <<bound, seq, upstream, sock, pc, held, ask>>

(* The forwarder sends its query upstream on the client it holds.          *)
Send(f) ==
    /\ pc[f] = "got"
    /\ upstream' = [upstream EXCEPT ![held[f]] = Append(@, ask[f])]
    /\ pc' = [pc EXCEPT ![f] = "sent"]
    /\ UNCHANGED <<pool, bound, seq, evicted, sock, held, ask>>

(* The paired Recv returns the first datagram in the client's socket; the  *)
(* forwarder Puts the client back.  Relaying the reply changes no state    *)
(* of the pool and is left out.                                            *)
Recv(f) ==
    /\ pc[f] = "sent"
    /\ sock[held[f]] # <<>>
    /\ sock' = [sock EXCEPT ![held[f]] = Tail(@)]
    /\ Put(held[f])
    /\ held' = [held EXCEPT ![f] = None]
    /\ pc' = [pc EXCEPT ![f] = "idle"]
    /\ UNCHANGED <<bound, seq, evicted, upstream, ask>>

(* The read deadline expires with nothing received: the forwarder drops    *)
(* the query but still Puts the client back.  The query stays in flight.   *)
Timeout(f) ==
    /\ UseDeadline
    /\ pc[f] = "sent"
    /\ sock[held[f]] = <<>>
    /\ Len(upstream[held[f]]) < MaxPending
    /\ Put(held[f])
    /\ held' = [held EXCEPT ![f] = None]
    /\ pc' = [pc EXCEPT ![f] = "idle"]
    /\ UNCHANGED <<bound, seq, evicted, upstream, sock, ask>>

-----------------------------------------------------------------------------
(* The environment: the upstream servers and the network.                  *)

(* A server answers one of the queries sent on client h; the reply lands   *)
(* in h's socket.  On a faulty network any pending query may go first.     *)
Answer(h) ==
    /\ upstream[h] # <<>>
    /\ \E i \in IF Faulty THEN 1..Len(upstream[h]) ELSE {1} :
        /\ sock' = [sock EXCEPT ![h] = Append(@, upstream[h][i])]
        /\ upstream' = [upstream EXCEPT ![h] = RemoveAt(@, i)]
    /\ UNCHANGED <<pool, bound, seq, evicted, pc, held, ask>>

(* A query or its reply is lost.                                           *)
Lose(h) ==
    /\ Faulty
    /\ \E i \in 1..Len(upstream[h]) :
        upstream' = [upstream EXCEPT ![h] = RemoveAt(@, i)]
    /\ UNCHANGED <<pool, bound, seq, evicted, sock, pc, held, ask>>

(* A query or its reply is duplicated.                                     *)
Duplicate(h) ==
    /\ Faulty
    /\ Len(upstream[h]) + Len(sock[h]) < MaxPending
    /\ \E i \in 1..Len(upstream[h]) :
        upstream' = [upstream EXCEPT ![h] = Append(@, @[i])]
    /\ UNCHANGED <<pool, bound, seq, evicted, sock, pc, held, ask>>

Next ==
    \/ \E f \in Forwarders :
        \/ GetPooled(f) \/ GetNew(f) \/ Send(f) \/ Recv(f) \/ Timeout(f)
    \/ \E h \in Handles :
        \/ Evict(h) \/ Answer(h) \/ Lose(h) \/ Duplicate(h)

Spec == Init /\ [][Next]_vars

-----------------------------------------------------------------------------
TypeOK ==
    /\ pool \subseteq Created /\ evicted \subseteq Created
    /\ Created \subseteq Handles
    /\ bound \in [Created -> Range(NameServers)]
    /\ seq \in 0..N
    /\ upstream \in [Handles -> Seq(Questions)]
    /\ sock \in [Handles -> Seq(Questions)]
    /\ pc \in [Forwarders -> {"idle", "got", "sent"}]
    /\ held \in [Forwarders -> Created \cup {None}]
    /\ \A f \in Forwarders : (held[f] = None) <=> (pc[f] = "idle")
    /\ ask \in [Forwarders -> Questions]

(* No client leaks: every client newClient or the constructor created is   *)
(* in the pool, held by a forwarder, or was evicted by the collector.      *)
NoLeakedClient == Created = pool \cup Held \cup evicted

(* newClient spreads new clients over the name servers round-robin: the    *)
(* k-th client it creates after the constructor's goes to ns[k mod n].     *)
RoundRobin ==
    \A h \in Created \ (1..N) : bound[h] = NameServers[((h - N - 1) % N) + 1]

=============================================================================
