---------------------------- MODULE MultiLogger ----------------------------
(***************************************************************************)
(* mlog.MultiLogger (src/lib/mlog/multi_logger.go).  Errf and Outf format *)
(* a message and send it on the buffered channel qerr or qout; one         *)
(* goroutine per channel (processErrorQueue, processOutputQueue) receives  *)
(* it and writes it to every writer registered in errs or outs.  Flush     *)
(* sends a request on qerrFlush and on qoutFlush and waits for two tokens  *)
(* on qflush; each queue goroutine, on a request, drains its queue and     *)
(* sends one token.                                                        *)
(*                                                                         *)
(* The two queues are the same code and are modelled as one, indexed by  *)
(* Kinds = {"err", "out"}.  A message is <<producer, number>>; formatting, *)
(* time stamps, prefixes and the newline the error queue adds are left    *)
(* out.  Writers are named writers (an unnamed one is never registered).  *)
(***************************************************************************)
EXTENDS Naturals, Sequences, FiniteSets, SequencesExt

CONSTANTS
    Producers,    \* goroutines calling Errf and Outf
    Flushers,     \* goroutines calling Flush (Fatalf is Errf then Flush)
    Writers,      \* NamedWriter names
    QCap,         \* capacity of qerr and qout (512 in NewMultiLogger)
    MaxMsgs,      \* bound: messages each producer logs
    MaxFlushes,   \* bound: Flush calls each flusher makes
    None

Kinds == {"err", "out"}
Msgs == Producers \X (1..MaxMsgs)

VARIABLES
    writers,   \* [kind -> names registered in errs / outs]
    q,         \* [kind -> messages buffered in qerr / qout]
    flushReq,  \* [kind -> requests buffered in qerrFlush / qoutFlush (cap 1)]
    qflush,    \* tokens buffered in qflush (cap 1)
    proc,      \* [kind -> state of that queue's goroutine]
    written,   \* [kind -> messages whose write loop has finished]
    ppc,       \* [producer -> "idle" | "send": blocked in writeTo's send]
    pkind,     \* [producer -> the queue its current message goes to]
    sent,      \* [producer -> messages it has logged]
    fpc,       \* [flusher -> where it is in Flush]
    nflush,    \* [flusher -> Flush calls made]
    mark,      \* [flusher -> messages enqueued when its Flush began]
    reqSent,   \* [kind -> flush requests sent so far]
    reqDone,   \* [kind -> flush requests answered with a token so far]
    myReq      \* [flusher -> [kind -> number of its own last request]]

vars == <<writers, q, flushReq, qflush, proc, written, ppc, pkind, sent,
          fpc, nflush, mark, reqSent, reqDone, myReq>>

Idle == [st |-> "select", todo |-> {}, x |-> 0, cur |-> None, ret |-> "select"]

(* Every message some Errf/Outf call has finished sending.                 *)
Enqueued ==
    UNION {Range(q[k]) \cup written[k] \cup ({proc[k].cur} \ {None}) : k \in Kinds}

Init ==
    /\ writers \in [Kinds -> SUBSET Writers]
    /\ q = [k \in Kinds |-> <<>>]
    /\ flushReq = [k \in Kinds |-> 0]
    /\ qflush = 0
    /\ proc = [k \in Kinds |-> Idle]
    /\ written = [k \in Kinds |-> {}]
    /\ ppc = [p \in Producers |-> "idle"]
    /\ pkind = [p \in Producers |-> "err"]
    /\ sent = [p \in Producers |-> 0]
    /\ fpc = [c \in Flushers |-> "idle"]
    /\ nflush = [c \in Flushers |-> 0]
    /\ mark = [c \in Flushers |-> {}]
    /\ reqSent = [k \in Kinds |-> 0]
    /\ reqDone = [k \in Kinds |-> 0]
    /\ myReq = [c \in Flushers |-> [k \in Kinds |-> 0]]

-----------------------------------------------------------------------------
(* Mutants: plausible bugs of the definitions below.                       *)

WriteDoneOnlyIfRegistered(k) ==
    /\ proc[k].st = "write"
    /\ proc[k].todo = {}
    /\ writers[k] # {}
    /\ written' = [written EXCEPT ![k] = @ \cup {proc[k].cur}]
    /\ proc' = [proc EXCEPT ![k] = [Idle EXCEPT !.st = proc[k].ret, !.x = proc[k].x]]
    /\ UNCHANGED <<writers, q, flushReq, qflush, ppc, pkind, sent,
                   fpc, nflush, mark, reqSent, reqDone, myReq>>

\* qflush made with room for two tokens: the token send never waits.
SignalNoWait(k) ==
    /\ proc[k].st = "signal"
    /\ qflush' = qflush + 1
    /\ reqDone' = [reqDone EXCEPT ![k] = @ + 1]
    /\ proc' = [proc EXCEPT ![k] = Idle]
    /\ UNCHANGED <<writers, q, flushReq, written, ppc, pkind, sent,
                   fpc, nflush, mark, reqSent, myReq>>

\* Flush that reads qflush once instead of twice.
RecvTokenOnce(c) ==
    /\ fpc[c] \in {"recv1", "recv2"}
    /\ qflush = 1
    /\ qflush' = 0
    /\ fpc' = [fpc EXCEPT ![c] = "returned"]
    /\ UNCHANGED <<writers, q, flushReq, proc, written, ppc, pkind, sent,
                   nflush, mark, reqSent, reqDone, myReq>>

-----------------------------------------------------------------------------
(* Errf / Outf: return at once if no writer is registered; otherwise       *)
(* writeTo formats the message and blocks sending it on the queue.         *)
Call(p, k) ==
    /\ ppc[p] = "idle"
    /\ sent[p] < MaxMsgs
    /\ writers[k] # {}
    /\ ppc' = [ppc EXCEPT ![p] = "send"]
    /\ pkind' = [pkind EXCEPT ![p] = k]
    /\ sent' = [sent EXCEPT ![p] = @ + 1]
    /\ UNCHANGED <<writers, q, flushReq, qflush, proc, written,
                   fpc, nflush, mark, reqSent, reqDone, myReq>>

(* writeTo's "q <- libbytes.Copy(buf.Bytes())": blocks while q is full.    *)
Enqueue(p) ==
    /\ ppc[p] = "send"
    /\ Len(q[pkind[p]]) < QCap
    /\ q' = [q EXCEPT ![pkind[p]] = Append(@, <<p, sent[p]>>)]
    /\ ppc' = [ppc EXCEPT ![p] = "idle"]
    /\ UNCHANGED <<writers, flushReq, qflush, proc, written, pkind, sent,
                   fpc, nflush, mark, reqSent, reqDone, myReq>>

(* RegisterErrorWriter / RegisterOutputWriter, and the Unregister pair:    *)
(* plain map writes, from whichever goroutine calls them.                  *)
Register(k, w) ==
    /\ w \notin writers[k]
    /\ writers' = [writers EXCEPT ![k] = @ \cup {w}]
    /\ UNCHANGED <<q, flushReq, qflush, proc, written, ppc, pkind, sent,
                   fpc, nflush, mark, reqSent, reqDone, myReq>>

Unregister(k, w) ==
    /\ w \in writers[k]
    /\ writers' = [writers EXCEPT ![k] = @ \ {w}]
    /\ UNCHANGED <<q, flushReq, qflush, proc, written, ppc, pkind, sent,
                   fpc, nflush, mark, reqSent, reqDone, myReq>>

(* The queue goroutine's select, message case: receive b and start the     *)
(* range over the writers map.  Go picks at random among ready cases.      *)
SelectMsg(k) ==
    /\ proc[k].st = "select"
    /\ q[k] # <<>>
    /\ proc' = [proc EXCEPT ![k] = [Idle EXCEPT !.st = "write",
                   !.todo = writers[k], !.cur = Head(q[k])]]
    /\ q' = [q EXCEPT ![k] = Tail(@)]
    /\ UNCHANGED <<writers, flushReq, qflush, written, ppc, pkind, sent,
                   fpc, nflush, mark, reqSent, reqDone, myReq>>

(* The select's flush case: receive the request and enter the drain loop.  *)
SelectFlush(k) ==
    /\ proc[k].st = "select"
    /\ flushReq[k] = 1
    /\ flushReq' = [flushReq EXCEPT ![k] = 0]
    /\ proc' = [proc EXCEPT ![k] = [Idle EXCEPT !.st = "flush"]]
    /\ UNCHANGED <<writers, q, qflush, written, ppc, pkind, sent,
                   fpc, nflush, mark, reqSent, reqDone, myReq>>

(* One turn of "for x := 0; x < len(q); x++ { b := <-q; ... }": the bound *)
(* len(q) is read afresh on every turn, after x has grown and q shrunk.    *)
FlushTake(k) ==
    /\ proc[k].st = "flush"
    /\ proc[k].x < Len(q[k])
    /\ proc' = [proc EXCEPT ![k] = [Idle EXCEPT !.st = "write", !.ret = "flush",
                   !.todo = writers[k], !.cur = Head(q[k]), !.x = proc[k].x + 1]]
    /\ q' = [q EXCEPT ![k] = Tail(@)]
    /\ UNCHANGED <<writers, flushReq, qflush, written, ppc, pkind, sent,
                   fpc, nflush, mark, reqSent, reqDone, myReq>>

(* The drain loop ends; the token is sent next.                            *)
FlushEnd(k) ==
    /\ proc[k].st = "flush"
    /\ proc[k].x >= Len(q[k])
    /\ proc' = [proc EXCEPT ![k].st = "signal"]
    /\ UNCHANGED <<writers, q, flushReq, qflush, written, ppc, pkind, sent,
                   fpc, nflush, mark, reqSent, reqDone, myReq>>

(* "mlog.qflush <- true": blocks while qflush holds a token.               *)
Signal(k) ==
    /\ proc[k].st = "signal"
    /\ qflush = 0
    /\ qflush' = 1
    /\ reqDone' = [reqDone EXCEPT ![k] = @ + 1]
    /\ proc' = [proc EXCEPT ![k] = Idle]
    /\ UNCHANGED <<writers, q, flushReq, written, ppc, pkind, sent,
                   fpc, nflush, mark, reqSent, myReq>>

(* One iteration of "for _, w := range mlog.errs { w.Write(b) }".          *)
WriteOne(k) ==
    /\ proc[k].st = "write"
    /\ \E w \in proc[k].todo : proc' = [proc EXCEPT ![k].todo = @ \ {w}]
    /\ UNCHANGED <<writers, q, flushReq, qflush, written, ppc, pkind, sent,
                   fpc, nflush, mark, reqSent, reqDone, myReq>>

(* The range is over: back to the select or to the drain loop.             *)
WriteDone(k) ==
    /\ proc[k].st = "write"
    /\ proc[k].todo = {}
    /\ written' = [written EXCEPT ![k] = @ \cup {proc[k].cur}]
    /\ proc' = [proc EXCEPT ![k] = [Idle EXCEPT !.st = proc[k].ret, !.x = proc[k].x]]
    /\ UNCHANGED <<writers, q, flushReq, qflush, ppc, pkind, sent,
                   fpc, nflush, mark, reqSent, reqDone, myReq>>

(* Flush: "mlog.qerrFlush <- true" and "mlog.qoutFlush <- true", each      *)
(* blocking while its one-slot channel is full.  The flusher's view of     *)
(* what was logged before it called Flush is recorded in mark.             *)
StartFlush(c) ==
    /\ fpc[c] \in {"idle", "returned"}
    /\ nflush[c] < MaxFlushes
    /\ fpc' = [fpc EXCEPT ![c] = "err"]
    /\ nflush' = [nflush EXCEPT ![c] = @ + 1]
    /\ mark' = [mark EXCEPT ![c] = Enqueued]
    /\ UNCHANGED <<writers, q, flushReq, qflush, proc, written, ppc, pkind,
                   sent, reqSent, reqDone, myReq>>

SendFlush(c) ==
    LET k == fpc[c] IN
    /\ k \in Kinds
    /\ flushReq[k] = 0
    /\ flushReq' = [flushReq EXCEPT ![k] = 1]
    /\ reqSent' = [reqSent EXCEPT ![k] = @ + 1]
    /\ myReq' = [myReq EXCEPT ![c][k] = reqSent[k] + 1]
    /\ fpc' = [fpc EXCEPT ![c] = IF k = "err" THEN "out" ELSE "recv1"]
    /\ UNCHANGED <<writers, q, qflush, proc, written, ppc, pkind, sent,
                   nflush, mark, reqDone>>

(* "<-mlog.qflush" twice; after the second Flush returns.                  *)
RecvToken(c) ==
    /\ fpc[c] \in {"recv1", "recv2"}
    /\ qflush = 1
    /\ qflush' = 0
    /\ fpc' = [fpc EXCEPT ![c] = IF @ = "recv1" THEN "recv2" ELSE "returned"]
    /\ UNCHANGED <<writers, q, flushReq, proc, written, ppc, pkind, sent,
                   nflush, mark, reqSent, reqDone, myReq>>

Next ==
    \/ \E p \in Producers : Enqueue(p) \/ \E k \in Kinds : Call(p, k)
    \/ \E k \in Kinds, w \in Writers : Register(k, w) \/ Unregister(k, w)
    \/ \E k \in Kinds :
        \/ SelectMsg(k) \/ SelectFlush(k) \/ FlushTake(k) \/ FlushEnd(k)
        \/ Signal(k) \/ WriteOne(k) \/ WriteDone(k)
    \/ \E c \in Flushers : StartFlush(c) \/ SendFlush(c) \/ RecvToken(c)

(* The queue goroutines always run: weak fairness.  A goroutine blocked on *)
(* a channel send or receive is served in FIFO order by the Go runtime     *)
(* once the channel has room or data, so those steps are strongly fair.    *)
(* Nobody has to log, flush or (un)register: those calls are not fair.     *)
Fairness ==
    /\ \A k \in Kinds :
        /\ WF_vars(SelectMsg(k) \/ SelectFlush(k)) /\ WF_vars(FlushTake(k))
        /\ WF_vars(FlushEnd(k)) /\ SF_vars(Signal(k))
        /\ WF_vars(WriteOne(k)) /\ WF_vars(WriteDone(k))
    /\ \A p \in Producers : SF_vars(Enqueue(p))
    /\ \A c \in Flushers : SF_vars(SendFlush(c)) /\ SF_vars(RecvToken(c))

Spec == Init /\ [][Next]_vars /\ Fairness

-----------------------------------------------------------------------------
TypeOK ==
    /\ writers \in [Kinds -> SUBSET Writers]
    /\ q \in [Kinds -> Seq(Msgs)] /\ \A k \in Kinds : Len(q[k]) <= QCap
    /\ flushReq \in [Kinds -> 0..1] /\ qflush \in 0..1
    /\ \A k \in Kinds :
        /\ proc[k].st \in {"select", "write", "flush", "signal"}
        /\ proc[k].todo \subseteq Writers /\ proc[k].cur \in Msgs \cup {None}
    /\ written \in [Kinds -> SUBSET Msgs]
    /\ ppc \in [Producers -> {"idle", "send"}] /\ sent \in [Producers -> 0..MaxMsgs]
    /\ fpc \in [Flushers -> {"idle", "err", "out", "recv1", "recv2", "returned"}]
    /\ mark \in [Flushers -> SUBSET Msgs]

(* "Flush all writes and wait until it finished": when Flush returns,      *)
(* every message whose Errf or Outf had returned before Flush was called   *)
(* has been written.  Fatalf relies on this before os.Exit(1).             *)
FlushDrainsQueue ==
    \A c \in Flushers :
        fpc[c] = "returned" => mark[c] \subseteq UNION {written[k] : k \in Kinds}

(* When Flush returns, both queue goroutines have answered the flush       *)
(* requests this Flush sent, not merely some two requests.                 *)
FlushWaitsOwnRequests ==
    \A c \in Flushers :
        fpc[c] = "returned" => \A k \in Kinds : reqDone[k] >= myReq[c][k]

EveryMessageWritten ==
    \A k \in Kinds, m \in Msgs : m \in Range(q[k]) ~> m \in written[k]
=============================================================================
