------------------------------- MODULE StreamMux -------------------------------
(***************************************************************************)
(* HTTP streams multiplexed over one agent connection.  On the gateway:    *)
(* one streamRoundTrip goroutine per public request, and the session's     *)
(* readLoop, which hands every message from the agent to the channel of    *)
(* its stream.  On the agent: the serve loop, and one handleHTTPStream     *)
(* goroutine per stream with the pump that feeds the request body to the   *)
(* local service.  Two bounded FIFO links stand for the websocket.         *)
(*                                                                         *)
(* Body chunks are counted, not carried: a property compares how many were *)
(* produced with how many arrived.                                         *)
(***************************************************************************)
EXTENDS Naturals, Sequences, FiniteSets

CONSTANTS Streams,     \* stream ids (newStreamID never repeats one)
          MaxStreams,  \* MaxConcurrentStreams
          ReqMax,      \* bound: chunks of a request body
          RespMax,     \* bound: chunks of a response body
          ChanCap,     \* 32: a stream's channel on the gateway
          ChunkCap,    \* 32: a stream's chunk channel on the agent
          LinkCap      \* what the network and the socket buffers hold

ASSUME StreamMuxAssumption ==
  /\ IsFiniteSet(Streams)
  /\ MaxStreams \in Nat \ {0} /\ ReqMax \in Nat /\ RespMax \in Nat
  /\ ChanCap \in Nat \ {0} /\ ChunkCap \in Nat \ {0} /\ LinkCap \in Nat \ {0}

VARIABLES
  open,      \* the websocket is open
  toAgent, toGw,                       \* the two directions of it
  gpc, ctx, out,                       \* streamRoundTrip: place, is its context live,
                                       \*   how it ended
  sent, got, started,                  \*   chunks sent, chunks written, header answered
  slots, pending, ch,                  \* agentSession.streams, .pending, the channels
  done, rl,                            \* agentSession.done, readLoop
  apc, actx, active, sdone, chunks,    \* the agent's streams: handler, context,
                                       \*   activeStreams, activeStream.done, .chunks
  fed, eof, made,                      \* request chunks and EOF the local service read,
                                       \*   response chunks it made
  al                                   \* the agent's serve loop

link == <<open, toAgent, toGw>>
gwStream == <<gpc, ctx, out, sent, got, started>>
gwSession == <<slots, pending, ch, done, rl>>
agent == <<apc, actx, active, sdone, chunks, fed, eof, made, al>>
vars == <<link, gwStream, gwSession, agent>>

-------------------------------------------------------------------------------
Reading == [at |-> "read"]
Stopped == [at |-> "stopped"]
Returned == [at |-> "returned"]
Delivering(m) == [at |-> "deliver", m |-> m]

\* streamRoundTrip between acquireStream and the end of its defers.
Acquired == {"start", "body", "end", "read", "write", "cancel", "return"}

Init ==
  /\ open = TRUE /\ toAgent = <<>> /\ toGw = <<>>
  /\ gpc = [s \in Streams |-> "idle"] /\ ctx = [s \in Streams |-> TRUE]
  /\ out = [s \in Streams |-> "none"]
  /\ sent = [s \in Streams |-> 0] /\ got = [s \in Streams |-> 0]
  /\ started = [s \in Streams |-> FALSE]
  /\ slots = 0 /\ pending = {} /\ ch = [s \in Streams |-> <<>>]
  /\ done = FALSE /\ rl = Reading
  /\ apc = [s \in Streams |-> "none"] /\ actx = [s \in Streams |-> TRUE]
  /\ active = {} /\ sdone = [s \in Streams |-> FALSE]
  /\ chunks = [s \in Streams |-> <<>>]
  /\ fed = [s \in Streams |-> 0] /\ eof = [s \in Streams |-> FALSE]
  /\ made = [s \in Streams |-> 0] /\ al = Reading

-------------------------------------------------------------------------------
(* write and writeBinaryBody.  The library fails a write whose context is   *)
(* done, with or without closing the connection, depending on how far the   *)
(* write got; a write that stays blocked ends at the write timeout and      *)
(* closes the connection.                                                   *)

Room(q) == open /\ Len(q) < LinkCap

WriteError(live, q) ==
  /\ ~open \/ ~live \/ Len(q) = LinkCap
  /\ open' \in (IF live THEN {FALSE} ELSE {open, FALSE})

Send(m) == Room(toAgent) /\ toAgent' = Append(toAgent, m) /\ UNCHANGED <<open, toGw>>
SendFails(live) == WriteError(live, toAgent) /\ UNCHANGED <<toAgent, toGw>>

Reply(m) == Room(toGw) /\ toGw' = Append(toGw, m) /\ UNCHANGED <<open, toAgent>>
ReplyFails(live) == WriteError(live, toGw) /\ UNCHANGED <<toAgent, toGw>>

-------------------------------------------------------------------------------
(* streamRoundTrip *)

Goto(s, l) == gpc' = [gpc EXCEPT ![s] = l]
Ends(s, l, o) == Goto(s, l) /\ out' = [out EXCEPT ![s] = o]
ErrorOf(s) == IF ctx[s] THEN "failed" ELSE "canceled"

acquireStream(s) ==
  /\ gpc[s] = "idle"
  /\ IF done \/ slots = MaxStreams
     THEN /\ Ends(s, "over", IF done THEN "failed" ELSE "limit")
          /\ UNCHANGED <<slots, pending>>
     ELSE /\ Goto(s, "start") /\ UNCHANGED out
          /\ slots' = slots + 1
          /\ pending' = pending \cup {s}
  /\ UNCHANGED <<link, ctx, sent, got, started, ch, done, rl, agent>>

\* Mutant: the error path skips the defers.
writeRequestStartLeaks(s) ==
  /\ gpc[s] = "start"
  /\ \/ /\ Send([s |-> s, t |-> "start"])
        /\ Goto(s, "body")
        /\ UNCHANGED out
     \/ SendFails(ctx[s]) /\ Ends(s, "over", ErrorOf(s))
  /\ UNCHANGED <<ctx, sent, got, started, gwSession, agent>>

writeRequestStart(s) ==
  /\ gpc[s] = "start"
  /\ \/ /\ Send([s |-> s, t |-> "start"])
        /\ Goto(s, "body")
        /\ UNCHANGED out
     \/ SendFails(ctx[s]) /\ Ends(s, "return", ErrorOf(s))
  /\ UNCHANGED <<ctx, sent, got, started, gwSession, agent>>

\* One turn of the loop of writeRequestBody: a chunk, EOF, or an error (the
\* body is too large, or the public client stopped sending it).
writeRequestBody(s) ==
  /\ gpc[s] = "body"
  /\ \/ /\ sent[s] < ReqMax
        /\ \/ /\ Send([s |-> s, t |-> "body"])
              /\ sent' = [sent EXCEPT ![s] = @ + 1]
              /\ UNCHANGED <<gpc, out>>
           \/ SendFails(ctx[s]) /\ Ends(s, "cancel", ErrorOf(s)) /\ UNCHANGED sent
     \/ Goto(s, "end") /\ UNCHANGED <<link, out, sent>>
     \/ Ends(s, "cancel", "failed") /\ UNCHANGED <<link, sent>>
  /\ UNCHANGED <<ctx, got, started, gwSession, agent>>

\* An error here returns without cancelStream.
writeRequestEnd(s) ==
  /\ gpc[s] = "end"
  /\ \/ /\ Send([s |-> s, t |-> "end"])
        /\ Goto(s, "read")
        /\ UNCHANGED out
     \/ SendFails(ctx[s]) /\ Ends(s, "return", ErrorOf(s))
  /\ UNCHANGED <<ctx, sent, got, started, gwSession, agent>>

\* The select of readStreamResponse: any ready case.
readStreamResponse(s) ==
  /\ gpc[s] = "read"
  /\ \/ ~ctx[s] /\ Ends(s, "cancel", "canceled") /\ UNCHANGED <<ch, got, started>>
     \/ done /\ Ends(s, "cancel", "failed") /\ UNCHANGED <<ch, got, started>>
     \/ /\ ch[s] # <<>>
        /\ ch' = [ch EXCEPT ![s] = Tail(@)]
        /\ CASE Head(ch[s]) = "rstart" ->
                  /\ started' = [started EXCEPT ![s] = TRUE]
                  /\ UNCHANGED <<gpc, out, got>>
             [] Head(ch[s]) = "rbody" /\ started[s] ->
                  \* a chunk larger than StreamChunkBytes is an error
                  /\ UNCHANGED started
                  /\ \/ Goto(s, "write") /\ got' = [got EXCEPT ![s] = @ + 1] /\ UNCHANGED out
                     \/ Ends(s, "cancel", "failed") /\ UNCHANGED got
             [] Head(ch[s]) = "rend" ->
                  /\ Ends(s, "return", "completed")
                  /\ started' = [started EXCEPT ![s] = TRUE]
                  /\ UNCHANGED got
             [] OTHER -> Ends(s, "cancel", "failed") /\ UNCHANGED <<got, started>>
  /\ UNCHANGED <<link, ctx, sent, slots, pending, done, rl, agent>>

\* writeResponseBody of handlePublicHTTP: w.Write to the public client returns or
\* fails in its own time, as the server has no WriteTimeout and the stream's context
\* does not end it.
writePublicBody(s) ==
  /\ gpc[s] = "write"
  /\ \/ Goto(s, "read") /\ UNCHANGED out
     \/ Ends(s, "cancel", "failed")
  /\ UNCHANGED <<link, ctx, sent, got, started, gwSession, agent>>

\* Mutant: the write has no deadline and outlives the connection.
cancelStreamWaits(s) ==
  /\ gpc[s] = "cancel"
  /\ Goto(s, "return")
  /\ Send([s |-> s, t |-> "cancel"])
  /\ UNCHANGED <<ctx, out, sent, got, started, gwSession, agent>>

\* cancelStream writes under context.Background; its error is ignored.
cancelStream(s) ==
  /\ gpc[s] = "cancel"
  /\ Goto(s, "return")
  /\ \/ /\ Send([s |-> s, t |-> "cancel"])
     \/ SendFails(TRUE)
  /\ UNCHANGED <<ctx, out, sent, got, started, gwSession, agent>>

\* The defers: removePending and releaseStream, and the caller's deadline.Stop.
\* Its locals are gone; sent stays, to be compared with what the agent saw.
streamRoundTripReturns(s) ==
  /\ gpc[s] = "return"
  /\ Goto(s, "over")
  /\ pending' = pending \ {s}
  /\ slots' = slots - 1
  /\ ctx' = [ctx EXCEPT ![s] = FALSE]
  /\ got' = [got EXCEPT ![s] = 0]
  /\ started' = [started EXCEPT ![s] = FALSE]
  /\ UNCHANGED <<link, out, sent, ch, done, rl, agent>>

\* The public client goes away or a timer of streamDeadline fires.
CtxDone(s) ==
  /\ gpc[s] \in {"start", "body", "end", "read", "write"} /\ ctx[s]
  /\ ctx' = [ctx EXCEPT ![s] = FALSE]
  /\ UNCHANGED <<link, gpc, out, sent, got, started, gwSession, agent>>

-------------------------------------------------------------------------------
(* agentSession.readLoop and startKeepalive *)

\* deliver looks the channel up once; a message of an unknown stream is dropped.
readLoopRead ==
  /\ rl = Reading /\ toGw # <<>>
  /\ toGw' = Tail(toGw)
  /\ rl' = IF Head(toGw).s \in pending THEN Delivering(Head(toGw)) ELSE rl
  /\ UNCHANGED <<open, toAgent, gwStream, slots, pending, ch, done, agent>>

\* Mutant: a message that finds the channel full is dropped.
deliverDrops ==
  /\ rl.at = "deliver"
  /\ rl' = Reading
  /\ ch' = [ch EXCEPT ![rl.m.s] = IF Len(@) < ChanCap THEN Append(@, rl.m.t) ELSE @]
  /\ UNCHANGED <<link, gwStream, slots, pending, done, agent>>

\* Mutant: the end of the session does not release the send.
deliverIgnoresDone ==
  /\ rl.at = "deliver"
  /\ rl' = Reading
  /\ Len(ch[rl.m.s]) < ChanCap
  /\ ch' = [ch EXCEPT ![rl.m.s] = Append(@, rl.m.t)]
  /\ UNCHANGED <<link, gwStream, slots, pending, done, agent>>

\* The send on the channel waits for room or for s.done, not for the stream.
deliver ==
  /\ rl.at = "deliver"
  /\ rl' = Reading
  /\ \/ /\ Len(ch[rl.m.s]) < ChanCap
        /\ ch' = [ch EXCEPT ![rl.m.s] = Append(@, rl.m.t)]
     \/ done /\ UNCHANGED ch
  /\ UNCHANGED <<link, gwStream, slots, pending, done, agent>>

readLoopStops ==
  /\ rl = Reading /\ ~open
  /\ rl' = Stopped /\ done' = TRUE
  /\ UNCHANGED <<link, gwStream, slots, pending, ch, agent>>

\* A ping is answered only while both sides read, and fails on a closed
\* connection; close() closes s.done and the connection.
keepaliveFails ==
  /\ ~done
  /\ rl.at = "deliver" \/ al.at = "deliver" \/ ~open
  /\ done' = TRUE /\ open' = FALSE
  /\ UNCHANGED <<toAgent, toGw, gwStream, slots, pending, ch, rl, agent>>

ConnLost ==
  /\ open /\ open' = FALSE
  /\ UNCHANGED <<toAgent, toGw, gwStream, gwSession, agent>>

-------------------------------------------------------------------------------
(* The agent: serve *)

\* Mutant: a chunk that is too large is skipped and its stream goes on.
serveReadSkips ==
  /\ al = Reading /\ toAgent # <<>>
  /\ toAgent' = Tail(toAgent)
  /\ LET m == Head(toAgent) IN
     \/ /\ m.t = "start"
        /\ apc' = [apc EXCEPT ![m.s] = "call"]
        /\ active' = active \cup {m.s}
        /\ UNCHANGED <<actx, sdone, al>>
     \/ /\ m.t \in {"body", "end"}
        /\ al' = IF m.s \in active THEN Delivering(m) ELSE al
        /\ UNCHANGED <<apc, active, actx, sdone>>
     \/ m.t = "body" /\ UNCHANGED <<apc, active, actx, sdone, al>>
     \/ /\ m.t = "cancel"
        /\ actx' = [actx EXCEPT ![m.s] = @ /\ m.s \notin active]
        /\ sdone' = [sdone EXCEPT ![m.s] = @ \/ m.s \in active]
        /\ UNCHANGED <<apc, active, al>>
  /\ UNCHANGED <<open, toGw, gwStream, gwSession, chunks, fed, eof, made>>

\* A chunk larger than the agent's StreamChunkBytes is dropped, and its stream
\* cancelled as by an http.stream.cancel.
serveRead ==
  /\ al = Reading /\ toAgent # <<>>
  /\ toAgent' = Tail(toAgent)
  /\ LET m == Head(toAgent) IN
     \/ /\ m.t = "start"
        /\ apc' = [apc EXCEPT ![m.s] = "call"]
        /\ active' = active \cup {m.s}
        /\ UNCHANGED <<actx, sdone, al>>
     \/ /\ m.t \in {"body", "end"}
        /\ al' = IF m.s \in active THEN Delivering(m) ELSE al
        /\ UNCHANGED <<apc, active, actx, sdone>>
     \/ /\ m.t \in {"cancel", "body"}
        /\ actx' = [actx EXCEPT ![m.s] = @ /\ m.s \notin active]
        /\ sdone' = [sdone EXCEPT ![m.s] = @ \/ m.s \in active]
        /\ UNCHANGED <<apc, active, al>>
  /\ UNCHANGED <<open, toGw, gwStream, gwSession, chunks, fed, eof, made>>

\* Mutant: a chunk that finds the channel full is dropped.
deliverActiveStreamChunkDrops ==
  /\ al.at = "deliver"
  /\ al' = Reading
  /\ chunks' = [chunks EXCEPT ![al.m.s] = IF Len(@) < ChunkCap THEN Append(@, al.m.t) ELSE @]
  /\ UNCHANGED <<link, gwStream, gwSession, apc, actx, active, sdone, fed, eof, made>>

deliverActiveStreamChunk ==
  /\ al.at = "deliver"
  /\ al' = Reading
  /\ \/ /\ Len(chunks[al.m.s]) < ChunkCap
        /\ chunks' = [chunks EXCEPT ![al.m.s] = Append(@, al.m.t)]
     \/ sdone[al.m.s] /\ UNCHANGED chunks
  /\ UNCHANGED <<link, gwStream, gwSession, apc, actx, active, sdone, fed, eof, made>>

\* serve returns on a read error; stopSession cancels every stream ...
serveStops ==
  /\ al = Reading /\ ~open
  /\ al' = Stopped
  /\ actx' = [s \in Streams |-> FALSE]
  /\ UNCHANGED <<link, gwStream, gwSession, apc, active, sdone, chunks, fed, eof, made>>

\* Mutant: no activeWG.Wait.
runOnceReturnsEarly ==
  /\ al = Stopped
  /\ al' = Returned
  /\ UNCHANGED <<link, gwStream, gwSession, apc, actx, active, sdone, chunks, fed, eof, made>>

\* ... and runOnce returns once activeWG is empty.
runOnceReturns ==
  /\ al = Stopped
  /\ \A s \in Streams : apc[s] \in {"none", "gone"}
  /\ al' = Returned
  /\ UNCHANGED <<link, gwStream, gwSession, apc, actx, active, sdone, chunks, fed, eof, made>>

(* The agent: handleHTTPStream and ForwardHTTPStream *)

\* requestBodyFromChunks: the pump hands chunks to the local service as it reads
\* them.  When the stream's context is done the select may still take a chunk that
\* is there, or the end.
pumpChunk(s) ==
  /\ apc[s] \in {"call", "resp"} /\ chunks[s] # <<>> /\ ~eof[s]
  /\ chunks' = [chunks EXCEPT ![s] = Tail(@)]
  /\ IF Head(chunks[s]) = "end"
     THEN eof' = [eof EXCEPT ![s] = TRUE] /\ UNCHANGED fed
     ELSE fed' = [fed EXCEPT ![s] = @ + 1] /\ UNCHANGED eof
  /\ UNCHANGED <<link, gwStream, gwSession, apc, actx, active, sdone, made, al>>

\* After an error the handler reports it unless its context is done.
FailsTo(s) == apc' = [apc EXCEPT ![s] = IF actx[s] THEN "err" ELSE "finish"]

\* The local service may answer before it has read the body.
writeResponseStart(s) ==
  /\ apc[s] = "call"
  /\ \/ Reply([s |-> s, t |-> "rstart"]) /\ apc' = [apc EXCEPT ![s] = "resp"]
     \/ ReplyFails(actx[s]) /\ FailsTo(s)
  /\ UNCHANGED <<gwStream, gwSession, actx, active, sdone, chunks, fed, eof, made, al>>

writeResponseBody(s) ==
  /\ apc[s] = "resp" /\ made[s] < RespMax
  /\ made' = [made EXCEPT ![s] = @ + 1]
  /\ \/ Reply([s |-> s, t |-> "rbody"]) /\ UNCHANGED apc
     \/ ReplyFails(actx[s]) /\ FailsTo(s)
  /\ UNCHANGED <<gwStream, gwSession, actx, active, sdone, chunks, fed, eof, al>>

writeResponseEnd(s) ==
  /\ apc[s] = "resp"
  /\ apc' = [apc EXCEPT ![s] = "finish"]
  /\ Reply([s |-> s, t |-> "rend"]) \/ ReplyFails(actx[s])
  /\ UNCHANGED <<gwStream, gwSession, actx, active, sdone, chunks, fed, eof, made, al>>

\* The local call fails, its client's Timeout expires, the response is too
\* large, or the stream's context is done.
localRequestFails(s) ==
  /\ apc[s] \in {"call", "resp"}
  /\ FailsTo(s)
  /\ UNCHANGED <<link, gwStream, gwSession, actx, active, sdone, chunks, fed, eof, made, al>>

writeStreamError(s) ==
  /\ apc[s] = "err"
  /\ apc' = [apc EXCEPT ![s] = "finish"]
  /\ Reply([s |-> s, t |-> "serr"]) \/ ReplyFails(actx[s])
  /\ UNCHANGED <<gwStream, gwSession, actx, active, sdone, chunks, fed, eof, made, al>>

\* Mutant: done is not closed, so a blocked sender stays blocked.
removeActiveStreamKeepsDone(s) ==
  /\ apc[s] = "finish"
  /\ apc' = [apc EXCEPT ![s] = "gone"]
  /\ actx' = [actx EXCEPT ![s] = FALSE]
  /\ active' = active \ {s}
  /\ UNCHANGED <<link, gwStream, gwSession, sdone, chunks, fed, eof, made, al>>

\* The defers of the goroutine; nobody reads the chunk channel any more.
removeActiveStream(s) ==
  /\ apc[s] = "finish"
  /\ apc' = [apc EXCEPT ![s] = "gone"]
  /\ actx' = [actx EXCEPT ![s] = FALSE]
  /\ active' = active \ {s}
  /\ sdone' = [sdone EXCEPT ![s] = TRUE]
  /\ chunks' = [chunks EXCEPT ![s] = <<>>]
  /\ fed' = [fed EXCEPT ![s] = 0]
  /\ eof' = [eof EXCEPT ![s] = FALSE]
  /\ UNCHANGED <<link, gwStream, gwSession, made, al>>

-------------------------------------------------------------------------------
RoundTrip(s) ==
  \/ writeRequestStart(s) \/ writeRequestBody(s) \/ writeRequestEnd(s)
  \/ readStreamResponse(s) \/ cancelStream(s)
  \/ streamRoundTripReturns(s)

ReadLoop == readLoopRead \/ deliver \/ readLoopStops

Serve == serveRead \/ deliverActiveStreamChunk \/ serveStops \/ runOnceReturns

LocalCall(s) ==
  \/ writeResponseStart(s) \/ writeResponseBody(s) \/ writeResponseEnd(s)
  \/ localRequestFails(s) \/ writeStreamError(s) \/ removeActiveStream(s)

Next ==
  \/ \E s \in Streams : acquireStream(s) \/ RoundTrip(s) \/ CtxDone(s)
                        \/ writePublicBody(s) \/ pumpChunk(s) \/ LocalCall(s)
  \/ ReadLoop \/ keepaliveFails \/ ConnLost
  \/ Serve

Spec == Init /\ [][Next]_vars

(* Every goroutine that can run does.  The request, idle and lifetime timers *)
(* end a stream's context, the local client's Timeout ends a local call, and *)
(* the keepalive ticker keeps pinging; a read of the public request's body   *)
(* ends at the server's ReadTimeout.  A local service may never read the     *)
(* request body, a public client may never read the response, and the        *)
(* network may never fail.                                                   *)
FairSpec ==
  /\ Spec
  /\ \A s \in Streams : WF_vars(RoundTrip(s)) /\ WF_vars(CtxDone(s)) /\ WF_vars(LocalCall(s))
  /\ WF_vars(ReadLoop) /\ WF_vars(keepaliveFails) /\ WF_vars(Serve)

-------------------------------------------------------------------------------
\* A local service that saw the end of the request body saw all of it, unless its
\* request is cancelled: no interleaving of oversized chunks, cancellations, full
\* channels and late messages drops a chunk on the way, delivers http.request.end,
\* and leaves the local call running as if the body were complete.
RequestBodyIntact ==
  \A s \in Streams : eof[s] => fed[s] = sent[s] \/ ~actx[s]

\* A round trip that completes while the session is up has passed on every
\* chunk the local service produced to the writer of its public client.
CompletedWhileUpIsIntact ==
  [][\A s \in Streams :
       out[s] # "completed" /\ out'[s] = "completed" /\ ~done => got[s] = made[s]]_vars

\* acquireStream and releaseStream, addPending and removePending pair up on
\* every path of streamRoundTrip, so the concurrency limit counts exactly the
\* round trips that are running.
SlotsMatchRoundTrips ==
  /\ slots = Cardinality({s \in Streams : gpc[s] \in Acquired})
  /\ pending = {s \in Streams : gpc[s] \in Acquired}

\* When runOnce returns, so that the agent may reconnect, no goroutine of the
\* old connection is left (runner.go 189-194).
NoStreamOutlivesConnection ==
  al = Returned => active = {} /\ \A s \in Streams : apc[s] \in {"none", "gone"}

\* The places at which an agent goroutine serves its stream.
Working == {"call", "resp", "err", "finish"}

\* What keeps them true: agentSession's accounting and activeStreams name
\* exactly the goroutines there are.
Accounted ==
  /\ gpc \in [Streams -> Acquired \cup {"idle", "over"}]
  /\ SlotsMatchRoundTrips
  /\ apc \in [Streams -> Working \cup {"none", "gone"}]
  /\ active = {s \in Streams : apc[s] \in Working}
  /\ toAgent \in Seq([s : Streams, t : {"start", "body", "end", "cancel"}])
  /\ al = Returned => active = {}

\* Every stream ends at both ends, however the tunnel, the agent and the local
\* service behave: the round trip gives its slot back, unless its public client
\* stops reading (nothing ends that write, and the slot stays taken), and the agent's
\* goroutine ends also when no http.stream.cancel tells it to (session.go 145-147).
\* Neither comes back to its first place, so to stay there or to be over is to have
\* ended if it ever began.
RoundTripsEnd ==
  \A s \in Streams : <>[](gpc[s] \in {"idle", "over", "write"} /\ apc[s] \in {"none", "gone"})

\* Neither read loop stays blocked on one stream's full channel for ever: each is
\* found not blocked again and again.
LoopsUnblock == []<>(rl.at # "deliver") /\ []<>(al.at # "deliver")

\* When the connection is gone, for good, the agent gets out of runOnce.
AgentLeavesDeadConnection == <>[](open \/ al = Returned)

\* server_test.go 823 (the body of a completed request is the one the agent sent)
\* without the session having to stay up: completed means complete.
ResponseBodyIntact ==
  [][\A s \in Streams :
       out[s] # "completed" /\ out'[s] = "completed" => got[s] = made[s]]_vars

===============================================================================
