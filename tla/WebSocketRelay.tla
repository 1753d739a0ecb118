---------------------------- MODULE WebSocketRelay -----------------------------
(***************************************************************************)
(* A public websocket relayed through the tunnel.  The gateway ("gw")      *)
(* holds the public client's connection, the agent ("ag") the connection   *)
(* to the local service; at each end one pump reads that connection and    *)
(* writes to the tunnel, the other reads the stream's channel and writes   *)
(* to that connection.  The two programs have the same relay, so the pumps *)
(* are written once, for an end e; what differs is around them: the        *)
(* gateway has a deadline and reports contexts that end, the agent not.    *)
(*                                                                         *)
(* Messages are counted, not carried.  A frame of the public client or of  *)
(* the local service appears when Read returns it: what a peer has sent    *)
(* and nobody has read is not part of the state.                           *)
(***************************************************************************)
EXTENDS Naturals, Sequences, Functions

CONSTANTS MaxMessages,  \* bound: messages under way, of both peers
          ChanCap,      \* 64: wsStreamPendingBuffer of a stream's channel
          LinkCap       \* what the network and the socket buffers hold

ASSUME RelayAssumption ==
  /\ MaxMessages \in Nat /\ ChanCap \in Nat \ {0} /\ LinkCap \in Nat \ {0}

VARIABLES
  open, wire,       \* the tunnel's websocket: is it open, frames on the way to each end
  done,             \* agentSession.done
  loop, chan, reg,  \* readLoop and serve, the stream's channels, the ends it is
                    \*   registered at (pending, activeStreams)
  held,             \* the stream holds a slot of agentSession.streams
  at, ctx, out,     \* the two handlers, is the context live that each runs under,
                    \*   or its relay while there is one, what the gateway's reports
  up, down, errs,   \* the pumps of the relays, and errCh
  conn, closed,     \* the connections to the peers, has a peer closed its own
  owed              \* messages read from a peer that the other has not been given

Ends == {"gw", "ag"}
Other(e) == IF e = "gw" THEN "ag" ELSE "gw"

link == <<open, wire>>
session == <<done, loop, chan, reg, held>>
pumps == <<up, down, errs>>
socket == <<conn, closed, owed>>
vars == <<link, session, at, ctx, out, pumps, socket>>

Reading == [at |-> "read"]
Stopped == [at |-> "stopped"]
Delivering(f) == [at |-> "deliver", f |-> f]

Init ==
  /\ open = TRUE /\ wire = [e \in Ends |-> <<>>] /\ done = FALSE
  /\ loop = [e \in Ends |-> Reading] /\ chan = [e \in Ends |-> <<>>]
  /\ reg = {} /\ held = FALSE
  /\ at = [e \in Ends |-> "idle"] /\ ctx = [e \in Ends |-> TRUE] /\ out = "none"
  /\ up = [e \in Ends |-> "off"] /\ down = [e \in Ends |-> "off"]
  /\ errs = [e \in Ends |-> <<>>]
  /\ conn = [e \in Ends |-> "none"] /\ closed = FALSE /\ owed = [e \in Ends |-> 0]

Goto(e, l) == at' = [at EXCEPT ![e] = l]

-------------------------------------------------------------------------------
(* Writes to the tunnel.  A write whose context is done fails, with or      *)
(* without closing the connection; one that stays blocked ends at the write *)
(* timeout and closes it.                                                   *)

Sends(e, f) ==
  /\ open /\ Len(wire[Other(e)]) < LinkCap
  /\ wire' = [wire EXCEPT ![Other(e)] = Append(@, f)]
  /\ UNCHANGED open

SendFails(e, live) ==
  /\ ~open \/ ~live \/ Len(wire[Other(e)]) = LinkCap
  /\ open' \in (IF live THEN {FALSE} ELSE {open, FALSE})
  /\ UNCHANGED wire

-------------------------------------------------------------------------------
(* The gateway: handlePublicWebSocket and openWSStream *)

\* The checks that refuse a stream before it has a slot: the agent has no
\* websocket capability, the session has ended, the other streams hold every slot.
acquireStream ==
  /\ at["gw"] = "idle"
  /\ \/ /\ Goto("gw", "refused")
        /\ out' = "refused"
        /\ UNCHANGED <<reg, held>>
     \/ /\ ~done
        /\ Goto("gw", "open") /\ reg' = reg \cup {"gw"} /\ held' = TRUE
        /\ UNCHANGED out
  /\ UNCHANGED <<link, done, loop, chan, ctx, pumps, socket>>

\* Mutant: the error paths forget the cleanup.
OpenFailsLeaks ==
  /\ Goto("gw", "refused") /\ out' = "refused"
  /\ UNCHANGED <<reg, held>>

\* cleanup, and an answer by the kind of error; the agent is not told.
OpenFails ==
  /\ Goto("gw", "refused") /\ out' = "refused"
  /\ reg' = reg \ {"gw"} /\ held' = FALSE

writeOpen ==
  /\ at["gw"] = "open"
  /\ \/ Sends("gw", "open") /\ Goto("gw", "await") /\ UNCHANGED <<out, reg, held>>
     \/ SendFails("gw", ctx["gw"]) /\ OpenFails
  /\ UNCHANGED <<done, loop, chan, ctx, pumps, socket>>

awaitAccept ==
  /\ at["gw"] = "await"
  /\ \/ (~ctx["gw"] \/ done) /\ OpenFails /\ UNCHANGED chan
     \/ /\ chan["gw"] # <<>>
        /\ chan' = [chan EXCEPT !["gw"] = Tail(@)]
        /\ IF Head(chan["gw"]) = "accept"
           THEN Goto("gw", "accept") /\ UNCHANGED <<out, reg, held>>
           ELSE OpenFails
  /\ UNCHANGED <<link, done, loop, ctx, pumps, socket>>

StartsRelay(e) ==
  /\ Goto(e, "relay")
  /\ up' = [up EXCEPT ![e] = "read"] /\ down' = [down EXCEPT ![e] = "read"]

\* websocket.Accept, and MarkResponseStarted before the relay starts.
acceptPublic ==
  /\ at["gw"] = "accept"
  /\ \/ /\ StartsRelay("gw")
        /\ conn' = [conn EXCEPT !["gw"] = "open"]
        /\ UNCHANGED out
     \/ Goto("gw", "tell") /\ out' = "refused" /\ UNCHANGED <<conn, up, down>>
  /\ UNCHANGED <<link, session, ctx, errs, closed, owed>>

\* SendCancel under context.Background; its error is ignored.
SendCancel ==
  /\ at["gw"] = "tell"
  /\ Goto("gw", "return")
  /\ Sends("gw", "cancel") \/ SendFails("gw", TRUE)
  /\ UNCHANGED <<session, ctx, out, pumps, socket>>

\* The locals and the connection of a handler that returns are gone.
Forgets(e) ==
  /\ Goto(e, "over")
  /\ ctx' = [ctx EXCEPT ![e] = FALSE]
  /\ up' = [up EXCEPT ![e] = IF @ = "done" THEN "off" ELSE @]
  /\ down' = [down EXCEPT ![e] = IF @ = "done" THEN "off" ELSE @]
  /\ errs' = [errs EXCEPT ![e] = <<>>]
  /\ conn' = [conn EXCEPT ![e] = "closed"]
  /\ UNCHANGED <<closed, owed>>

\* The defers: publicConn.CloseNow and stream.Close, if openWSStream returned a
\* stream, and the deadline's Stop; the outcome is in the log.
handlePublicWebSocketReturns ==
  /\ Forgets("gw")
  /\ out' = "none"
  /\ \/ at["gw"] = "return" /\ reg' = reg \ {"gw"} /\ held' = FALSE
     \/ at["gw"] = "refused" /\ UNCHANGED <<reg, held>>
  /\ UNCHANGED <<link, done, loop, chan>>

\* A timer of the deadline, or, until the connection is hijacked, the client that
\* goes away.
CtxDone ==
  /\ at["gw"] \in {"open", "await", "relay"} /\ ctx["gw"]
  /\ ctx' = [ctx EXCEPT !["gw"] = FALSE]
  /\ UNCHANGED <<link, session, at, out, pumps, socket>>

-------------------------------------------------------------------------------
(* The relay of an end: relayPublicWebSocket, relayWSStream *)

\* relayCtx: it ends with the handler's context, or when relayFirst cancels it;
\* nothing looks at the handler's after that.
Live(e) == ctx[e]

\* What a pump returns: nil, the end of a context, or another error, which are
\* told apart no further.  The agent only logs it.
PumpReturns(e, pump, err) ==
  /\ pump' = [pump EXCEPT ![e] = "done"]
  /\ errs' = [errs EXCEPT ![e] = Append(@, IF e = "ag" THEN "any" ELSE err)]

\* The peer's connection, as the library treats it.  Read returns a message, the
\* peer's close frame (of its own accord, or the answer to ours while Close
\* waits for it), or an error, which closes the connection: the context is
\* done, the network fails, or somebody closed it.
ReadsMessage(e) ==
  /\ Live(e) /\ conn[e] \in {"open", "closing"} 
  /\ owed[e] + owed[Other(e)] < MaxMessages
  /\ owed' = [owed EXCEPT ![e] = @ + 1]
  /\ UNCHANGED <<conn, closed>>

ReadsClose(e) ==
  /\ Live(e) /\ conn[e] \in {"open", "closing"}
  /\ closed' = (closed \/ conn[e] = "open")
  /\ conn' = [conn EXCEPT ![e] = "closed"]
  /\ UNCHANGED owed

ReadFails(e) ==
  /\ conn' = [conn EXCEPT ![e] = "closed"]
  /\ UNCHANGED <<closed, owed>>

\* pumpPublicToAgent at the gateway, up to the write of what it read.
pumpInReads(e) ==
  /\ up[e] = "read"
  /\ \/ ReadsMessage(e) /\ up' = [up EXCEPT ![e] = "send"] /\ UNCHANGED errs
     \/ /\ ReadsClose(e)
        /\ up' = [up EXCEPT ![e] = "close"] /\ UNCHANGED errs
     \/ /\ ReadFails(e) /\ Live(e)
        /\ up' = [up EXCEPT ![e] = "cancel"] /\ UNCHANGED errs
     \/ ReadFails(e) /\ ~Live(e) /\ PumpReturns(e, up, "done")
  /\ UNCHANGED <<link, session, at, ctx, out, down>>

pumpInSends(e) ==
  /\ up[e] = "send"
  /\ \/ Sends(e, "msg") /\ up' = [up EXCEPT ![e] = "read"] /\ UNCHANGED errs
     \/ /\ SendFails(e, Live(e))
        /\ PumpReturns(e, up, IF open \/ ~Live(e) THEN "done" ELSE "err")
  /\ UNCHANGED <<session, at, ctx, out, down, socket>>

\* closeOrCancelForReadError, on a context of its own.
closeOrCancelForReadError(e) ==
  /\ up[e] \in {"close", "cancel"}
  /\ PumpReturns(e, up, IF up[e] = "close" THEN "nil" ELSE "err")
  /\ Sends(e, up[e]) \/ SendFails(e, TRUE)
  /\ UNCHANGED <<session, at, ctx, out, down, socket>>

\* The peer is closed with the code of the other peer.
ClosesPeer(e) ==
  /\ down' = [down EXCEPT ![e] = "closing"]
  /\ conn' = [conn EXCEPT ![e] = IF @ = "open" THEN "closing" ELSE @]
  /\ UNCHANGED errs

\* Mutant: a ws.cancel is read and ignored.
TakesFrameButCancel(e, f) ==
  CASE f = "msg" -> down' = [down EXCEPT ![e] = "write"] /\ UNCHANGED <<conn, errs>>
    [] f = "close" -> ClosesPeer(e)
    [] OTHER -> UNCHANGED <<conn, down, errs>>

TakesFrame(e, f) ==
  CASE f = "msg" -> down' = [down EXCEPT ![e] = "write"] /\ UNCHANGED <<conn, errs>>
    [] f = "close" -> ClosesPeer(e)
    [] OTHER -> PumpReturns(e, down, "err") /\ UNCHANGED conn

\* Mutant: a receive in place of the select.
pumpOutReadsBlindly(e) ==
  /\ down[e] = "read"
  /\ chan[e] # <<>> /\ chan' = [chan EXCEPT ![e] = Tail(@)]
  /\ TakesFrame(e, Head(chan[e]))
  /\ UNCHANGED <<link, done, loop, reg, held, at, ctx, out, up, closed, owed>>

\* The select of pumpAgentToPublic; it does not watch the session.
pumpOutReads(e) ==
  /\ down[e] = "read"
  /\ \/ ~Live(e) /\ PumpReturns(e, down, "done") /\ UNCHANGED <<chan, conn>>
     \/ /\ chan[e] # <<>> /\ chan' = [chan EXCEPT ![e] = Tail(@)]
        /\ TakesFrame(e, Head(chan[e]))
  /\ UNCHANGED <<link, done, loop, reg, held, at, ctx, out, up, closed, owed>>

\* Write to the peer: it fails on a closed connection or a failing network, and
\* at the write timeout, which closes the connection, when the peer is slow.
pumpOutWrites(e) ==
  /\ down[e] = "write"
  /\ \/ /\ conn[e] = "open"
        /\ down' = [down EXCEPT ![e] = "read"]
        /\ owed' = [owed EXCEPT ![Other(e)] = @ - 1]
        /\ UNCHANGED <<errs, conn>>
     \/ /\ \E err \in IF ~Live(e) THEN {"done"}
                     ELSE IF conn[e] = "open" THEN {"done", "err"} ELSE {"err"} :
              PumpReturns(e, down, err)
        /\ conn' = [conn EXCEPT ![e] = "closed"]
        /\ UNCHANGED owed
  /\ UNCHANGED <<link, session, at, ctx, out, up, closed>>

\* Close returns: the peer answered, or five seconds passed.
pumpOutClosed(e) ==
  /\ down[e] = "closing"
  /\ PumpReturns(e, down, "nil")
  /\ conn' = [conn EXCEPT ![e] = "closed"]
  /\ UNCHANGED <<link, session, at, ctx, out, up, closed, owed>>

\* first := <-errCh; cancelRelay()
relayFirst(e) ==
  /\ at[e] = "relay" /\ errs[e] # <<>>
  /\ Goto(e, "drain") /\ ctx' = [ctx EXCEPT ![e] = FALSE]
  /\ UNCHANGED <<link, session, out, pumps, socket>>

\* Mutant: an error that is only the end of the context counts as success.
relayOutcomeLenient(first, second) ==
  IF "nil" \in {first, second} \/ second = "done" THEN "nil" ELSE first

relayOutcome(first, second) == IF "nil" \in {first, second} THEN "nil" ELSE first

\* Canceled, DeadlineExceeded and the causes of the deadline, all "done" here.
isStreamContextDoneCause(err) == err = "done"

\* second := <-errCh, at the gateway, and the outcome it reports.  Nothing is left
\* in errCh.
relayPublicWebSocket ==
  /\ at["gw"] = "drain" /\ Len(errs["gw"]) = 2
  /\ LET outcome == relayOutcome(errs["gw"][1], errs["gw"][2]) IN
     /\ Goto("gw", IF isStreamContextDoneCause(outcome) THEN "tell" ELSE "return")
     /\ out' = IF outcome = "nil" THEN "completed" ELSE "failed"
  /\ errs' = [errs EXCEPT !["gw"] = <<>>]
  /\ UNCHANGED <<link, session, ctx, up, down, socket>>

\* The same at the agent, which reports nothing.
relayWSStream ==
  /\ at["ag"] = "drain" /\ Len(errs["ag"]) = 2
  /\ Goto("ag", "finish")
  /\ errs' = [errs EXCEPT !["ag"] = <<>>]
  /\ UNCHANGED <<link, session, ctx, out, up, down, socket>>

-------------------------------------------------------------------------------
(* The agent: handleWSStream *)

dialLocal ==
  /\ at["ag"] = "dial"
  /\ \/ /\ ctx["ag"]
        /\ Goto("ag", "accept") /\ conn' = [conn EXCEPT !["ag"] = "open"]
     \/ Goto("ag", "error") /\ UNCHANGED conn
  /\ UNCHANGED <<link, session, ctx, out, pumps, closed, owed>>

writeAccept ==
  /\ at["ag"] = "accept"
  /\ \/ Sends("ag", "accept") /\ StartsRelay("ag")
     \/ SendFails("ag", ctx["ag"]) /\ Goto("ag", "finish") /\ UNCHANGED <<up, down>>
  /\ UNCHANGED <<session, ctx, out, errs, socket>>

sendWSError ==
  /\ at["ag"] = "error"
  /\ Goto("ag", "finish")
  /\ Sends("ag", "error") \/ SendFails("ag", ctx["ag"])
  /\ UNCHANGED <<session, ctx, out, pumps, socket>>

\* The defers: localConn.CloseNow, cancelStream, removeActiveStream.
handleWSStreamReturns ==
  /\ at["ag"] = "finish"
  /\ Forgets("ag")
  /\ chan' = [chan EXCEPT !["ag"] = <<>>]
  /\ reg' = reg \ {"ag"}
  /\ UNCHANGED <<link, done, loop, held, out>>

-------------------------------------------------------------------------------
(* The loops that read the tunnel: agentSession.readLoop and serve *)

\* Mutant: a frame that finds the channel full is dropped.
readLoopReadsDrops(e) ==
  /\ loop[e] = Reading /\ wire[e] # <<>>
  /\ LET f == Head(wire[e]) IN
     /\ f # "open"
     /\ IF e \in reg /\ Len(chan[e]) < ChanCap
        THEN chan' = [chan EXCEPT ![e] = Append(@, f)]
        ELSE UNCHANGED chan
  /\ wire' = [wire EXCEPT ![e] = Tail(@)]
  /\ UNCHANGED <<open, done, loop, reg, held, at, ctx, out, pumps, socket>>

\* A frame goes to the channel of its stream, at once when there is room; one of a
\* stream that is not registered is dropped.
readLoopReads(e) ==
  /\ loop[e] = Reading /\ wire[e] # <<>>
  /\ LET f == Head(wire[e]) IN
     /\ f # "open"
     /\ \/ e \notin reg /\ UNCHANGED <<chan, loop>>
        \/ /\ e \in reg /\ Len(chan[e]) < ChanCap
           /\ chan' = [chan EXCEPT ![e] = Append(@, f)] /\ UNCHANGED loop
        \/ /\ e \in reg /\ (Len(chan[e]) = ChanCap \/ (e = "gw" /\ done))
           /\ loop' = [loop EXCEPT ![e] = Delivering(f)] /\ UNCHANGED chan
  /\ wire' = [wire EXCEPT ![e] = Tail(@)]
  /\ UNCHANGED <<open, done, reg, held, at, ctx, out, pumps, socket>>

serveWSOpen ==
  /\ loop["ag"] = Reading /\ wire["ag"] # <<>>
  /\ Head(wire["ag"]) = "open"
  /\ wire' = [wire EXCEPT !["ag"] = Tail(@)]
  /\ Goto("ag", "dial")
  /\ reg' = reg \cup {"ag"}
  /\ UNCHANGED <<open, done, loop, chan, held, ctx, out, pumps, socket>>

\* The gateway's send on the channel waits for room or for s.done, the agent's
\* for room or for the end of the stream.
deliver(e) ==
  /\ loop[e].at = "deliver"
  /\ loop' = [loop EXCEPT ![e] = Reading]
  /\ \/ /\ e = "gw" \/ "ag" \in reg
        /\ Len(chan[e]) < ChanCap
        /\ chan' = [chan EXCEPT ![e] = Append(@, loop[e].f)]
     \/ (IF e = "gw" THEN done ELSE "ag" \notin reg) /\ UNCHANGED chan
  /\ UNCHANGED <<link, done, reg, held, at, ctx, out, pumps, socket>>

readLoopStops ==
  /\ loop["gw"] = Reading /\ ~open
  /\ loop' = [loop EXCEPT !["gw"] = Stopped] /\ done' = TRUE
  /\ UNCHANGED <<link, chan, reg, held, at, ctx, out, pumps, socket>>

\* serve returns on a read error; stopSession cancels the streams.
serveStops ==
  /\ loop["ag"] = Reading /\ ~open
  /\ loop' = [loop EXCEPT !["ag"] = Stopped]
  /\ ctx' = [ctx EXCEPT !["ag"] = FALSE]
  /\ UNCHANGED <<link, done, chan, reg, held, at, out, pumps, socket>>

\* A ping is answered only while both sides read, and fails on a closed
\* connection; close() closes s.done and the connection.
keepaliveFails ==
  /\ ~done
  /\ (\E e \in Ends : loop[e].at = "deliver") \/ ~open
  /\ done' = TRUE /\ open' = FALSE
  /\ UNCHANGED <<wire, loop, chan, reg, held, at, ctx, out, pumps, socket>>

ConnLost ==
  /\ open /\ open' = FALSE
  /\ UNCHANGED <<wire, session, at, ctx, out, pumps, socket>>

-------------------------------------------------------------------------------
GatewayStep ==
  \/ writeOpen \/ awaitAccept \/ acceptPublic \/ SendCancel
  \/ relayFirst("gw") \/ relayPublicWebSocket \/ handlePublicWebSocketReturns

AgentStep ==
  \/ dialLocal \/ writeAccept \/ sendWSError
  \/ relayFirst("ag") \/ relayWSStream \/ handleWSStreamReturns

\* The pumps and the loop of the agent, with the agent's names.
pumpLocalToGateway == pumpInReads("ag") \/ pumpInSends("ag")
closeOrCancelForLocalReadError == closeOrCancelForReadError("ag")
pumpGatewayToLocal == pumpOutReads("ag") \/ pumpOutWrites("ag") \/ pumpOutClosed("ag")
serveReads == readLoopReads("ag") \/ serveWSOpen
deliverActiveStreamMessage == deliver("ag")

PumpIn(e) ==
  IF e = "ag" THEN pumpLocalToGateway \/ closeOrCancelForLocalReadError
  ELSE pumpInReads(e) \/ pumpInSends(e) \/ closeOrCancelForReadError(e)

PumpOut(e) ==
  IF e = "ag" THEN pumpGatewayToLocal
  ELSE pumpOutReads(e) \/ pumpOutWrites(e) \/ pumpOutClosed(e)

ReadLoop(e) ==
  IF e = "ag" THEN serveReads \/ deliverActiveStreamMessage \/ serveStops
  ELSE readLoopReads(e) \/ deliver(e) \/ readLoopStops

Next ==
  \/ acquireStream \/ GatewayStep \/ CtxDone \/ AgentStep
  \/ \E e \in Ends : \/ PumpIn(e) \/ PumpOut(e) \/ ReadLoop(e)
  \/ keepaliveFails \/ ConnLost

Spec == Init /\ [][Next]_vars

WaitsForPeer(e) == up[e] = "read" /\ Live(e) /\ conn[e] # "closed"
SelectsDone(e) == ~Live(e) /\ pumpOutReads(e) /\ down'[e] = "done"

\* The goroutines of the stream and the agent's loop run, the deadline's timers fire,
\* and a select that meets a done context again and again takes it; nothing is
\* asked of the peers, of the network, or of the gateway's own loop and keepalive.
FairSpec ==
  /\ Spec
  /\ WF_vars(GatewayStep) /\ WF_vars(AgentStep)
  /\ \A e \in Ends : /\ WF_vars(~WaitsForPeer(e) /\ PumpIn(e))
                     /\ WF_vars(PumpOut(e)) /\ SF_vars(SelectsDone(e))
  /\ WF_vars(ReadLoop("ag")) /\ WF_vars(CtxDone)

-------------------------------------------------------------------------------
(* Properties *)

\* A handler that has returned, by whichever of its exits, leaves nothing behind:
\* no registration of the stream, no slot, no connection, no pump
\* (openWSStream's cleanup, the defers of handlePublicWebSocket and
\* handleWSStream, the drain of errCh).
NothingLeftBehind ==
  /\ (held <=> "gw" \in reg) /\ (held => at["gw"] \notin {"idle", "over"})
  /\ \A e \in Ends : at[e] = "over" =>
       /\ e \notin reg /\ conn[e] \in {"none", "closed"}
       /\ up[e] \in {"off", "done"} /\ down[e] \in {"off", "done"}

\* The relay is reported as completed only when one of the two peers closed its
\* websocket: relayOutcome's lenience covers a close and nothing else.
CompletedMeansClosed ==
  out = "completed" => closed

\* A close is passed on only after every message sent before it: when the relay
\* closes a peer's websocket because the other peer closed, that peer has been
\* given all the other's messages, unless the session has ended.
CleanCloseIsComplete ==
  [][\A e \in Ends :
       (down[e] = "read" /\ down'[e] = "closing" /\ ~done)
         => owed[Other(e)] = 0]_vars

\* Every public websocket ends, whatever the agent, the client and the network
\* do: the deadline is what ends it when nobody else does.  (A handler is not idle
\* again, so that to be over sometime after the start is to be one or the other
\* for good.)
PublicWebSocketEnds == <>[](at["gw"] \in {"idle", "over"})

\* The agent's half of the relay ends once the gateway's ws.close or ws.cancel is
\* on its way to it, or the tunnel's connection is gone.
AgentRelayEnds ==
  (~open \/ \E f \in {"close", "cancel"} :
              f \in Range(wire["ag"] \o chan["ag"]) \/ loop["ag"] = Delivering(f))
    ~> (at["ag"] \in {"idle", "over"})

\* Both halves of a relay end.
RelayEnds == PublicWebSocketEnds /\ AgentRelayEnds

===============================================================================
