------------------------- MODULE WebSocketRelayProofs -------------------------
(***************************************************************************)
(* The relay of a websocket, for any number of messages and any capacity   *)
(* of the channels and of the link: what a handler leaves behind, what     *)
(* "completed" means, and that a close never overtakes a message.          *)
(*                                                                         *)
(* None of the three is inductive.  RelayInv adds the order of the         *)
(* handshake between the two handlers (an end that has not answered has    *)
(* sent nothing), the number of pumps that have returned, and how many     *)
(* messages are on their way behind and ahead of a close frame.            *)
(***************************************************************************)
EXTENDS WebSocketRelay, Integers, TLAPS

Frames == {"open", "accept", "error", "msg", "close", "cancel"}
Results == {"nil", "done", "err", "any"}

GatewayBefore == {"idle", "open", "await", "accept"}
AgentBefore == {"idle", "dial", "error", "accept"}
After == {"relay", "drain", "tell", "return", "refused", "finish", "over"}

TypeOK ==
  /\ wire \in [Ends -> Seq(Frames)] /\ chan \in [Ends -> Seq(Frames)]
  /\ loop \in [Ends -> {Reading, Stopped} \cup {Delivering(f) : f \in Frames}]
  /\ reg \subseteq Ends /\ held \in BOOLEAN /\ closed \in BOOLEAN
  /\ at \in [Ends -> GatewayBefore \cup AgentBefore \cup After]
  /\ at["gw"] \in GatewayBefore \cup After /\ at["ag"] \in AgentBefore \cup After
  /\ up \in [Ends -> {"off", "read", "send", "close", "cancel", "done"}]
  /\ down \in [Ends -> {"off", "read", "write", "closing", "done"}]
  /\ errs \in [Ends -> Seq(Results)]
  /\ conn \in [Ends -> {"none", "open", "closing", "closed"}]
  /\ owed \in [Ends -> Int]

\* The stream's slot and registrations follow the two handlers.
Slots ==
  /\ held <=> "gw" \in reg
  /\ at["gw"] \in {"idle", "refused", "over"} => ~held
  /\ at["gw"] \in {"open", "await", "accept", "relay", "drain", "tell"} => held
  /\ "ag" \in reg <=> at["ag"] \notin {"idle", "over"}
  /\ \A e \in Ends : at[e] = "over" => conn[e] = "closed"

\* errCh holds what the pumps that are done have returned, and a handler leaves its
\* relay only after both.
Returned(pump) == IF pump = "done" THEN 1 ELSE 0
Pumps ==
  \A e \in Ends :
    /\ at[e] \in {"relay", "drain"} =>
         up[e] # "off" /\ down[e] # "off" /\ Len(errs[e]) = Returned(up[e]) + Returned(down[e])
    /\ at[e] \notin {"relay", "drain"} =>
         up[e] \in {"off", "done"} /\ down[e] \in {"off", "done"}
    /\ at[e] \notin After => up[e] = "off" /\ down[e] = "off" /\ errs[e] = <<>>

\* A ws.close is on its way: in the channel c, in the hands of the loop l or on
\* the wire w.
CloseIn(c, l, w) ==
  \/ \E i \in 1 .. Len(c) : c[i] = "close"
  \/ l = Delivering("close")
  \/ \E i \in 1 .. Len(w) : w[i] = "close"

\* Until a peer has closed, no close is under way and no pump has returned nil.
NoClose ==
  /\ \A e \in Ends : /\ ~CloseIn(chan[e], loop[e], wire[e])
                     /\ up[e] # "close" /\ down[e] # "closing" /\ conn[e] # "closing"
  /\ \A i \in 1 .. Len(errs["gw"]) : errs["gw"][i] # "nil"
  /\ out # "completed"

\* An end that has not yet answered the other has sent it nothing.
Quiet(e) ==
  chan[e] = <<>> /\ loop[e].at # "deliver" /\ down[e] # "write" /\ owed[Other(e)] = 0
Handshake ==
  /\ at["gw"] \in {"idle", "open"} => at["ag"] = "idle" /\ wire["ag"] = <<>>
  /\ at["gw"] \in {"await", "accept"} =>
       wire["ag"] = <<>> \/ (wire["ag"] = <<"open">> /\ at["ag"] = "idle")
  /\ \A i \in 1 .. Len(wire["ag"]) :
       wire["ag"][i] = "open" => at["ag"] = "idle" /\ Len(wire["ag"]) = 1
  /\ at["gw"] \in GatewayBefore => Quiet("ag")
  /\ at["ag"] \in AgentBefore =>
       Quiet("gw") /\ wire["gw"] = <<>> /\ at["gw"] \in {"idle", "open", "await", "refused", "over"}

\* Who has sent a close sends nothing that could come after it.
LastSent(e) ==
  CloseIn(chan[e], loop[e], wire[e]) =>
    /\ up[Other(e)] \in {"off", "done"} /\ at[Other(e)] \in After
    /\ e = "ag" => at[e] \in After

\* The end e still takes what is on its way to it.
Receives(e) ==
  /\ at[e] \in {"await", "accept", "relay", "drain"} /\ down[e] \in {"off", "read", "write"}
  /\ e = "gw" => ~done

\* Of the messages owed to the peer of e, those that its pump does not hold, with
\* the ws.accept if that is still to come.
Coming(e) ==
  owed[Other(e)] + (IF at[e] = "await" THEN 1 ELSE 0) - (IF down[e] = "write" THEN 1 ELSE 0)

\* While the sending pump u goes on, the n frames that are to come are all there; a
\* close has all of them, and only them, ahead of it.
InLoop(l) == IF l.at = "deliver" THEN 1 ELSE 0
InPump(u) == IF u = "send" THEN 1 ELSE 0
InOrder(c, l, w, u, n) ==
  /\ u \in {"read", "send", "close"} => n = Len(c) + InLoop(l) + Len(w) + InPump(u)
  /\ \A i \in 1 .. Len(c) : c[i] = "close" => n = i - 1
  /\ l = Delivering("close") => n = Len(c)
  /\ \A i \in 1 .. Len(w) : w[i] = "close" => n = Len(c) + InLoop(l) + i - 1

Complete(e) ==
  Receives(e) => InOrder(chan[e], loop[e], wire[e], up[Other(e)], Coming(e))

RelayInv ==
  /\ TypeOK /\ Slots /\ Pumps /\ (closed \/ NoClose) /\ Handshake
  /\ \A e \in Ends : LastSent(e) /\ Complete(e)

-------------------------------------------------------------------------------
(* The frames on their way to an end *)

Loops == {Reading, Stopped} \cup {Delivering(f) : f \in Frames}

\* A loop either holds a frame or does not.
LEMMA LoopParts ==
  /\ Reading \in Loops /\ Stopped \in Loops
  /\ Reading.at = "read" /\ Stopped.at = "stopped"
  /\ \A f \in Frames : Delivering(f) \in Loops /\ Delivering(f).at = "deliver" /\ Delivering(f).f = f
  /\ \A l \in Loops : l.at = "deliver" => l.f \in Frames /\ l = Delivering(l.f)
BY DEF Loops, Reading, Stopped, Delivering, Frames

\* What Append does to a sequence of frames.
LEMMA Appended ==
  ASSUME NEW q \in Seq(Frames), NEW f \in Frames
  PROVE  /\ Append(q, f) \in Seq(Frames) /\ Len(Append(q, f)) = Len(q) + 1
         /\ \A i \in 1 .. Len(q) : Append(q, f)[i] = q[i]
         /\ Append(q, f)[Len(q) + 1] = f
OBVIOUS

\* What taking the head leaves of a sequence of frames.
LEMMA Taken ==
  ASSUME NEW q \in Seq(Frames), q # <<>>
  PROVE  /\ Head(q) \in Frames /\ Head(q) = q[1] /\ Tail(q) \in Seq(Frames)
         /\ Len(Tail(q)) = Len(q) - 1 /\ Len(q) \in Nat /\ Len(q) >= 1
         /\ \A i \in 1 .. Len(q) - 1 : Tail(q)[i] = q[i + 1]
OBVIOUS

\* A pump that sends holds the message it has read.
LEMMA InPumpIs == InPump("send") = 1 /\ InPump("read") = 0 /\ InPump("close") = 0
BY DEF InPump

\* A frame that is sent is the last of the wire.
LEMMA SentClose ==
  ASSUME NEW c, NEW l, NEW w \in Seq(Frames), NEW f \in Frames
  PROVE  CloseIn(c, l, Append(w, f)) => CloseIn(c, l, w) \/ f = "close"
<1> DEFINE x == Append(w, f)
<1>1. /\ Len(x) = Len(w) + 1 /\ Len(w) \in Nat
      /\ \A i \in 1 .. Len(w) : x[i] = w[i]
      /\ x[Len(w) + 1] = f
  BY Appended
<1> HIDE DEF x
<1>2. CloseIn(c, l, x) => CloseIn(c, l, w) \/ f = "close"
  BY <1>1 DEF CloseIn
<1> QED
  BY <1>2 DEF x

LEMMA SentFrame ==
  ASSUME NEW c \in Seq(Frames), NEW l \in Loops, NEW w \in Seq(Frames), NEW n \in Int, NEW u,
         NEW f \in Frames
  PROVE  /\ u = "send" /\ f = "msg" /\ InOrder(c, l, w, u, n)
              => InOrder(c, l, Append(w, f), "read", n)
         /\ u = "close" /\ f = "close" /\ InOrder(c, l, w, u, n)
              => InOrder(c, l, Append(w, f), "done", n)
         /\ f # "close" /\ InOrder(c, l, w, u, n)
              => \A v : v \notin {"read", "send", "close"} => InOrder(c, l, Append(w, f), v, n)
<1> DEFINE x == Append(w, f)
<1>1. /\ Len(x) = Len(w) + 1
      /\ \A i \in 1 .. Len(w) : x[i] = w[i]
      /\ x[Len(w) + 1] = f /\ Len(w) \in Nat /\ Len(c) \in Nat /\ InLoop(l) \in Int /\ InPump(u) \in Int
  BY Appended DEF InLoop, InPump
<1> HIDE DEF x
<1>3. ASSUME u = "send", f = "msg", InOrder(c, l, w, u, n) PROVE InOrder(c, l, x, "read", n)
  <2> USE <1>1, <1>3
  <2>1. "read" \in {"read", "send", "close"} => n = Len(c) + InLoop(l) + Len(x) + InPump("read")
    BY InPumpIs DEF InOrder
  <2>2. \A i \in 1 .. Len(c) : c[i] = "close" => n = i - 1
    BY SMTT(30) DEF InOrder
  <2>3. l = Delivering("close") => n = Len(c)
    BY DEF InOrder
  <2>4. ASSUME NEW i \in 1 .. Len(x), x[i] = "close" PROVE n = Len(c) + InLoop(l) + i - 1
    <3>1. i \in 1 .. Len(w)
      BY <2>4
    <3> QED
      BY <2>4, <3>1, SMTT(30) DEF InOrder
  <2> QED
    BY <2>1, <2>2, <2>3, <2>4 DEF InOrder
<1>4. ASSUME u = "close", f = "close", InOrder(c, l, w, u, n) PROVE InOrder(c, l, x, "done", n)
  <2> USE <1>1, <1>4
  <2>1. "done" \in {"read", "send", "close"} => n = Len(c) + InLoop(l) + Len(x) + InPump("done")
    BY InPumpIs DEF InOrder
  <2>2. \A i \in 1 .. Len(c) : c[i] = "close" => n = i - 1
    BY DEF InOrder
  <2>3. l = Delivering("close") => n = Len(c)
    BY DEF InOrder
  <2>4. \A i \in 1 .. Len(x) : x[i] = "close" => n = Len(c) + InLoop(l) + i - 1
    BY InPumpIs DEF InOrder
  <2> QED
    BY <2>1, <2>2, <2>3, <2>4 DEF InOrder
<1>5. ASSUME f # "close", InOrder(c, l, w, u, n), NEW v, v \notin {"read", "send", "close"}
      PROVE  InOrder(c, l, x, v, n)
  BY <1>1, <1>5 DEF InOrder, InPump
<1> QED
  BY <1>3, <1>4, <1>5 DEF x

\* A frame that the handler or its pump takes is the first of the channel.
LEMMA TookClose ==
  ASSUME NEW c \in Seq(Frames), c # <<>>, NEW l, NEW w
  PROVE  /\ CloseIn(Tail(c), l, w) => CloseIn(c, l, w)
         /\ Head(c) = "close" => CloseIn(c, l, w)
<1> DEFINE x == Tail(c)
<1>1. /\ Len(x) = Len(c) - 1 /\ Len(c) \in Nat /\ Len(c) >= 1 /\ Head(c) = c[1]
      /\ \A i \in 1 .. Len(c) - 1 : x[i] = c[i + 1]
  BY Taken
<1> HIDE DEF x
<1>2. CloseIn(x, l, w) => CloseIn(c, l, w)
  BY <1>1 DEF CloseIn
<1>3. Head(c) = "close" => CloseIn(c, l, w)
  BY <1>1 DEF CloseIn
<1> QED
  BY <1>2, <1>3 DEF x

LEMMA TookFrame ==
  ASSUME NEW c \in Seq(Frames), c # <<>>, NEW l \in Loops, NEW w \in Seq(Frames),
         NEW n \in Int, NEW u
  PROVE  /\ InOrder(c, l, w, u, n) => InOrder(Tail(c), l, w, u, n - 1)
         /\ Head(c) = "close" /\ InOrder(c, l, w, u, n) => n = 0
<1> DEFINE x == Tail(c)
<1>1. /\ Len(x) = Len(c) - 1
      /\ \A i \in 1 .. Len(c) - 1 : x[i] = c[i + 1]
      /\ Head(c) = c[1] /\ Len(w) \in Nat /\ Len(c) \in Nat /\ Len(c) >= 1
      /\ InLoop(l) \in Int /\ InPump(u) \in Int
  BY Taken DEF InLoop, InPump
<1> HIDE DEF x
<1>3. ASSUME InOrder(c, l, w, u, n) PROVE InOrder(x, l, w, u, n - 1)
  <2> USE <1>1, <1>3
  <2>1. u \in {"read", "send", "close"} => (n - 1) = Len(x) + InLoop(l) + Len(w) + InPump(u)
    BY InPumpIs, SMTT(30) DEF InOrder
  <2>2. \A i \in 1 .. Len(x) : x[i] = "close" => (n - 1) = i - 1
    BY DEF InOrder
  <2>3. l = Delivering("close") => (n - 1) = Len(x)
    BY DEF InOrder
  <2>4. ASSUME NEW i \in 1 .. Len(w), w[i] = "close"
        PROVE  n - 1 = Len(x) + InLoop(l) + i - 1
    <3>1. n = Len(c) + InLoop(l) + i - 1
      BY <2>4 DEF InOrder
    <3> HIDE <1>3
    <3> QED
      BY <3>1, SMTT(30)
  <2> QED
    BY <2>1, <2>2, <2>3, <2>4 DEF InOrder
<1>5. Head(c) = "close" /\ InOrder(c, l, w, u, n) => n = 0
  BY <1>1 DEF InOrder
<1> QED
  BY <1>3, <1>5 DEF x

\* The loop takes a frame off the wire: into the channel, into its hands, or away.
LEMMA ReadFrame ==
  ASSUME NEW c \in Seq(Frames), NEW l \in Loops, l.at # "deliver", NEW w \in Seq(Frames),
         w # <<>>, NEW n \in Int, NEW u
  PROVE  /\ CloseIn(c, l, Tail(w)) => CloseIn(c, l, w)
         /\ CloseIn(Append(c, Head(w)), l, Tail(w)) => CloseIn(c, l, w)
         /\ CloseIn(c, Delivering(Head(w)), Tail(w)) => CloseIn(c, l, w)
         /\ InOrder(c, l, w, u, n) => InOrder(Append(c, Head(w)), l, Tail(w), u, n)
         /\ InOrder(c, l, w, u, n) => InOrder(c, Delivering(Head(w)), Tail(w), u, n)
<1> DEFINE x == Tail(w)
           f == Head(w)
           d == Append(c, f)
           m == Delivering(f)
<1>1. /\ Len(x) = Len(w) - 1
      /\ \A i \in 1 .. Len(w) - 1 : x[i] = w[i + 1]
      /\ f = w[1] /\ f \in Frames /\ Len(w) \in Nat /\ Len(c) \in Nat /\ Len(w) >= 1
      /\ InPump(u) \in Int
  BY Taken DEF InPump
<1>2. /\ Len(d) = Len(c) + 1
      /\ \A i \in 1 .. Len(c) : d[i] = c[i]
      /\ d[Len(c) + 1] = f
  BY <1>1, Appended
<1>3. /\ l # Delivering("close") /\ InLoop(l) = 0 /\ InLoop(m) = 1
      /\ m = Delivering("close") => f = "close"
  <2>1. m.at = "deliver" /\ m.f = f
    BY <1>1, LoopParts
  <2>2. Delivering("close").at = "deliver" /\ Delivering("close").f = "close"
    BY LoopParts DEF Frames
  <2> HIDE DEF m
  <2> QED
    BY <2>1, <2>2 DEF InLoop
<1> HIDE DEF x, f, d, m
<1>4. CloseIn(c, l, x) => CloseIn(c, l, w)
  BY <1>1, <1>3 DEF CloseIn
<1>5. ASSUME CloseIn(d, l, x) PROVE CloseIn(c, l, w)
  <2>1. ASSUME NEW i \in 1 .. Len(d), d[i] = "close" PROVE CloseIn(c, l, w)
    <3>1. CASE i = Len(c) + 1
      BY <1>1, <1>2, <2>1, <3>1 DEF CloseIn
    <3>2. CASE i # Len(c) + 1
      <4>1. i \in 1 .. Len(c)
        BY <1>1, <1>2, <2>1, <3>2
      <4> QED
        BY <1>2, <2>1, <4>1, Zenon DEF CloseIn
    <3> QED
      BY <3>1, <3>2
  <2>2. ASSUME NEW i \in 1 .. Len(x), x[i] = "close" PROVE CloseIn(c, l, w)
    BY <1>1, <2>2 DEF CloseIn
  <2> QED
    BY <1>3, <1>5, <2>1, <2>2 DEF CloseIn
<1>6. CloseIn(c, m, x) => CloseIn(c, l, w)
  BY <1>1, <1>3 DEF CloseIn
<1>7. ASSUME InOrder(c, l, w, u, n) PROVE InOrder(d, l, x, u, n)
  <2> USE <1>1, <1>2, <1>3, <1>7
  <2>1. u \in {"read", "send", "close"} => n = Len(d) + InLoop(l) + Len(x) + InPump(u)
    BY InPumpIs DEF InOrder
  <2>2. \A i \in 1 .. Len(d) : d[i] = "close" => n = i - 1
    BY DEF InOrder
  <2>3. l = Delivering("close") => n = Len(d)
    BY DEF InOrder
  <2>4. \A i \in 1 .. Len(x) : x[i] = "close" => n = Len(d) + InLoop(l) + i - 1
    BY InPumpIs DEF InOrder
  <2> QED
    BY <2>1, <2>2, <2>3, <2>4 DEF InOrder
<1>8. ASSUME InOrder(c, l, w, u, n) PROVE InOrder(c, m, x, u, n)
  BY <1>1, <1>3, <1>8 DEF InOrder, InPump
<1> QED
  BY <1>4, <1>5, <1>6, <1>7, <1>8 DEF x, f, d, m

\* The loop hands over the frame it holds, or gives it up.
LEMMA HandedOver ==
  ASSUME NEW c \in Seq(Frames), NEW f \in Frames, NEW w \in Seq(Frames), NEW n \in Int, NEW u
  PROVE  /\ CloseIn(c, Reading, w) => CloseIn(c, Delivering(f), w)
         /\ CloseIn(Append(c, f), Reading, w) => CloseIn(c, Delivering(f), w)
         /\ InOrder(c, Delivering(f), w, u, n) => InOrder(Append(c, f), Reading, w, u, n)
<1> DEFINE d == Append(c, f)
           m == Delivering(f)
<1>1. /\ Len(d) = Len(c) + 1
      /\ \A i \in 1 .. Len(c) : d[i] = c[i]
      /\ d[Len(c) + 1] = f /\ Len(c) \in Nat /\ Len(w) \in Nat
  BY Appended
<1>2. /\ Reading # Delivering("close") /\ InLoop(Reading) = 0 /\ InLoop(m) = 1
      /\ f = "close" => m = Delivering("close")
  <2>1. m.at = "deliver" /\ m.f = f
    BY LoopParts
  <2>2. Reading.at = "read" /\ Delivering("close").at = "deliver"
    BY LoopParts DEF Frames
  <2>3. f = "close" => m = Delivering("close")
    OBVIOUS
  <2> HIDE DEF m
  <2> QED
    BY <2>1, <2>2, <2>3 DEF InLoop
<1> HIDE DEF d, m
<1>3. CloseIn(c, Reading, w) => CloseIn(c, m, w)
  BY <1>2 DEF CloseIn
<1>4. CloseIn(d, Reading, w) => CloseIn(c, m, w)
  BY <1>1, <1>2 DEF CloseIn
<1>5. ASSUME InOrder(c, m, w, u, n) PROVE InOrder(d, Reading, w, u, n)
  BY <1>1, <1>2, <1>5 DEF InOrder, InPump
<1> QED
  BY <1>3, <1>4, <1>5 DEF d, m

\* The sending pump goes on to read, holds one more message, or has stopped.
LEMMA PumpMoved ==
  ASSUME NEW c \in Seq(Frames), NEW l \in Loops, NEW w \in Seq(Frames), NEW n \in Int, NEW u,
         InOrder(c, l, w, u, n)
  PROVE  /\ u = "read" /\ ~CloseIn(c, l, w) => InOrder(c, l, w, "send", n + 1)
         /\ u = "read" => InOrder(c, l, w, "close", n)
         /\ \A v : v \notin {"read", "send", "close"} => InOrder(c, l, w, v, n)
<1>1. Len(c) \in Nat /\ Len(w) \in Nat /\ InLoop(l) \in Int
  BY DEF InLoop
<1>2. ASSUME u = "read", ~CloseIn(c, l, w) PROVE InOrder(c, l, w, "send", n + 1)
  BY <1>1, <1>2 DEF InOrder, InPump, CloseIn
<1>3. u = "read" => InOrder(c, l, w, "close", n)
  BY DEF InOrder, InPump
<1>4. \A v : v \notin {"read", "send", "close"} => InOrder(c, l, w, v, n)
  BY DEF InOrder, InPump
<1> QED
  BY <1>2, <1>3, <1>4

\* Nothing on the way and nothing owed is in order, and so is the ws.accept alone.
LEMMA NothingComes ==
  ASSUME NEW l \in Loops, l.at # "deliver", NEW u, u \notin {"send"}
  PROVE  /\ ~CloseIn(<<>>, l, <<>>)
         /\ InOrder(<<>>, l, <<>>, u, 0)
         /\ \A f \in Frames : f # "close" => InOrder(<<>>, l, Append(<<>>, f), u, 1)
<1>1. l # Delivering("close") /\ InLoop(l) = 0
  BY LoopParts DEF InLoop, Frames
<1>2. ~CloseIn(<<>>, l, <<>>)
  BY <1>1 DEF CloseIn
<1>3. InOrder(<<>>, l, <<>>, u, 0)
  BY <1>1 DEF InOrder, InPump
<1>4. ASSUME NEW f \in Frames, f # "close" PROVE InOrder(<<>>, l, Append(<<>>, f), u, 1)
  <2>1. Append(<<>>, f) = <<f>>
    OBVIOUS
  <2> QED
    BY <1>1, <1>4, <2>1 DEF InOrder, InPump
<1> QED
  BY <1>2, <1>3, <1>4

-------------------------------------------------------------------------------
(* Steps that leave a part of the state alone *)

\* There are two ends.
LEMMA TwoEnds ==
  /\ Other("gw") = "ag" /\ Other("ag") = "gw" /\ "gw" \in Ends /\ "ag" \in Ends
  /\ \A e \in Ends : /\ Other(e) \in Ends /\ Other(e) # e /\ Other(Other(e)) = e
                     /\ \A x \in Ends : x = e \/ x = Other(e)
BY DEF Ends, Other

\* A write to the tunnel that succeeds.
LEMMA SendsParts ==
  ASSUME TypeOK, NEW e \in Ends, NEW f \in Frames, Sends(e, f)
  PROVE  /\ wire' \in [Ends -> Seq(Frames)]
         /\ wire'[Other(e)] = Append(wire[Other(e)], f) /\ wire'[e] = wire[e]
<1>1. Other(e) \in Ends /\ Other(Other(e)) = e
  BY TwoEnds
<1>2. wire \in [Ends -> Seq(Frames)] /\ wire[Other(e)] \in Seq(Frames)
  BY <1>1 DEF TypeOK
<1>3. Append(wire[Other(e)], f) \in Seq(Frames)
  BY <1>2, Appended
<1>4. wire' = [wire EXCEPT ![Other(e)] = Append(wire[Other(e)], f)]
  BY DEF Sends
<1> QED
  BY <1>1, <1>2, <1>3, <1>4, TwoEnds

\* Every step is one of these.
LEMMA NextCases ==
  ASSUME Next
  PROVE  \/ acquireStream \/ writeOpen \/ awaitAccept \/ acceptPublic \/ SendCancel
         \/ handlePublicWebSocketReturns \/ CtxDone \/ relayPublicWebSocket
         \/ dialLocal \/ writeAccept \/ sendWSError \/ relayWSStream \/ handleWSStreamReturns
         \/ serveWSOpen \/ readLoopStops \/ serveStops \/ keepaliveFails \/ ConnLost
         \/ \E e \in Ends :
              \/ pumpInReads(e) \/ pumpInSends(e) \/ closeOrCancelForReadError(e)
              \/ pumpOutReads(e) \/ pumpOutWrites(e) \/ pumpOutClosed(e)
              \/ relayFirst(e) \/ readLoopReads(e) \/ deliver(e)
<1>1. \A e \in Ends :
        /\ PumpIn(e) => pumpInReads(e) \/ pumpInSends(e) \/ closeOrCancelForReadError(e)
        /\ PumpOut(e) => pumpOutReads(e) \/ pumpOutWrites(e) \/ pumpOutClosed(e)
        /\ ReadLoop(e) =>
             \/ readLoopReads(e) \/ deliver(e) \/ serveWSOpen \/ serveStops \/ readLoopStops
  BY Zenon DEF PumpIn, PumpOut, ReadLoop, pumpLocalToGateway, closeOrCancelForLocalReadError,
     pumpGatewayToLocal, serveReads, deliverActiveStreamMessage
<1>2. GatewayStep \/ AgentStep =>
        \/ writeOpen \/ awaitAccept \/ acceptPublic \/ SendCancel
        \/ relayPublicWebSocket \/ handlePublicWebSocketReturns
        \/ dialLocal \/ writeAccept \/ sendWSError \/ relayWSStream \/ handleWSStreamReturns
        \/ \E e \in Ends : relayFirst(e)
  BY TwoEnds, Zenon DEF GatewayStep, AgentStep
<1> QED
  BY <1>1, <1>2, Zenon DEF Next

\* The slot, the registrations and the connections are not touched.
LEMMA SlotsSame ==
  ASSUME Slots, UNCHANGED <<held, reg, at, conn>>
  PROVE  Slots'
BY DEF Slots

\* Nor the pumps.
LEMMA PumpsSame ==
  ASSUME Pumps, UNCHANGED <<at, up, down, errs>>
  PROVE  Pumps'
BY DEF Pumps

\* Whoever closed has closed.
LEMMA CloseSame ==
  ASSUME closed \/ NoClose, closed => closed',
         UNCHANGED <<wire, chan, loop, up, down, conn, errs, out>>
  PROVE  closed' \/ NoClose'
BY DEF NoClose

\* Neither handler moves and nothing is sent.
LEMMA HandshakeSame ==
  ASSUME Handshake, UNCHANGED <<at, wire, chan, loop, owed, down>>
  PROVE  Handshake'
BY DEF Handshake, Quiet

\* What goes to x stays where it is, and x does not begin to take more than before.
LEMMA FlowSame ==
  ASSUME TypeOK, NEW x \in Ends, NEW y \in Ends, y = Other(x), LastSent(x), Complete(x),
         chan'[x] = chan[x], loop'[x] = loop[x], wire'[x] = wire[x],
         up'[y] = up[y] \/ up'[y] \in {"cancel", "off", "done"},
         up[y] \in {"off", "done"} => up'[y] \in {"off", "done"},
         at[y] \in After => at'[y] \in After, at[x] \in After => at'[x] \in After,
         Receives(x)' => Receives(x) /\ Coming(x)' = Coming(x)
  PROVE  LastSent(x)' /\ Complete(x)'
<1>1. LastSent(x)'
  BY DEF LastSent
<1>2. ASSUME Receives(x)' PROVE InOrder(chan[x], loop[x], wire[x], up'[y], Coming(x))
  <2>1. InOrder(chan[x], loop[x], wire[x], up[y], Coming(x))
    BY <1>2 DEF Complete
  <2>2. /\ chan[x] \in Seq(Frames) /\ wire[x] \in Seq(Frames) /\ loop[x] \in Loops
        /\ owed[y] \in Int
    BY DEF TypeOK, Loops
  <2>3. Coming(x) \in Int
    BY <2>2 DEF Coming
  <2>4. up'[y] \in {"cancel", "off", "done"} => up'[y] \notin {"read", "send", "close"}
    OBVIOUS
  <2> QED
    BY <2>1, <2>2, <2>3, <2>4, PumpMoved
<1>3. Complete(x)'
  BY <1>2 DEF Complete
<1> QED
  BY <1>1, <1>3

\* y sends x a frame that is not a close, and is not, or no longer, its relay.
LEMMA FlowTold ==
  ASSUME TypeOK, NEW x \in Ends, NEW y \in Ends, y = Other(x), LastSent(x), Complete(x),
         NEW f \in Frames, f # "close",
         chan'[x] = chan[x], loop'[x] = loop[x], wire'[x] = Append(wire[x], f),
         up'[y] \in {"cancel", "off", "done"},
         up[y] \in {"off", "done"} => up'[y] \in {"off", "done"},
         at[y] \in After => at'[y] \in After, at[x] \in After => at'[x] \in After,
         Receives(x)' => Receives(x) /\ Coming(x)' = Coming(x)
  PROVE  LastSent(x)' /\ Complete(x)'
<1>1. /\ chan[x] \in Seq(Frames) /\ wire[x] \in Seq(Frames) /\ loop[x] \in Loops
      /\ owed[y] \in Int
  BY SMTT(30) DEF TypeOK, Loops
<1>2. Coming(x) \in Int
  BY <1>1 DEF Coming
<1>3. LastSent(x)'
  <2>1. CloseIn(chan[x], loop[x], Append(wire[x], f)) => CloseIn(chan[x], loop[x], wire[x])
    BY <1>1, SentClose
  <2> QED
    BY <2>1, Zenon DEF LastSent
<1>4. ASSUME Receives(x)'
      PROVE  InOrder(chan[x], loop[x], Append(wire[x], f), up'[y], Coming(x))
  <2>1. InOrder(chan[x], loop[x], wire[x], up[y], Coming(x))
    BY <1>4 DEF Complete
  <2>2. up'[y] \notin {"read", "send", "close"}
    OBVIOUS
  <2> QED
    BY <1>1, <1>2, <2>1, <2>2, SentFrame, Zenon
<1>5. Complete(x)'
  BY <1>4 DEF Complete
<1> QED
  BY <1>3, <1>5

-------------------------------------------------------------------------------
(* The steps, one conjunct of the invariant at a time *)

\* A write to the tunnel adds its frame at the other end or leaves the wire alone.
LEMMA WireMoves ==
  ASSUME TypeOK, NEW e \in Ends, NEW f \in Frames, NEW live,
         Sends(e, f) \/ SendFails(e, live)
  PROVE  /\ wire' \in [Ends -> Seq(Frames)] /\ wire'[e] = wire[e]
         /\ wire' = wire \/ wire'[Other(e)] = Append(wire[Other(e)], f)
<1>1. CASE Sends(e, f)
  BY <1>1, SendsParts
<1>2. CASE SendFails(e, live)
  BY <1>2 DEF SendFails, TypeOK
<1> QED
  BY <1>1, <1>2

\* The frame a loop or a pump takes is a frame, and a frame is left less.
LEMMA TakenFrom ==
  ASSUME NEW q \in [Ends -> Seq(Frames)], NEW e \in Ends, q[e] # <<>>, NEW p,
         p = [q EXCEPT ![e] = Tail(@)]
  PROVE  /\ p \in [Ends -> Seq(Frames)] /\ p[e] = Tail(q[e]) /\ p[Other(e)] = q[Other(e)]
         /\ Head(q[e]) \in Frames
<1>1. q[e] \in Seq(Frames)
  OBVIOUS
<1>2. Head(q[e]) \in Frames /\ Tail(q[e]) \in Seq(Frames)
  BY <1>1, Taken
<1>3. p = [q EXCEPT ![e] = Tail(q[e])]
  OBVIOUS
<1> QED
  BY <1>2, <1>3, TwoEnds

-------------------------------------------------------------------------------
(* The steps of the gateway's handler *)

Steps == GatewayBefore \cup AgentBefore \cup After

\* One handler goes on.
LEMMA Goes ==
  ASSUME TypeOK, NEW e \in Ends, NEW l \in Steps, Goto(e, l)
  PROVE  at' \in [Ends -> Steps] /\ at'[e] = l /\ at'[Other(e)] = at[Other(e)]
<1>1. at \in [Ends -> Steps] /\ at' = [at EXCEPT ![e] = l]
  BY DEF Goto, TypeOK, Steps
<1> QED
  BY <1>1, TwoEnds

\* A handler goes on, the frames stay where they are, and nobody begins to take more.
LEMMA FlowAt ==
  ASSUME RelayInv, NEW e \in Ends, at'[Other(e)] = at[Other(e)],
         UNCHANGED <<wire, chan, loop, up, owed>>, done => done',
         down'[Other(e)] = down[Other(e)],
         at[e] \in After => at'[e] \in After,
         Receives(e)' => Receives(e) /\ Coming(e)' = Coming(e)
  PROVE  \A x \in Ends : LastSent(x)' /\ Complete(x)'
<1> SUFFICES ASSUME NEW x \in Ends PROVE LastSent(x)' /\ Complete(x)'
  OBVIOUS
<1>1. TypeOK /\ LastSent(x) /\ Complete(x)
  BY DEF RelayInv
<1>2. Other(x) \in Ends /\ (x = e \/ x = Other(e)) /\ (Other(x) = e \/ Other(x) = Other(e))
  BY TwoEnds
<1>3. /\ at[x] \in After => at'[x] \in After
      /\ at[Other(x)] \in After => at'[Other(x)] \in After
  BY <1>2
<1>4. x = Other(e) /\ Receives(x)' => Receives(x) /\ Coming(x)' = Coming(x)
  BY DEF Receives, Coming
<1> QED
  BY <1>1, <1>2, <1>3, <1>4, FlowSame

\* The stream is refused, or gets its slot.
LEMMA acquireStreamStep ==
  ASSUME RelayInv, acquireStream
  PROVE  RelayInv'
<1>0. TypeOK /\ Slots /\ Pumps /\ (closed \/ NoClose) /\ Handshake
  BY DEF RelayInv
<1>1. UNCHANGED <<wire, chan, loop, conn, closed, owed, up, down, errs, done>>
  BY DEF acquireStream, link, pumps, socket
<1>2. /\ at["gw"] = "idle" /\ at'["ag"] = at["ag"] /\ at' \in [Ends -> Steps]
      /\ \/ at'["gw"] = "refused" /\ out' = "refused" /\ reg' = reg /\ held' = held
         \/ at'["gw"] = "open" /\ out' = out /\ reg' = reg \cup {"gw"} /\ held' = TRUE
  BY <1>0, Goes, TwoEnds DEF acquireStream, Steps, GatewayBefore, After
<1>3. TypeOK'
  BY <1>0, <1>1, <1>2, Zenon DEF TypeOK, Steps, GatewayBefore, After, Ends
<1>4. Slots'
  BY <1>0, <1>1, <1>2 DEF Slots, Ends
<1>5. Pumps'
  BY <1>0, <1>1, <1>2 DEF Pumps, After, Ends
<1>6. closed' \/ NoClose'
  BY <1>0, <1>1, <1>2 DEF NoClose
<1>7. Handshake'
  BY <1>0, <1>1, <1>2 DEF Handshake, Quiet, GatewayBefore, AgentBefore
<1>8. \A x \in Ends : LastSent(x)' /\ Complete(x)'
  <2>1. at["gw"] \notin After /\ ~Receives("gw")'
    BY <1>2 DEF After, Receives
  <2> QED
    BY <1>1, <1>2, <2>1, TwoEnds, FlowAt
<1> QED
  BY <1>3, <1>4, <1>5, <1>6, <1>7, <1>8 DEF RelayInv

\* The open frame is on its way.
LEMMA writeOpenSends ==
  ASSUME RelayInv, writeOpen, Sends("gw", "open"), Goto("gw", "await"),
         UNCHANGED <<out, reg, held>>
  PROVE  RelayInv'
<1>0. TypeOK /\ Slots /\ Pumps /\ (closed \/ NoClose) /\ Handshake
  BY DEF RelayInv
<1>1. UNCHANGED <<chan, loop, conn, closed, owed, up, down, errs, done>>
  BY DEF writeOpen, pumps, socket
<1>2. /\ at["gw"] = "open" /\ at'["gw"] = "await" /\ at'["ag"] = at["ag"]
      /\ at' \in [Ends -> Steps]
  BY <1>0, Goes, TwoEnds DEF writeOpen, Steps, GatewayBefore
<1>3. /\ wire' \in [Ends -> Seq(Frames)] /\ wire'["gw"] = wire["gw"]
      /\ wire'["ag"] = Append(wire["ag"], "open")
  BY <1>0, SendsParts, TwoEnds DEF Frames
<1>4. at["ag"] = "idle" /\ wire["ag"] = <<>> /\ wire'["ag"] = <<"open">>
  <2>1. at["ag"] = "idle" /\ wire["ag"] = <<>>
    BY <1>0, <1>2 DEF Handshake
  <2>2. Append(<<>>, "open") = <<"open">>
    OBVIOUS
  <2> QED
    BY <1>3, <2>1, <2>2
<1>5. /\ Quiet("gw") /\ wire["gw"] = <<>> /\ Quiet("ag") /\ up["ag"] = "off" /\ up["gw"] = "off"
      /\ down["gw"] = "off" /\ loop["gw"] \in Loops /\ loop["ag"] \in Loops
  BY <1>0, <1>2, <1>4, TwoEnds, Zenon
     DEF Handshake, Pumps, GatewayBefore, AgentBefore, After, TypeOK, Loops
<1>6. TypeOK'
  BY <1>0, <1>1, <1>2, <1>3, Zenon DEF TypeOK, Steps, GatewayBefore, After
<1>7. Slots'
  BY <1>0, <1>1, <1>2 DEF Slots, Ends
<1>8. Pumps'
  BY <1>0, <1>1, <1>2 DEF Pumps, After, Ends
<1>9. ~CloseIn(chan["gw"], loop["gw"], wire'["gw"]) /\ ~CloseIn(chan["ag"], loop["ag"], wire'["ag"])
  <2>1. ~CloseIn(<<>>, loop["gw"], <<>>) /\ ~CloseIn(<<>>, loop["ag"], <<>>)
    BY <1>5, NothingComes, Zenon DEF Quiet
  <2>2. CloseIn(<<>>, loop["ag"], Append(<<>>, "open")) => CloseIn(<<>>, loop["ag"], <<>>)
    <3>1. <<>> \in Seq(Frames) /\ "open" \in Frames
      BY DEF Frames
    <3> QED
      BY <3>1, SentClose, Zenon
  <2> QED
    BY <1>3, <1>4, <1>5, <2>1, <2>2 DEF Quiet
<1>10. closed' \/ NoClose'
  BY <1>0, <1>1, <1>9 DEF NoClose, Ends
<1>11. Handshake'
  BY <1>0, <1>1, <1>2, <1>3, <1>4, <1>5 DEF Handshake, Quiet, GatewayBefore, AgentBefore
<1>12. LastSent("gw")' /\ LastSent("ag")'
  BY <1>1, <1>9 DEF LastSent
<1>13. Complete("ag")'
  BY <1>2, <1>4 DEF Complete, Receives
<1>14. Complete("gw")'
  <2>1. Coming("gw")' = 1
    BY <1>1, <1>2, <1>5, TwoEnds DEF Coming, Quiet
  <2>2. up'["ag"] \notin {"read", "send", "close"}
    BY <1>1, <1>5
  <2>3. InOrder(chan["gw"], loop["gw"], wire["gw"], up["ag"], 1)
    BY <1>5, <2>2, LoopParts DEF Quiet, InOrder, Frames
  <2> QED
    BY <1>1, <1>3, <2>1, <2>3, TwoEnds DEF Complete
<1> QED
  BY <1>6, <1>7, <1>8, <1>10, <1>11, <1>12, <1>13, <1>14 DEF RelayInv, Ends

\* The handshake is not disturbed by an end that is past it: all it can do to the
\* other is send.
LEMMA HandshakeOn ==
  ASSUME TypeOK, Handshake, NEW e \in Ends, NEW o \in Ends, o = Other(e), NEW f \in Frames,
         f # "open", at[e] \in After, at'[e] \in After, at'[o] = at[o],
         at[e] \in {"refused", "over"} => at'[e] \in {"refused", "over"},
         wire'[e] = wire[e],
         wire'[o] = wire[o] \/ (wire'[o] = Append(wire[o], f) /\ (e = "gw" => at[o] \in After)),
         Quiet(e) => Quiet(e)'
  PROVE  Handshake'
<1>1. (e = "gw" /\ o = "ag") \/ (e = "ag" /\ o = "gw")
  BY TwoEnds DEF Ends
<1>2. CASE e = "gw" /\ o = "ag"
  <2>1. at'["gw"] \notin GatewayBefore \cup {"idle", "open", "await", "accept"}
    BY <1>2 DEF After, GatewayBefore
  <2>2. ASSUME NEW i \in 1 .. Len(wire'["ag"]), wire'["ag"][i] = "open"
        PROVE  at'["ag"] = "idle" /\ Len(wire'["ag"]) = 1
    <3>1. CASE wire'["ag"] = wire["ag"]
      BY <1>2, <2>2, <3>1, Zenon DEF Handshake
    <3>2. CASE wire'["ag"] = Append(wire["ag"], f) /\ at["ag"] \in After
      <4>1. at["ag"] # "idle" /\ wire["ag"] \in Seq(Frames)
        BY <3>2 DEF After, TypeOK, Ends
      <4>2. \A j \in 1 .. Len(wire["ag"]) : wire["ag"][j] # "open"
        BY <4>1 DEF Handshake
      <4>3. /\ Len(wire'["ag"]) = Len(wire["ag"]) + 1 /\ Len(wire["ag"]) \in Nat
            /\ \A j \in 1 .. Len(wire["ag"]) : wire'["ag"][j] = wire["ag"][j]
            /\ wire'["ag"][Len(wire["ag"]) + 1] = f
        BY <3>2, <4>1, Appended
      <4> QED
        BY <2>2, <4>2, <4>3, SMTT(30)
    <3> QED
      BY <1>2, <3>1, <3>2
  <2>3. ASSUME at'["ag"] \in AgentBefore
        PROVE  /\ Quiet("gw")' /\ wire'["gw"] = <<>>
               /\ at'["gw"] \in {"idle", "open", "await", "refused", "over"}
    BY <1>2, <2>3 DEF Handshake, After
  <2> QED
    BY <2>1, <2>2, <2>3 DEF Handshake
<1>3. CASE e = "ag" /\ o = "gw"
  <2>1. at'["ag"] \notin AgentBefore /\ at["ag"] # "idle"
    BY <1>3 DEF After, AgentBefore
  <2>2. at'["gw"] \notin {"idle", "open"}
    BY <1>3, <2>1 DEF Handshake
  <2> QED
    BY <1>3, <2>1, <2>2 DEF Handshake
<1> QED
  BY <1>1, <1>2, <1>3

\* The stream cannot be opened: a write that failed, a context that is done, a
\* session that has ended or an answer that is no ws.accept.
LEMMA OpenFailsStep ==
  ASSUME RelayInv, at["gw"] \in {"open", "await"}, OpenFails, wire' = wire,
         \/ chan' = chan
         \/ chan["gw"] # <<>> /\ chan' = [chan EXCEPT !["gw"] = Tail(@)],
         UNCHANGED <<done, loop, up, down, errs, conn, closed, owed>>
  PROVE  RelayInv'
<1>0. /\ TypeOK /\ Slots /\ Pumps /\ (closed \/ NoClose) /\ Handshake
      /\ \A x \in Ends : LastSent(x) /\ Complete(x)
  BY DEF RelayInv
<1>1. /\ at'["gw"] = "refused" /\ at'["ag"] = at["ag"] /\ at' \in [Ends -> Steps]
      /\ out' = "refused" /\ reg' = reg \ {"gw"} /\ held' = FALSE
  BY <1>0, Goes, TwoEnds DEF OpenFails, Steps, After
<1>2. /\ chan' \in [Ends -> Seq(Frames)] /\ chan'["ag"] = chan["ag"]
      /\ chan["gw"] = <<>> => chan'["gw"] = <<>>
      /\ CloseIn(chan'["gw"], loop["gw"], wire["gw"]) => CloseIn(chan["gw"], loop["gw"], wire["gw"])
  <2>1. CASE chan' = chan
    BY <1>0, <2>1 DEF TypeOK
  <2>2. CASE chan["gw"] # <<>> /\ chan' = [chan EXCEPT !["gw"] = Tail(@)]
    <3>1. /\ chan' \in [Ends -> Seq(Frames)] /\ chan'["gw"] = Tail(chan["gw"])
          /\ chan'["ag"] = chan["ag"] /\ chan["gw"] \in Seq(Frames)
      BY <1>0, <2>2, TakenFrom, TwoEnds DEF TypeOK
    <3> QED
      BY <2>2, <3>1, TookClose, SMTT(30)
  <2> QED
    BY <2>1, <2>2
<1>3. TypeOK'
  BY <1>0, <1>1, <1>2, Zenon DEF TypeOK, Steps, After
<1>4. Slots'
  BY <1>0, <1>1, SMTT(30) DEF Slots, Ends
<1>5. Pumps'
  BY <1>0, <1>1, SMTT(30) DEF Pumps, After, Ends
<1>6. closed' \/ NoClose'
  BY <1>0, <1>1, <1>2 DEF NoClose, Ends
<1>7. Handshake'
  <2>1. /\ at["gw"] # "refused" /\ at["gw"] \in GatewayBefore
        /\ at'["gw"] \notin GatewayBefore
    BY <1>1 DEF GatewayBefore
  <2>2. Quiet("gw") => Quiet("gw")'
    BY <1>2 DEF Quiet
  <2> QED
    BY <1>0, <1>1, <2>1, <2>2 DEF Handshake, GatewayBefore
<1>8. ~Receives("gw")' /\ at["gw"] \notin After
  BY <1>1, Zenon DEF Receives, After
<1>9. LastSent("gw")' /\ Complete("gw")'
  BY <1>0, <1>1, <1>2, <1>8, TwoEnds, Zenon DEF LastSent, Complete
<1>10. LastSent("ag")' /\ Complete("ag")'
  <2>1. Receives("ag")' => Receives("ag") /\ Coming("ag")' = Coming("ag")
    BY <1>1 DEF Receives, Coming
  <2> QED
    BY <1>0, <1>1, <1>2, <1>8, <2>1, TwoEnds, FlowSame
<1> QED
  BY <1>3, <1>4, <1>5, <1>6, <1>7, <1>9, <1>10 DEF RelayInv, Ends

\* Every outcome of the write of the ws.open.
LEMMA writeOpenStep ==
  ASSUME RelayInv, writeOpen
  PROVE  RelayInv'
<1>1. CASE Sends("gw", "open") /\ Goto("gw", "await") /\ UNCHANGED <<out, reg, held>>
  BY <1>1, writeOpenSends
<1>2. CASE SendFails("gw", ctx["gw"]) /\ OpenFails
  <2>1. UNCHANGED <<done, loop, chan, wire, up, down, errs, conn, closed, owed>>
    BY <1>2 DEF writeOpen, SendFails, pumps, socket
  <2> QED
    BY <1>2, <2>1, OpenFailsStep DEF writeOpen
<1> QED
  BY <1>1, <1>2 DEF writeOpen

\* The ws.accept has come.
LEMMA AcceptCame ==
  ASSUME RelayInv, at["gw"] = "await", chan["gw"] # <<>>, Goto("gw", "accept"),
         chan' = [chan EXCEPT !["gw"] = Tail(@)],
         UNCHANGED <<wire, out, reg, held, done, loop, up, down, errs, conn, closed, owed>>
  PROVE  RelayInv'
<1>0. /\ TypeOK /\ Slots /\ Pumps /\ (closed \/ NoClose) /\ Handshake
      /\ \A x \in Ends : LastSent(x) /\ Complete(x)
  BY DEF RelayInv
<1>1. at'["gw"] = "accept" /\ at'["ag"] = at["ag"] /\ at' \in [Ends -> Steps]
  BY <1>0, Goes, TwoEnds DEF Steps, GatewayBefore
<1>2. /\ chan' \in [Ends -> Seq(Frames)] /\ chan'["gw"] = Tail(chan["gw"])
      /\ chan'["ag"] = chan["ag"] /\ chan["gw"] \in Seq(Frames)
  BY <1>0, TakenFrom, TwoEnds DEF TypeOK
<1>3. TypeOK'
  BY <1>0, <1>1, <1>2, SMTT(30) DEF TypeOK, Steps, GatewayBefore
<1>4. Slots'
  BY <1>0, <1>1, Zenon DEF Slots, Ends
<1>5. Pumps'
  BY <1>0, <1>1 DEF Pumps, After, Ends
<1>6. CloseIn(chan'["gw"], loop["gw"], wire["gw"]) => CloseIn(chan["gw"], loop["gw"], wire["gw"])
  BY <1>2, TookClose, Zenon
<1>7. closed' \/ NoClose'
  BY <1>0, <1>1, <1>2, <1>6, Zenon DEF NoClose, Ends
<1>8. Handshake'
  <2>1. at["ag"] \notin AgentBefore
    BY <1>0 DEF Handshake, Quiet
  <2>2. Quiet("ag") => Quiet("ag")'
    BY <1>2 DEF Quiet
  <2> QED
    BY <1>0, <1>1, <2>1, <2>2, Zenon DEF Handshake, GatewayBefore
<1>9. LastSent("gw")'
  BY <1>0, <1>1, <1>2, <1>6, TwoEnds, SMTT(30) DEF LastSent
<1>10. Complete("gw")'
  <2> SUFFICES ASSUME Receives("gw")'
               PROVE  InOrder(chan'["gw"], loop["gw"], wire["gw"], up["ag"], Coming("gw")')
    BY TwoEnds DEF Complete
  <2>1. Receives("gw")
    BY DEF Receives
  <2>2. InOrder(chan["gw"], loop["gw"], wire["gw"], up["ag"], Coming("gw"))
    BY <1>0, <2>1, TwoEnds, Zenon DEF Complete
  <2>3. /\ Coming("gw") \in Int /\ Coming("gw")' = Coming("gw") - 1
        /\ loop["gw"] \in Loops /\ wire["gw"] \in Seq(Frames)
    BY <1>0, <1>1, TwoEnds, SMTT(30) DEF Coming, TypeOK, Loops
  <2> QED
    BY <1>2, <2>2, <2>3, TookFrame
<1>11. LastSent("ag")' /\ Complete("ag")'
  <2>1. Receives("ag")' => Receives("ag") /\ Coming("ag")' = Coming("ag")
    BY <1>1 DEF Receives, Coming
  <2>2. at["gw"] \notin After
    BY DEF After
  <2> QED
    BY <1>0, <1>1, <1>2, <2>1, <2>2, TwoEnds, FlowSame
<1> QED
  BY <1>3, <1>4, <1>5, <1>7, <1>8, <1>9, <1>10, <1>11 DEF RelayInv, Ends

\* Every way out of the wait for the agent's answer.
LEMMA awaitAcceptStep ==
  ASSUME RelayInv, awaitAccept
  PROVE  RelayInv'
<1>1. /\ at["gw"] = "await"
      /\ UNCHANGED <<wire, done, loop, up, down, errs, conn, closed, owed>>
  BY DEF awaitAccept, link, pumps, socket
<1>2. CASE OpenFails /\ chan' = chan
  BY <1>1, <1>2, OpenFailsStep
<1>3. CASE OpenFails /\ chan["gw"] # <<>> /\ chan' = [chan EXCEPT !["gw"] = Tail(@)]
  BY <1>1, <1>3, OpenFailsStep
<1>4. CASE /\ chan["gw"] # <<>> /\ chan' = [chan EXCEPT !["gw"] = Tail(@)]
           /\ Goto("gw", "accept") /\ UNCHANGED <<out, reg, held>>
  BY <1>1, <1>4, AcceptCame
<1> QED
  BY <1>2, <1>3, <1>4 DEF awaitAccept

\* Without a close under way every count is in order once the sender has stopped.
LEMMA NoneInOrder ==
  ASSUME NEW c, NEW l, NEW w, NEW u, u \notin {"read", "send", "close"}, ~CloseIn(c, l, w), NEW n
  PROVE  InOrder(c, l, w, u, n)
BY DEF CloseIn, InOrder

\* The public websocket is accepted and the relay starts.
LEMMA AcceptedPublic ==
  ASSUME RelayInv, acceptPublic, StartsRelay("gw"), conn' = [conn EXCEPT !["gw"] = "open"],
         out' = out
  PROVE  RelayInv'
<1>0. /\ TypeOK /\ Slots /\ Pumps /\ (closed \/ NoClose) /\ Handshake
      /\ \A x \in Ends : LastSent(x) /\ Complete(x)
  BY DEF RelayInv
<1>1. /\ at["gw"] = "accept"
      /\ UNCHANGED <<wire, done, loop, chan, reg, held, errs, closed, owed>>
  BY DEF acceptPublic, link, session
<1>2. at'["gw"] = "relay" /\ at'["ag"] = at["ag"] /\ at' \in [Ends -> Steps]
  BY <1>0, Goes, TwoEnds DEF Steps, After, StartsRelay
<1>3. /\ up' \in [Ends -> {"off", "read", "send", "close", "cancel", "done"}]
      /\ up'["gw"] = "read" /\ up'["ag"] = up["ag"]
      /\ down' \in [Ends -> {"off", "read", "write", "closing", "done"}]
      /\ down'["gw"] = "read" /\ down'["ag"] = down["ag"]
      /\ conn' \in [Ends -> {"none", "open", "closing", "closed"}]
      /\ conn'["gw"] = "open" /\ conn'["ag"] = conn["ag"]
  BY <1>0, TwoEnds, ZenonT(60) DEF StartsRelay, TypeOK
<1>4. TypeOK'
  BY <1>0, <1>1, <1>2, <1>3 DEF TypeOK, Steps, After
<1>5. Slots'
  BY <1>0, <1>1, <1>2, <1>3, Zenon DEF Slots, Ends
<1>6. Pumps'
  <2>1. errs["gw"] = <<>>
    BY <1>0, <1>1, TwoEnds, Zenon DEF Pumps, After
  <2> QED
    BY <1>0, <1>1, <1>2, <1>3, <2>1 DEF Pumps, After, Ends, Returned
<1>7. closed' \/ NoClose'
  BY <1>0, <1>1, <1>3, Zenon DEF NoClose, Ends
<1>8. at["ag"] \notin AgentBefore /\ at["ag"] \in After
  BY <1>0, <1>1 DEF Handshake, TypeOK
<1>9. Quiet("ag") /\ wire["ag"] = <<>> /\ at["ag"] # "await"
  BY <1>0, <1>1, <1>8, Zenon DEF Handshake, AgentBefore, GatewayBefore, After
<1>10. Handshake'
  BY <1>0, <1>1, <1>2, <1>8, Zenon DEF Handshake, GatewayBefore
<1>11. LastSent("gw")' /\ Complete("gw")'
  <2>1. Receives("gw")' => Receives("gw") /\ Coming("gw")' = Coming("gw")
    <3>1. down["gw"] = "off"
      BY <1>0, <1>1, TwoEnds DEF Pumps, After
    <3> QED
      BY <1>1, <1>2, <1>3, <3>1, Zenon DEF Receives, Coming
  <2>2. at["gw"] \notin After
    BY <1>1 DEF After
  <2> QED
    BY <1>0, <1>1, <1>2, <1>3, <2>1, <2>2, TwoEnds, FlowSame, Zenon
<1>12. LastSent("ag")' /\ Complete("ag")'
  <2>1. chan["ag"] = <<>> /\ loop["ag"] \in Loops /\ loop["ag"].at # "deliver"
    BY <1>0, <1>9, TwoEnds DEF Quiet, TypeOK, Loops
  <2>2. /\ ~CloseIn(chan["ag"], loop["ag"], wire["ag"])
        /\ InOrder(chan["ag"], loop["ag"], wire["ag"], "read", 0)
    BY <1>9, <2>1, NothingComes, Zenon
  <2>3. Coming("ag")' = 0
    BY <1>1, <1>2, <1>3, <1>9, TwoEnds DEF Coming, Quiet
  <2> QED
    BY <1>1, <1>3, <2>2, <2>3, TwoEnds DEF LastSent, Complete
<1> QED
  BY <1>4, <1>5, <1>6, <1>7, <1>10, <1>11, <1>12 DEF RelayInv, Ends

\* Both outcomes of websocket.Accept.
LEMMA acceptPublicStep ==
  ASSUME RelayInv, acceptPublic
  PROVE  RelayInv'
<1>0. TypeOK /\ Slots /\ Pumps /\ (closed \/ NoClose) /\ Handshake
  BY DEF RelayInv
<1>1. CASE StartsRelay("gw") /\ conn' = [conn EXCEPT !["gw"] = "open"] /\ out' = out
  BY <1>1, AcceptedPublic
<1>2. CASE Goto("gw", "tell") /\ out' = "refused" /\ UNCHANGED <<conn, up, down>>
  <2>1. /\ at["gw"] = "accept"
        /\ UNCHANGED <<wire, done, loop, chan, reg, held, errs, closed, owed>>
    BY DEF acceptPublic, link, session
  <2>2. at'["gw"] = "tell" /\ at'["ag"] = at["ag"] /\ at' \in [Ends -> Steps]
    BY <1>0, <1>2, Goes, TwoEnds, Zenon DEF Steps, After
  <2>3. TypeOK'
    BY <1>0, <1>2, <2>1, <2>2 DEF TypeOK, Steps, After
  <2>4. Slots'
    BY <1>0, <1>2, <2>1, <2>2, Zenon DEF Slots, Ends
  <2>5. Pumps'
    BY <1>0, <1>2, <2>1, <2>2, Zenon DEF Pumps, After, Ends
  <2>6. closed' \/ NoClose'
    BY <1>0, <1>2, <2>1, Zenon DEF NoClose
  <2>7. Handshake'
    BY <1>0, <1>2, <2>1, <2>2 DEF Handshake, GatewayBefore
  <2>8. at["gw"] \notin After /\ ~Receives("gw")'
    BY <2>1, <2>2 DEF After, Receives
  <2>9. \A x \in Ends : LastSent(x)' /\ Complete(x)'
    BY <1>2, <2>1, <2>2, <2>8, TwoEnds, FlowAt
  <2> QED
    BY <2>3, <2>4, <2>5, <2>6, <2>7, <2>9 DEF RelayInv
<1> QED
  BY <1>1, <1>2 DEF acceptPublic

\* The agent is told, or the write fails.
LEMMA SendCancelStep ==
  ASSUME RelayInv, SendCancel
  PROVE  RelayInv'
<1>0. /\ TypeOK /\ Slots /\ Pumps /\ (closed \/ NoClose) /\ Handshake
      /\ \A x \in Ends : LastSent(x) /\ Complete(x)
  BY DEF RelayInv
<1>1. /\ at["gw"] = "tell"
      /\ UNCHANGED <<done, loop, chan, reg, held, out, up, down, errs, conn, closed, owed>>
  BY DEF SendCancel, session, pumps, socket
<1>2. at'["gw"] = "return" /\ at'["ag"] = at["ag"] /\ at' \in [Ends -> Steps]
  BY <1>0, Goes, TwoEnds DEF SendCancel, Steps, After
<1>3. /\ wire' \in [Ends -> Seq(Frames)] /\ wire'["gw"] = wire["gw"]
      /\ wire'["ag"] = wire["ag"] \/ wire'["ag"] = Append(wire["ag"], "cancel")
  BY <1>0, WireMoves, TwoEnds, Zenon DEF SendCancel, Frames
<1>4. TypeOK'
  BY <1>0, <1>1, <1>2, <1>3, SMTT(30) DEF TypeOK, Steps, After
<1>5. Slots'
  BY <1>0, <1>1, <1>2, SMTT(30) DEF Slots, Ends
<1>6. Pumps'
  BY <1>0, <1>1, <1>2 DEF Pumps, After, Ends
<1>7. CloseIn(chan["ag"], loop["ag"], wire'["ag"]) => CloseIn(chan["ag"], loop["ag"], wire["ag"])
  <2>1. wire["ag"] \in Seq(Frames) /\ "cancel" \in Frames
    BY <1>0, TwoEnds, SMTT(30) DEF TypeOK, Frames
  <2> QED
    BY <1>3, <2>1, SentClose, Zenon
<1>8. closed' \/ NoClose'
  BY <1>0, <1>1, <1>3, <1>7 DEF NoClose, Ends
<1>9. Handshake'
  <2>1. at["ag"] \in After /\ at["gw"] \in After /\ at'["gw"] \in After
    BY <1>0, <1>1, <1>2 DEF Handshake, TypeOK, After
  <2>2. Quiet("gw") => Quiet("gw")'
    BY <1>1 DEF Quiet
  <2>3. "cancel" \in Frames
    BY Zenon DEF Frames
  <2> QED
    BY <1>0, <1>1, <1>2, <1>3, <2>1, <2>2, <2>3, TwoEnds, HandshakeOn, ZenonT(60)
<1>10. at'["gw"] \in After /\ ~Receives("gw")' /\ up["gw"] \in {"off", "done"}
  BY <1>0, <1>1, <1>2, TwoEnds, Zenon DEF After, Receives, Pumps
<1>11. LastSent("gw")' /\ Complete("gw")'
  BY <1>0, <1>1, <1>2, <1>3, <1>10, TwoEnds, FlowSame
<1>12. LastSent("ag")' /\ Complete("ag")'
  <2>1. Receives("ag")' => Receives("ag") /\ Coming("ag")' = Coming("ag")
    BY <1>1, <1>2, Zenon DEF Receives, Coming
  <2>2. CASE wire'["ag"] = wire["ag"]
    BY <1>0, <1>1, <1>2, <1>10, <2>1, <2>2, TwoEnds, FlowSame, Zenon
  <2>3. CASE wire'["ag"] = Append(wire["ag"], "cancel")
    <3>1. "cancel" \in Frames /\ "cancel" # "close" /\ up'["gw"] \in {"cancel", "off", "done"}
      BY <1>1, <1>10, Zenon DEF Frames
    <3> QED
      BY <1>0, <1>1, <1>2, <1>10, <2>1, <2>3, <3>1, TwoEnds, FlowTold
  <2> QED
    BY <1>3, <2>2, <2>3
<1> QED
  BY <1>4, <1>5, <1>6, <1>8, <1>9, <1>11, <1>12, SMTT(30) DEF RelayInv, Ends

\* What a handler that returns leaves of its end.
LEMMA Forgotten ==
  ASSUME RelayInv, NEW e \in Ends, at[e] \in {"return", "refused", "finish"}, Forgets(e)
  PROVE  /\ at' \in [Ends -> Steps] /\ at'[e] = "over" /\ at'[Other(e)] = at[Other(e)]
         /\ up' \in [Ends -> {"off", "read", "send", "close", "cancel", "done"}]
         /\ up'[e] = "off" /\ up'[Other(e)] = up[Other(e)]
         /\ down' \in [Ends -> {"off", "read", "write", "closing", "done"}]
         /\ down'[e] = "off" /\ down'[Other(e)] = down[Other(e)]
         /\ errs' \in [Ends -> Seq(Results)] /\ errs'[e] = <<>> /\ errs'[Other(e)] = errs[Other(e)]
         /\ conn' \in [Ends -> {"none", "open", "closing", "closed"}]
         /\ conn'[e] = "closed" /\ conn'[Other(e)] = conn[Other(e)]
         /\ UNCHANGED <<closed, owed>>
<1>0. TypeOK /\ Pumps
  BY ZenonT(60) DEF RelayInv
<1>1. up[e] \in {"off", "done"} /\ down[e] \in {"off", "done"}
  BY <1>0 DEF Pumps
<1>2. at' \in [Ends -> Steps] /\ at'[e] = "over" /\ at'[Other(e)] = at[Other(e)]
  BY <1>0, Goes DEF Forgets, Steps, After
<1>3. up' = [up EXCEPT ![e] = "off"] /\ down' = [down EXCEPT ![e] = "off"]
  BY <1>1, Zenon DEF Forgets
<1>4. errs' = [errs EXCEPT ![e] = <<>>] /\ conn' = [conn EXCEPT ![e] = "closed"]
  BY DEF Forgets
<1>5. /\ up' \in [Ends -> {"off", "read", "send", "close", "cancel", "done"}]
      /\ up'[e] = "off" /\ up'[Other(e)] = up[Other(e)]
  BY <1>0, <1>3, TwoEnds DEF TypeOK
<1>6. /\ down' \in [Ends -> {"off", "read", "write", "closing", "done"}]
      /\ down'[e] = "off" /\ down'[Other(e)] = down[Other(e)]
  BY <1>0, <1>3, TwoEnds, Zenon DEF TypeOK
<1>7. errs' \in [Ends -> Seq(Results)] /\ errs'[e] = <<>> /\ errs'[Other(e)] = errs[Other(e)]
  <2>1. <<>> \in Seq(Results)
    OBVIOUS
  <2> QED
    BY <1>0, <1>4, <2>1, TwoEnds, ZenonT(60) DEF TypeOK
<1>8. /\ conn' \in [Ends -> {"none", "open", "closing", "closed"}]
      /\ conn'[e] = "closed" /\ conn'[Other(e)] = conn[Other(e)]
  BY <1>0, <1>4, TwoEnds, Zenon DEF TypeOK
<1> QED
  BY <1>2, <1>5, <1>6, <1>7, <1>8 DEF Forgets

\* The gateway's handler returns.
LEMMA handlePublicWebSocketReturnsStep ==
  ASSUME RelayInv, handlePublicWebSocketReturns
  PROVE  RelayInv'
<1>0. /\ TypeOK /\ Slots /\ Pumps /\ (closed \/ NoClose) /\ Handshake
      /\ \A x \in Ends : LastSent(x) /\ Complete(x)
  BY DEF RelayInv
<1>1. /\ at["gw"] \in {"return", "refused"} /\ out' = "none"
      /\ reg' = reg \ {"gw"} /\ held' = FALSE
      /\ UNCHANGED <<wire, done, loop, chan>>
  <2>1. at["gw"] = "refused" => held = FALSE /\ reg = reg \ {"gw"}
    BY <1>0 DEF Slots, TypeOK
  <2> QED
    BY <2>1, Zenon DEF handlePublicWebSocketReturns, link
<1>2. /\ at' \in [Ends -> Steps] /\ at'["gw"] = "over" /\ at'["ag"] = at["ag"]
      /\ up'["gw"] = "off" /\ up'["ag"] = up["ag"]
      /\ down'["gw"] = "off" /\ down'["ag"] = down["ag"]
      /\ errs'["gw"] = <<>> /\ errs'["ag"] = errs["ag"]
      /\ conn'["gw"] = "closed" /\ conn'["ag"] = conn["ag"] /\ UNCHANGED <<closed, owed>>
  BY <1>1, Forgotten, TwoEnds, ZenonT(60) DEF handlePublicWebSocketReturns
<1>3. TypeOK'
  <2>1. /\ up' \in [Ends -> {"off", "read", "send", "close", "cancel", "done"}]
        /\ down' \in [Ends -> {"off", "read", "write", "closing", "done"}]
        /\ errs' \in [Ends -> Seq(Results)]
        /\ conn' \in [Ends -> {"none", "open", "closing", "closed"}]
    BY <1>1, Forgotten, TwoEnds DEF handlePublicWebSocketReturns
  <2> QED
    BY <1>0, <1>1, <1>2, <2>1, Zenon DEF TypeOK, Steps, After
<1>4. Slots'
  BY <1>0, <1>1, <1>2, SMTT(30) DEF Slots, Ends
<1>5. Pumps'
  BY <1>0, <1>1, <1>2, SMTT(30) DEF Pumps, After, Ends
<1>6. closed' \/ NoClose'
  BY <1>0, <1>1, <1>2 DEF NoClose, Ends
<1>7. Handshake'
  <2>1. at["gw"] \in After /\ at'["gw"] \in After /\ "msg" \in Frames
    BY <1>1, <1>2 DEF After, Frames
  <2>2. Quiet("gw") => Quiet("gw")'
    BY <1>1, <1>2 DEF Quiet
  <2> QED
    BY <1>0, <1>1, <1>2, <2>1, <2>2, TwoEnds, HandshakeOn, ZenonT(60)
<1>8. at'["gw"] \in After /\ ~Receives("gw")'
  BY <1>2, Zenon DEF After, Receives
<1>9. LastSent("gw")' /\ Complete("gw")'
  BY <1>0, <1>1, <1>2, <1>8, TwoEnds, FlowSame, Zenon
<1>10. LastSent("ag")' /\ Complete("ag")'
  <2>1. Receives("ag")' => Receives("ag") /\ Coming("ag")' = Coming("ag")
    BY <1>1, <1>2 DEF Receives, Coming
  <2> QED
    BY <1>0, <1>1, <1>2, <1>8, <2>1, TwoEnds, FlowSame, Zenon
<1> QED
  BY <1>3, <1>4, <1>5, <1>6, <1>7, <1>9, <1>10 DEF RelayInv, Ends

\* A context, the keepalive or the network: the stream itself does not move.
LEMMA OutsideStep ==
  ASSUME RelayInv, CtxDone \/ keepaliveFails \/ ConnLost \/ UNCHANGED vars
  PROVE  RelayInv'
<1>0. TypeOK /\ Slots /\ Pumps /\ (closed \/ NoClose) /\ Handshake
  BY Zenon DEF RelayInv
<1>1. /\ UNCHANGED <<wire, loop, chan, reg, held, at, out, up, down, errs, conn, closed, owed>>
      /\ done => done'
  BY DEF CtxDone, keepaliveFails, ConnLost, vars, link, session, pumps, socket
<1>2. TypeOK' /\ Slots' /\ Pumps' /\ (closed' \/ NoClose') /\ Handshake'
  <2>1. TypeOK'
    BY <1>0, <1>1, Zenon DEF TypeOK
  <2> QED
    BY <1>0, <1>1, <2>1, SlotsSame, PumpsSame, CloseSame, HandshakeSame, Zenon
<1>3. \A x \in Ends : LastSent(x)' /\ Complete(x)'
  <2>1. Receives("gw")' => Receives("gw") /\ Coming("gw")' = Coming("gw")
    BY <1>1 DEF Receives, Coming
  <2> QED
    BY <1>1, <2>1, TwoEnds, FlowAt
<1> QED
  BY <1>2, <1>3 DEF RelayInv

\* The handler of e, past the handshake, goes on while the frames stay.
LEMMA HandlerOn ==
  ASSUME RelayInv, NEW e \in Ends, NEW l \in After, Goto(e, l), at[e] \in {"relay", "drain"},
         e = "gw" => l \in {"drain", "tell", "return"}, e = "ag" => l \in {"drain", "finish"},
         l # "drain" => up[e] = "done" /\ down[e] = "done",
         IF l = "drain" THEN UNCHANGED errs ELSE errs' = [errs EXCEPT ![e] = <<>>],
         out' = "completed" => closed \/ out = "completed",
         UNCHANGED <<wire, done, loop, chan, reg, held, up, down, conn, closed, owed>>
  PROVE  RelayInv'
<1>0. TypeOK /\ Slots /\ Pumps /\ (closed \/ NoClose) /\ Handshake
  BY DEF RelayInv
<1>1. at' \in [Ends -> Steps] /\ at'[e] = l /\ at'[Other(e)] = at[Other(e)]
  BY <1>0, Goes DEF Steps
<1>2. (e = "gw" /\ Other(e) = "ag") \/ (e = "ag" /\ Other(e) = "gw")
  BY TwoEnds, Zenon DEF Ends
<1>3. TypeOK'
  <2>1. errs' \in [Ends -> Seq(Results)]
    <3>1. errs \in [Ends -> Seq(Results)] /\ <<>> \in Seq(Results)
      BY <1>0 DEF TypeOK
    <3> QED BY <3>1, Zenon
  <2> QED
    BY <1>0, <1>1, <1>2, <2>1, SMTT(30) DEF TypeOK, Steps, After
<1>4. Slots'
  BY <1>0, <1>1, <1>2, Zenon DEF Slots, Ends, After
<1>5. errs'[Other(e)] = errs[Other(e)] /\ errs'[e] \in {errs[e], <<>>} /\ (l = "drain" => errs' = errs)
  BY <1>0, <1>2 DEF TypeOK, Ends
<1>6. Pumps'
  <2>1. CASE l = "drain"
    BY <1>0, <1>1, <1>2, <1>5, <2>1, ZenonT(60) DEF Pumps, After, Ends
  <2>2. CASE l # "drain"
    <3>1. at'[e] \in After /\ at'[e] \notin {"relay", "drain"}
      BY <1>1, <1>2, <2>2, Zenon
    <3> QED
      BY <1>0, <1>1, <1>2, <1>5, <2>2, <3>1, ZenonT(60) DEF Pumps, Ends
  <2> QED BY <2>1, <2>2, Zenon
<1>7. closed' \/ NoClose'
  <2>1. errs'["gw"] \in {errs["gw"], <<>>}
    BY <1>2, <1>5, Zenon
  <2>2. (\A i \in 1 .. Len(errs["gw"]) : errs["gw"][i] # "nil")
          => \A i \in 1 .. Len(errs'["gw"]) : errs'["gw"][i] # "nil"
    BY <2>1
  <2> QED
    BY <1>0, <2>2, Zenon DEF NoClose
<1>8. Handshake'
  <2>1. at[e] \in After /\ at'[e] \in After /\ "msg" \in Frames
    BY <1>1, Zenon DEF After, Frames
  <2>2. Quiet(e) => Quiet(e)'
    BY Zenon DEF Quiet
  <2> QED
    BY <1>0, <1>1, <2>1, <2>2, TwoEnds, HandshakeOn
<1>9. \A x \in Ends : LastSent(x)' /\ Complete(x)'
  <2>1. Receives(e)' => Receives(e) /\ Coming(e)' = Coming(e)
    BY <1>1 DEF Receives, Coming, After
  <2> QED
    BY <1>1, <2>1, FlowAt
<1> QED
  BY <1>3, <1>4, <1>6, <1>7, <1>8, <1>9 DEF RelayInv

\* The first of the pumps has returned.
LEMMA relayFirstStep ==
  ASSUME RelayInv, NEW e \in Ends, relayFirst(e)
  PROVE  RelayInv'
<1>1. /\ at[e] = "relay" /\ Goto(e, "drain")
      /\ UNCHANGED <<wire, done, loop, chan, reg, held, out, up, down, errs, conn, closed, owed>>
  BY DEF relayFirst, link, session, pumps, socket
<1>2. "drain" \in After
  BY Zenon DEF After
<1> QED
  BY <1>1, <1>2, HandlerOn, Zenon

\* Both have: errCh is drained only when both pumps are done.
LEMMA BothReturned ==
  ASSUME RelayInv, NEW e \in Ends, at[e] = "drain", Len(errs[e]) = 2
  PROVE  up[e] = "done" /\ down[e] = "done"
<1>1. Returned(up[e]) + Returned(down[e]) = 2
  BY Zenon DEF RelayInv, Pumps
<1>2. \A x : Returned(x) \in {0, 1} /\ (Returned(x) = 1 => x = "done")
  BY DEF Returned
<1>3. \A x, y \in {0, 1} : x + y = 2 => x = 1 /\ y = 1
  OBVIOUS
<1> QED
  BY <1>1, <1>2, <1>3, Zenon

\* The gateway reports the outcome; it is nil only if a pump returned nil.
LEMMA relayPublicWebSocketStep ==
  ASSUME RelayInv, relayPublicWebSocket
  PROVE  RelayInv'
<1> DEFINE outcome == relayOutcome(errs["gw"][1], errs["gw"][2])
           l == IF isStreamContextDoneCause(outcome) THEN "tell" ELSE "return"
<1>1. /\ at["gw"] = "drain" /\ Len(errs["gw"]) = 2 /\ Goto("gw", l)
      /\ out' = IF outcome = "nil" THEN "completed" ELSE "failed"
      /\ errs' = [errs EXCEPT !["gw"] = <<>>]
      /\ UNCHANGED <<wire, done, loop, chan, reg, held, up, down, conn, closed, owed>>
  BY Zenon DEF relayPublicWebSocket, link, session, socket
<1>2. outcome = "nil" => errs["gw"][1] = "nil" \/ errs["gw"][2] = "nil"
  BY DEF relayOutcome
<1>3. l \in {"tell", "return"} /\ l \in After /\ l # "drain"
  BY Zenon DEF After
<1> HIDE DEF outcome, l
<1>4. out' = "completed" => closed
  <2>1. closed \/ NoClose
    BY DEF RelayInv
  <2> QED
    BY <1>1, <1>2, <2>1 DEF NoClose
<1> QED
  BY <1>1, <1>3, <1>4, TwoEnds, BothReturned, HandlerOn, Zenon

\* The agent's handler is through with its relay.
LEMMA relayWSStreamStep ==
  ASSUME RelayInv, relayWSStream
  PROVE  RelayInv'
<1>1. /\ at["ag"] = "drain" /\ Len(errs["ag"]) = 2 /\ Goto("ag", "finish")
      /\ errs' = [errs EXCEPT !["ag"] = <<>>]
      /\ UNCHANGED <<wire, done, loop, chan, reg, held, out, up, down, conn, closed, owed>>
  BY DEF relayWSStream, link, session, socket
<1>2. "finish" \in After /\ "finish" # "drain"
  BY Zenon DEF After
<1> QED
  BY <1>1, <1>2, TwoEnds, BothReturned, HandlerOn, Zenon

-------------------------------------------------------------------------------
(* The steps of the agent's handler *)

\* Before the agent has answered, it has sent nothing, the gateway no close, and the
\* gateway's relay has not started or never will.
LEMMA Unanswered ==
  ASSUME RelayInv, at["ag"] \in AgentBefore
  PROVE  /\ Quiet("gw") /\ wire["gw"] = <<>> /\ loop["gw"] \in Loops
         /\ at["gw"] \in {"idle", "open", "await", "refused", "over"}
         /\ up["ag"] = "off" /\ down["ag"] = "off" /\ errs["ag"] = <<>>
         /\ up["gw"] \in {"off", "done"} /\ down["gw"] \in {"off", "done"}
         /\ at["gw"] = "await" => down["gw"] = "off"
         /\ ~CloseIn(chan["ag"], loop["ag"], wire["ag"])
<1>0. TypeOK /\ Pumps /\ Handshake /\ LastSent("ag")
  BY TwoEnds DEF RelayInv
<1>1. at["ag"] \notin After
  BY DEF AgentBefore, After
<1>2. /\ Quiet("gw") /\ wire["gw"] = <<>>
      /\ at["gw"] \in {"idle", "open", "await", "refused", "over"}
  BY <1>0 DEF Handshake
<1>3. at["gw"] \notin {"relay", "drain"} /\ (at["gw"] = "await" => at["gw"] \notin After)
  BY <1>2, Zenon DEF After
<1> QED
  BY <1>0, <1>1, <1>2, <1>3, TwoEnds, Zenon DEF TypeOK, Loops, Pumps, LastSent

\* The local service is dialled.
LEMMA dialLocalStep ==
  ASSUME RelayInv, dialLocal
  PROVE  RelayInv'
<1>0. /\ TypeOK /\ Slots /\ Pumps /\ (closed \/ NoClose) /\ Handshake
      /\ \A x \in Ends : LastSent(x) /\ Complete(x)
  BY DEF RelayInv
<1>1. /\ at["ag"] = "dial" /\ at["ag"] \in AgentBefore
      /\ UNCHANGED <<wire, done, loop, chan, reg, held, out, up, down, errs, closed, owed>>
  BY DEF dialLocal, link, session, pumps, AgentBefore
<1>2. /\ at'["ag"] \in {"accept", "error"} /\ at'["gw"] = at["gw"] /\ at' \in [Ends -> Steps]
      /\ conn' \in [Ends -> {"none", "open", "closing", "closed"}]
      /\ conn'["gw"] = conn["gw"] /\ conn'["ag"] \in {conn["ag"], "open"}
  <2>1. at'["ag"] \in {"accept", "error"} /\ at'["gw"] = at["gw"] /\ at' \in [Ends -> Steps]
    BY <1>0, Goes, TwoEnds DEF dialLocal, Steps, AgentBefore
  <2>2. conn' = conn \/ conn' = [conn EXCEPT !["ag"] = "open"]
    BY DEF dialLocal
  <2>3. /\ conn' \in [Ends -> {"none", "open", "closing", "closed"}]
        /\ conn'["gw"] = conn["gw"] /\ conn'["ag"] \in {conn["ag"], "open"}
    <3>1. conn \in [Ends -> {"none", "open", "closing", "closed"}]
      BY <1>0 DEF TypeOK
    <3>2. CASE conn' = conn
      BY <3>1, <3>2
    <3>3. CASE conn' = [conn EXCEPT !["ag"] = "open"]
      BY <3>1, <3>3, TwoEnds, Zenon
    <3> QED
      BY <2>2, <3>2, <3>3
  <2> QED
    BY <2>1, <2>3
<1>3. TypeOK'
  BY <1>0, <1>1, <1>2, Zenon DEF TypeOK, Steps, AgentBefore
<1>4. Slots'
  BY <1>0, <1>1, <1>2, Zenon DEF Slots, Ends
<1>5. Pumps'
  BY <1>0, <1>1, <1>2, ZenonT(60) DEF Pumps, After, Ends
<1>6. closed' \/ NoClose'
  BY <1>0, <1>1, <1>2, Zenon DEF NoClose, Ends
<1>7. Handshake'
  BY <1>0, <1>1, <1>2, Zenon DEF Handshake, Quiet, AgentBefore
<1>8. at["ag"] \notin After
  BY <1>1, SMTT(30) DEF After
<1>9. LastSent("gw")' /\ Complete("gw")'
  <2>1. Receives("gw")' => Receives("gw") /\ Coming("gw")' = Coming("gw")
    BY <1>1, <1>2, Zenon DEF Receives, Coming
  <2> QED
    BY <1>0, <1>1, <1>2, <1>8, <2>1, TwoEnds, FlowSame
<1>10. LastSent("ag")' /\ Complete("ag")'
  <2>1. up["gw"] \notin {"read", "send", "close"} /\ ~CloseIn(chan["ag"], loop["ag"], wire["ag"])
    BY <1>1, Unanswered, Zenon
  <2>2. InOrder(chan["ag"], loop["ag"], wire["ag"], up["gw"], Coming("ag")')
    BY <2>1, NoneInOrder
  <2> QED
    BY <1>1, <2>1, <2>2, TwoEnds, Zenon DEF LastSent, Complete
<1> QED
  BY <1>3, <1>4, <1>5, <1>6, <1>7, <1>9, <1>10 DEF RelayInv, Ends

\* The agent's ws.accept is on its way and its relay starts.
LEMMA AcceptSent ==
  ASSUME RelayInv, writeAccept, Sends("ag", "accept"), StartsRelay("ag")
  PROVE  RelayInv'
<1>0. /\ TypeOK /\ Slots /\ Pumps /\ (closed \/ NoClose) /\ Handshake
      /\ \A x \in Ends : LastSent(x) /\ Complete(x)
  BY DEF RelayInv
<1>1. /\ at["ag"] = "accept" /\ at["ag"] \in AgentBefore
      /\ UNCHANGED <<done, loop, chan, reg, held, out, errs, conn, closed, owed>>
  BY DEF writeAccept, session, socket, AgentBefore
<1>2. at'["ag"] = "relay" /\ at'["gw"] = at["gw"] /\ at' \in [Ends -> Steps]
  BY <1>0, Goes, TwoEnds, Zenon DEF Steps, After, StartsRelay
<1>3. /\ up' \in [Ends -> {"off", "read", "send", "close", "cancel", "done"}]
      /\ up'["ag"] = "read" /\ up'["gw"] = up["gw"]
      /\ down' \in [Ends -> {"off", "read", "write", "closing", "done"}]
      /\ down'["ag"] = "read" /\ down'["gw"] = down["gw"]
  BY <1>0, TwoEnds, ZenonT(60) DEF StartsRelay, TypeOK
<1>4. /\ wire' \in [Ends -> Seq(Frames)] /\ wire'["ag"] = wire["ag"]
      /\ wire'["gw"] = Append(wire["gw"], "accept")
  BY <1>0, SendsParts, TwoEnds DEF Frames
<1>5. /\ chan["gw"] = <<>> /\ loop["gw"].at # "deliver" /\ owed["ag"] = 0 /\ wire["gw"] = <<>>
      /\ loop["gw"] \in Loops /\ at["gw"] \in {"idle", "open", "await", "refused", "over"}
      /\ errs["ag"] = <<>>
  BY <1>1, Unanswered, TwoEnds, Zenon DEF Quiet
<1>6. TypeOK'
  BY <1>0, <1>1, <1>2, <1>3, <1>4, Zenon DEF TypeOK, Steps, After
<1>7. Slots'
  BY <1>0, <1>1, <1>2, SMTT(30) DEF Slots, Ends
<1>8. Pumps'
  BY <1>0, <1>1, <1>2, <1>3, <1>5 DEF Pumps, After, Ends, Returned
<1>9. ~CloseIn(chan["gw"], loop["gw"], wire'["gw"])
  <2>1. ~CloseIn(chan["gw"], loop["gw"], wire["gw"])
    BY <1>5, NothingComes
  <2>2. wire["gw"] \in Seq(Frames) /\ "accept" \in Frames
    BY <1>0, TwoEnds DEF TypeOK, Frames
  <2>3. CloseIn(chan["gw"], loop["gw"], Append(wire["gw"], "accept"))
          => CloseIn(chan["gw"], loop["gw"], wire["gw"]) \/ "accept" = "close"
    BY <2>2, SentClose, Zenon
  <2> QED
    BY <1>4, <2>1, <2>3, SMTT(30)
<1>10. closed' \/ NoClose'
  BY <1>0, <1>1, <1>3, <1>4, <1>9, Zenon DEF NoClose, Ends
<1>11. Handshake'
  <2>1. Quiet("ag") => Quiet("ag")'
    BY <1>1, <1>3, TwoEnds DEF Quiet
  <2>2. at'["ag"] \notin AgentBefore
    BY <1>2 DEF AgentBefore
  <2> QED
    BY <1>0, <1>1, <1>2, <1>4, <2>1, <2>2, SMTT(30) DEF Handshake
<1>12. LastSent("gw")' /\ LastSent("ag")'
  <2>1. ~CloseIn(chan["ag"], loop["ag"], wire["ag"])
    BY <1>1, Unanswered
  <2> QED
    BY <1>1, <1>4, <1>9, <2>1, Zenon DEF LastSent
<1>13. Complete("gw")'
  <2> SUFFICES ASSUME Receives("gw")'
               PROVE  InOrder(chan["gw"], loop["gw"], wire'["gw"], "read", Coming("gw")')
    BY <1>1, <1>3, TwoEnds, Zenon DEF Complete
  <2>1. at["gw"] = "await"
    BY <1>2, <1>5, Zenon DEF Receives
  <2>2. down["gw"] = "off"
    BY <1>1, <2>1, Unanswered, Zenon
  <2>3. Coming("gw")' = 1
    BY <1>1, <1>2, <1>3, <1>5, <2>1, <2>2, TwoEnds DEF Coming
  <2>4. InOrder(<<>>, loop["gw"], Append(<<>>, "accept"), "read", 1)
    <3>1. "accept" \in Frames /\ "accept" # "close" /\ "read" \notin {"send"}
      BY DEF Frames
    <3> QED
      BY <1>5, <3>1, NothingComes, Zenon
  <2> QED
    BY <1>4, <1>5, <2>3, <2>4, Zenon
<1>14. Complete("ag")'
  <2>1. up["gw"] \notin {"read", "send", "close"} /\ ~CloseIn(chan["ag"], loop["ag"], wire["ag"])
    BY <1>1, Unanswered, Zenon
  <2>2. InOrder(chan["ag"], loop["ag"], wire["ag"], up["gw"], Coming("ag")')
    BY <2>1, NoneInOrder, Zenon
  <2> QED
    BY <1>1, <1>3, <1>4, <2>2, TwoEnds DEF Complete
<1> QED
  BY <1>6, <1>7, <1>8, <1>10, <1>11, <1>12, <1>13, <1>14 DEF RelayInv, Ends

\* The agent gives up before its relay, with a ws.error or without a word.
LEMMA AgentGivesUp ==
  ASSUME RelayInv, at["ag"] \in {"accept", "error"}, Goto("ag", "finish"),
         wire' \in [Ends -> Seq(Frames)], wire'["ag"] = wire["ag"],
         wire'["gw"] = wire["gw"] \/ wire'["gw"] = Append(wire["gw"], "error"),
         UNCHANGED <<done, loop, chan, reg, held, out, up, down, errs, conn, closed, owed>>
  PROVE  RelayInv'
<1>0. /\ TypeOK /\ Slots /\ Pumps /\ (closed \/ NoClose) /\ Handshake
      /\ \A x \in Ends : LastSent(x) /\ Complete(x)
  BY Zenon DEF RelayInv
<1>1. /\ at'["ag"] = "finish" /\ at'["gw"] = at["gw"] /\ at' \in [Ends -> Steps]
      /\ at["ag"] \in AgentBefore /\ at["ag"] \notin After
  BY <1>0, Goes, TwoEnds, Zenon DEF Steps, After, AgentBefore
<1>2. "error" \in Frames /\ wire["gw"] \in Seq(Frames) /\ up["ag"] = "off"
  BY <1>0, <1>1, TwoEnds, Unanswered, Zenon DEF Frames, TypeOK
<1>3. TypeOK'
  BY <1>0, <1>1, SMTT(30) DEF TypeOK, Steps, After
<1>4. Slots'
  BY <1>0, <1>1, Zenon DEF Slots, Ends
<1>5. Pumps'
  BY <1>0, <1>1 DEF Pumps, After, Ends
<1>6. CloseIn(chan["gw"], loop["gw"], wire'["gw"]) => CloseIn(chan["gw"], loop["gw"], wire["gw"])
  BY <1>2, SentClose, ZenonT(60)
<1>7. closed' \/ NoClose'
  BY <1>0, <1>1, <1>6, Zenon DEF NoClose, Ends
<1>8. Handshake'
  <2>1. Quiet("ag") => Quiet("ag")'
    BY DEF Quiet
  <2>2. at'["ag"] \notin AgentBefore
    BY <1>1 DEF AgentBefore
  <2> QED
    BY <1>0, <1>1, <2>1, <2>2, SMTT(30) DEF Handshake
<1>9. LastSent("gw")' /\ Complete("gw")'
  <2>1. Receives("gw")' => Receives("gw") /\ Coming("gw")' = Coming("gw")
    BY <1>1, Zenon DEF Receives, Coming
  <2>2. CASE wire'["gw"] = wire["gw"]
    BY <1>0, <1>1, <1>2, <2>1, <2>2, TwoEnds, FlowSame, Zenon
  <2>3. CASE wire'["gw"] = Append(wire["gw"], "error")
    <3>1. "error" # "close" /\ up'["ag"] \in {"cancel", "off", "done"}
      BY <1>2, SMTT(30)
    <3> QED
      BY <1>0, <1>1, <1>2, <2>1, <2>3, <3>1, TwoEnds, FlowTold, Zenon
  <2> QED
    BY <2>2, <2>3, Zenon
<1>10. LastSent("ag")' /\ Complete("ag")'
  <2>1. ~Receives("ag")'
    BY <1>1 DEF Receives
  <2> QED
    BY <1>0, <1>1, <2>1, TwoEnds, FlowSame
<1> QED
  BY <1>3, <1>4, <1>5, <1>7, <1>8, <1>9, <1>10, Zenon DEF RelayInv, Ends

\* Both outcomes of the write of the ws.accept.
LEMMA writeAcceptStep ==
  ASSUME RelayInv, writeAccept
  PROVE  RelayInv'
<1>1. CASE Sends("ag", "accept") /\ StartsRelay("ag")
  BY <1>1, AcceptSent
<1>2. CASE SendFails("ag", ctx["ag"]) /\ Goto("ag", "finish") /\ UNCHANGED <<up, down>>
  <2>1. /\ at["ag"] = "accept"
        /\ UNCHANGED <<wire, done, loop, chan, reg, held, out, up, down, errs, conn, closed, owed>>
    BY <1>2 DEF writeAccept, SendFails, session, socket
  <2>2. wire \in [Ends -> Seq(Frames)]
    BY DEF RelayInv, TypeOK
  <2> QED
    BY <1>2, <2>1, <2>2, AgentGivesUp
<1> QED
  BY <1>1, <1>2 DEF writeAccept

\* The ws.error after a dial that failed.
LEMMA sendWSErrorStep ==
  ASSUME RelayInv, sendWSError
  PROVE  RelayInv'
<1>1. /\ at["ag"] = "error" /\ Goto("ag", "finish")
      /\ UNCHANGED <<done, loop, chan, reg, held, out, up, down, errs, conn, closed, owed>>
  BY DEF sendWSError, session, pumps, socket
<1>2. /\ wire' \in [Ends -> Seq(Frames)] /\ wire'["ag"] = wire["ag"]
      /\ wire'["gw"] = wire["gw"] \/ wire'["gw"] = Append(wire["gw"], "error")
  <2>1. TypeOK /\ "error" \in Frames
    BY DEF RelayInv, Frames
  <2> QED
    BY <2>1, WireMoves, TwoEnds DEF sendWSError
<1> QED
  BY <1>1, <1>2, AgentGivesUp

\* The agent's handler returns; what its channel held is gone with it.
LEMMA handleWSStreamReturnsStep ==
  ASSUME RelayInv, handleWSStreamReturns
  PROVE  RelayInv'
<1>0. /\ TypeOK /\ Slots /\ Pumps /\ (closed \/ NoClose) /\ Handshake
      /\ \A x \in Ends : LastSent(x) /\ Complete(x)
  BY DEF RelayInv
<1>1. /\ at["ag"] = "finish" /\ out' = out /\ reg' = reg \ {"ag"} /\ held' = held
      /\ UNCHANGED <<wire, done, loop>>
  BY Zenon DEF handleWSStreamReturns, link
<1>2. /\ at' \in [Ends -> Steps] /\ at'["ag"] = "over" /\ at'["gw"] = at["gw"]
      /\ up'["ag"] = "off" /\ up'["gw"] = up["gw"]
      /\ down'["ag"] = "off" /\ down'["gw"] = down["gw"]
      /\ errs'["ag"] = <<>> /\ errs'["gw"] = errs["gw"]
      /\ conn'["ag"] = "closed" /\ conn'["gw"] = conn["gw"] /\ UNCHANGED <<closed, owed>>
  BY <1>1, Forgotten, TwoEnds, Zenon DEF handleWSStreamReturns
<1>3. chan' \in [Ends -> Seq(Frames)] /\ chan'["ag"] = <<>> /\ chan'["gw"] = chan["gw"]
  <2>1. <<>> \in Seq(Frames) /\ chan' = [chan EXCEPT !["ag"] = <<>>]
    BY DEF handleWSStreamReturns
  <2> QED
    BY <1>0, <2>1, TwoEnds DEF TypeOK
<1>4. TypeOK'
  <2>1. /\ up' \in [Ends -> {"off", "read", "send", "close", "cancel", "done"}]
        /\ down' \in [Ends -> {"off", "read", "write", "closing", "done"}]
        /\ errs' \in [Ends -> Seq(Results)]
        /\ conn' \in [Ends -> {"none", "open", "closing", "closed"}]
    BY <1>1, Forgotten, TwoEnds, Zenon DEF handleWSStreamReturns
  <2> QED
    BY <1>0, <1>1, <1>2, <1>3, <2>1, Zenon DEF TypeOK, Steps, After
<1>5. Slots'
  BY <1>0, <1>1, <1>2, Zenon DEF Slots, Ends
<1>6. Pumps'
  BY <1>0, <1>1, <1>2 DEF Pumps, After, Ends
<1>7. CloseIn(<<>>, loop["ag"], wire["ag"]) => CloseIn(chan["ag"], loop["ag"], wire["ag"])
  BY DEF CloseIn
<1>8. closed' \/ NoClose'
  BY <1>0, <1>1, <1>2, <1>3, <1>7, ZenonT(60) DEF NoClose, Ends
<1>9. Handshake'
  <2>1. at["ag"] \in After /\ at'["ag"] \in After /\ "msg" \in Frames
    BY <1>1, <1>2, Zenon DEF After, Frames
  <2>2. Quiet("ag") => Quiet("ag")'
    BY <1>1, <1>2, <1>3 DEF Quiet
  <2> QED
    BY <1>0, <1>1, <1>2, <2>1, <2>2, TwoEnds, HandshakeOn, ZenonT(60)
<1>10. at'["ag"] \in After /\ ~Receives("ag")'
  BY <1>2, Zenon DEF After, Receives
<1>11. LastSent("ag")' /\ Complete("ag")'
  BY <1>0, <1>1, <1>2, <1>3, <1>7, <1>10, TwoEnds, ZenonT(30) DEF LastSent, Complete
<1>12. LastSent("gw")' /\ Complete("gw")'
  <2>1. Receives("gw")' => Receives("gw") /\ Coming("gw")' = Coming("gw")
    BY <1>1, <1>2, SMTT(30) DEF Receives, Coming
  <2> QED
    BY <1>0, <1>1, <1>2, <1>3, <1>10, <2>1, TwoEnds, FlowSame, Zenon
<1> QED
  BY <1>4, <1>5, <1>6, <1>8, <1>9, <1>11, <1>12 DEF RelayInv, Ends

-------------------------------------------------------------------------------
(* The steps of the loops *)

\* The ws.open comes to the agent: it was all there was on the wire.
LEMMA serveWSOpenStep ==
  ASSUME RelayInv, serveWSOpen
  PROVE  RelayInv'
<1>0. /\ TypeOK /\ Slots /\ Pumps /\ (closed \/ NoClose) /\ Handshake
      /\ \A x \in Ends : LastSent(x) /\ Complete(x)
  BY DEF RelayInv
<1>1. /\ wire["ag"] # <<>> /\ Head(wire["ag"]) = "open" /\ loop["ag"] = Reading
      /\ wire' = [wire EXCEPT !["ag"] = Tail(@)] /\ reg' = reg \cup {"ag"}
      /\ UNCHANGED <<done, loop, chan, held, out, up, down, errs, conn, closed, owed>>
  BY DEF serveWSOpen, pumps, socket
<1>2. at'["ag"] = "dial" /\ at'["gw"] = at["gw"] /\ at' \in [Ends -> Steps]
  BY <1>0, Goes, TwoEnds, Zenon DEF serveWSOpen, Steps, AgentBefore
<1>3. /\ wire' \in [Ends -> Seq(Frames)] /\ wire'["ag"] = Tail(wire["ag"])
      /\ wire'["gw"] = wire["gw"] /\ wire["ag"] \in Seq(Frames)
  BY <1>0, <1>1, TakenFrom, TwoEnds DEF TypeOK
<1>4. /\ wire["ag"][1] = "open" /\ Len(wire["ag"]) \in Nat /\ Len(wire["ag"]) >= 1
      /\ Len(wire'["ag"]) = Len(wire["ag"]) - 1 /\ wire'["ag"] \in Seq(Frames)
  BY <1>1, <1>3, Taken
<1>5. at["ag"] = "idle" /\ Len(wire["ag"]) = 1
  BY <1>0, <1>4 DEF Handshake
<1>6. wire'["ag"] = <<>>
  BY <1>4, <1>5
<1>7. TypeOK'
  BY <1>0, <1>1, <1>2, <1>3, TwoEnds, ZenonT(60) DEF TypeOK, Steps, AgentBefore
<1>8. Slots'
  BY <1>0, <1>1, <1>2, <1>5, Zenon DEF Slots, Ends
<1>9. Pumps'
  BY <1>0, <1>1, <1>2, <1>5 DEF Pumps, After, Ends
<1>10. CloseIn(chan["ag"], loop["ag"], wire'["ag"]) => CloseIn(chan["ag"], loop["ag"], wire["ag"])
  BY <1>6 DEF CloseIn
<1>11. closed' \/ NoClose'
  BY <1>0, <1>1, <1>3, <1>10, Zenon DEF NoClose, Ends
<1>12. Handshake'
  <2>1. at["gw"] \notin {"idle", "open"}
    BY <1>0, <1>1, Zenon DEF Handshake
  <2>2. (Quiet("gw") => Quiet("gw")') /\ (Quiet("ag") => Quiet("ag")')
    BY <1>1, Zenon DEF Quiet
  <2>3. 1 .. Len(wire'["ag"]) = {}
    BY <1>6
  <2>4. /\ at'["ag"] \in AgentBefore /\ at["ag"] \in AgentBefore
        /\ at'["gw"] \notin {"idle", "open"}
    BY <1>2, <1>5, <2>1 DEF AgentBefore
  <2> QED
    BY <1>0, <1>2, <1>3, <1>6, <2>2, <2>3, <2>4, Zenon DEF Handshake
<1>13. at["ag"] \notin After /\ ~Receives("ag")'
  BY <1>2, <1>5, Zenon DEF After, Receives
<1>14. LastSent("ag")' /\ Complete("ag")'
  BY <1>0, <1>1, <1>2, <1>10, <1>13, TwoEnds, Zenon DEF LastSent, Complete
<1>15. LastSent("gw")' /\ Complete("gw")'
  <2>1. Receives("gw")' => Receives("gw") /\ Coming("gw")' = Coming("gw")
    BY <1>1, <1>2, Zenon DEF Receives, Coming
  <2> QED
    BY <1>0, <1>1, <1>2, <1>3, <1>13, <2>1, TwoEnds, FlowSame, Zenon
<1> QED
  BY <1>7, <1>8, <1>9, <1>11, <1>12, <1>14, <1>15 DEF RelayInv, Ends

\* An open frame is alone on its wire, so behind another frame there is none.
LEMMA NoOpenLeft ==
  ASSUME NEW S, NEW s \in Seq(S), s # <<>>, Head(s) # "open",
         \A i \in 1 .. Len(s) : s[i] = "open" => Len(s) = 1
  PROVE  s # <<"open">> /\ \A i \in 1 .. Len(Tail(s)) : Tail(s)[i] # "open"
<1>1. s # <<"open">>
  OBVIOUS
<1>2. Len(s) \in Nat /\ Len(s) >= 1 /\ s[1] # "open"
  OBVIOUS
<1>3. \A i \in 1 .. Len(s) : s[i] # "open"
  BY <1>2
<1>4. Len(Tail(s)) = Len(s) - 1 /\ \A i \in 1 .. Len(s) - 1 : Tail(s)[i] = s[i + 1]
  OBVIOUS
<1> QED BY <1>1, <1>2, <1>3, <1>4

\* A loop moves frames for an end that the other has been told about, or has heard.
LEMMA HandshakeLoop ==
  ASSUME TypeOK, Handshake, NEW e \in Ends, NEW o \in Ends, o = Other(e),
         UNCHANGED <<at, owed, down>>, chan'[o] = chan[o], loop'[o] = loop[o], wire'[o] = wire[o],
         \/ loop[e].at = "deliver" /\ wire'[e] = wire[e]
         \/ wire[e] # <<>> /\ Head(wire[e]) # "open" /\ wire'[e] = Tail(wire[e])
  PROVE  Handshake'
<1>1. (e = "gw" /\ o = "ag") \/ (e = "ag" /\ o = "gw")
  BY TwoEnds, Zenon DEF Ends
<1>2. CASE e = "gw" /\ o = "ag"
  <2>1. at["ag"] \notin AgentBefore
    BY <1>2, Zenon DEF Handshake, Quiet
  <2>2. Quiet("ag") => Quiet("ag")'
    BY <1>2 DEF Quiet
  <2> QED
    BY <1>2, <2>1, <2>2, ZenonT(30) DEF Handshake
<1>3. CASE e = "ag" /\ o = "gw"
  <2>1. CASE loop["ag"].at = "deliver" /\ wire'["ag"] = wire["ag"]
    <3>1. at["gw"] \notin GatewayBefore
      BY <2>1, Zenon DEF Handshake, Quiet
    <3>2. Quiet("gw") => Quiet("gw")'
      BY <1>3, Zenon DEF Quiet
    <3> QED
      BY <1>3, <2>1, <3>1, <3>2, Zenon DEF Handshake, GatewayBefore
  <2>2. CASE wire["ag"] # <<>> /\ Head(wire["ag"]) # "open" /\ wire'["ag"] = Tail(wire["ag"])
    <3>0. wire["ag"] \in Seq(Frames)
      BY TwoEnds, Zenon DEF TypeOK
    <3>1. \A i \in 1 .. Len(wire["ag"]) : wire["ag"][i] = "open" => Len(wire["ag"]) = 1
      BY Zenon DEF Handshake
    <3>2. wire["ag"] # <<"open">> /\ \A i \in 1 .. Len(Tail(wire["ag"])) : Tail(wire["ag"])[i] # "open"
      BY <2>2, <3>0, <3>1, NoOpenLeft, Zenon
    <3>3. \A i \in 1 .. Len(wire'["ag"]) : wire'["ag"][i] # "open"
      BY <2>2, <3>2, Zenon
    <3>4. at["gw"] \notin {"idle", "open", "await", "accept"}
      BY <2>2, <3>2, ZenonT(30) DEF Handshake
    <3>5. Quiet("gw") => Quiet("gw")'
      BY <1>3, ZenonT(30) DEF Quiet
    <3> QED
      BY <1>3, <3>3, <3>4, <3>5, ZenonT(60) DEF Handshake, GatewayBefore
  <2> QED
    BY <1>3, <2>1, <2>2, Zenon
<1> QED
  BY <1>1, <1>2, <1>3, Zenon

\* An end that is not registered takes nothing.
LEMMA Unregistered ==
  ASSUME Slots, NEW e \in Ends, e \notin reg
  PROVE  ~Receives(e)
BY Zenon DEF Slots, Receives, Ends

\* What a step of the loop of e must show: the rest of the state does not move.
LEMMA LoopOn ==
  ASSUME RelayInv, NEW e \in Ends, NEW o \in Ends, o = Other(e),
         UNCHANGED <<reg, held, at, out, up, down, errs, conn, closed, owed>>, done => done',
         wire' \in [Ends -> Seq(Frames)], chan' \in [Ends -> Seq(Frames)], loop' \in [Ends -> Loops],
         chan'[o] = chan[o], loop'[o] = loop[o], wire'[o] = wire[o],
         CloseIn(chan'[e], loop'[e], wire'[e]) => CloseIn(chan[e], loop[e], wire[e]),
         Receives(e)' => InOrder(chan'[e], loop'[e], wire'[e], up[o], Coming(e)),
         Handshake'
  PROVE  RelayInv'
<1>0. /\ TypeOK /\ Slots /\ Pumps /\ (closed \/ NoClose)
      /\ \A x \in Ends : LastSent(x) /\ Complete(x)
  BY ZenonT(30) DEF RelayInv
<1>1. TypeOK' /\ Slots' /\ Pumps'
  <2>1. TypeOK'
    BY <1>0, ZenonT(30) DEF TypeOK, Loops
  <2> QED
    BY <1>0, <2>1, SlotsSame, PumpsSame, Zenon
<1>2. \A x \in Ends : x = e \/ x = o
  BY TwoEnds
<1>3. closed' \/ NoClose'
  <2>1. \A x \in Ends : CloseIn(chan'[x], loop'[x], wire'[x]) => CloseIn(chan[x], loop[x], wire[x])
    BY <1>2, Zenon
  <2> QED
    BY <1>0, <2>1, Zenon DEF NoClose
<1>4. LastSent(e)'
  BY <1>0, Zenon DEF LastSent
<1>5. Complete(e)'
  <2>1. Coming(e)' = Coming(e)
    BY ZenonT(30) DEF Coming
  <2> QED
    BY <2>1, ZenonT(30) DEF Complete
<1>6. LastSent(o)' /\ Complete(o)'
  <2>1. Receives(o)' => Receives(o) /\ Coming(o)' = Coming(o)
    BY Zenon DEF Receives, Coming
  <2>2. e = Other(o)
    BY TwoEnds, Zenon
  <2> QED
    BY <1>0, <2>1, <2>2, FlowSame, Zenon
<1> QED
  BY <1>1, <1>2, <1>3, <1>4, <1>5, <1>6, ZenonT(30) DEF RelayInv

\* The loop of e takes a frame off the wire.
LEMMA readLoopReadsStep ==
  ASSUME RelayInv, NEW e \in Ends, readLoopReads(e)
  PROVE  RelayInv'
<1> DEFINE o == Other(e)
           f == Head(wire[e])
<1>0. TypeOK /\ Slots /\ Handshake /\ Complete(e)
  BY Zenon DEF RelayInv
<1>1. /\ loop[e] = Reading /\ wire[e] # <<>> /\ f # "open"
      /\ wire' = [wire EXCEPT ![e] = Tail(@)]
      /\ UNCHANGED <<done, reg, held, at, out, up, down, errs, conn, closed, owed>>
      /\ \/ e \notin reg /\ UNCHANGED <<chan, loop>>
         \/ chan' = [chan EXCEPT ![e] = Append(chan[e], f)] /\ loop' = loop
         \/ loop' = [loop EXCEPT ![e] = Delivering(f)] /\ chan' = chan
  BY DEF readLoopReads, pumps, socket
<1>2. /\ wire' \in [Ends -> Seq(Frames)] /\ wire'[e] = Tail(wire[e]) /\ wire'[o] = wire[o]
      /\ f \in Frames
  <2>1. wire \in [Ends -> Seq(Frames)]
    BY <1>0, Zenon DEF TypeOK
  <2>2. wire' = [wire EXCEPT ![e] = Tail(wire[e])] /\ o \in Ends /\ o # e
    BY <1>1, TwoEnds, Zenon
  <2>3. Head(wire[e]) \in Frames /\ Tail(wire[e]) \in Seq(Frames)
    BY <1>1, <2>1, Taken, Zenon
  <2> QED
    BY <2>1, <2>2, <2>3, Zenon
<1>3. /\ o \in Ends /\ o # e /\ chan[e] \in Seq(Frames) /\ wire[e] \in Seq(Frames)
      /\ chan \in [Ends -> Seq(Frames)] /\ loop \in [Ends -> Loops] /\ owed[o] \in Int
  BY <1>0, TwoEnds, Zenon DEF TypeOK, Loops
<1>4. Coming(e) \in Int
  BY <1>3, SMTT(30) DEF Coming
<1>5. loop[e] \in Loops /\ loop[e].at # "deliver" /\ Delivering(f) \in Loops
  BY <1>1, <1>2, LoopParts
<1>6. Receives(e)' => Receives(e)
  BY <1>1, Zenon DEF Receives
<1>7. Receives(e) => InOrder(chan[e], loop[e], wire[e], up[o], Coming(e))
  BY <1>0, Zenon DEF Complete
<1> HIDE DEF f, o
<1>8. Append(chan[e], f) \in Seq(Frames)
  BY <1>2, <1>3, Appended, Zenon
<1>9. /\ chan' \in [Ends -> Seq(Frames)] /\ chan'[o] = chan[o]
      /\ loop' \in [Ends -> Loops] /\ loop'[o] = loop[o]
      /\ \/ e \notin reg /\ chan'[e] = chan[e] /\ loop'[e] = loop[e]
         \/ chan'[e] = Append(chan[e], f) /\ loop'[e] = loop[e]
         \/ chan'[e] = chan[e] /\ loop'[e] = Delivering(f)
  <2>1. CASE e \notin reg /\ UNCHANGED <<chan, loop>>
    BY <1>3, <2>1, Zenon
  <2>2. CASE chan' = [chan EXCEPT ![e] = Append(chan[e], f)] /\ loop' = loop
    BY <1>3, <1>8, <2>2, Zenon
  <2>3. CASE loop' = [loop EXCEPT ![e] = Delivering(f)] /\ chan' = chan
    BY <1>3, <1>5, <2>3, Zenon
  <2> QED
    BY <1>1, <2>1, <2>2, <2>3, ZenonT(30)
<1>10. CloseIn(chan'[e], loop'[e], wire'[e]) => CloseIn(chan[e], loop[e], wire[e])
  <2>1. /\ CloseIn(chan[e], loop[e], Tail(wire[e])) => CloseIn(chan[e], loop[e], wire[e])
        /\ CloseIn(Append(chan[e], f), loop[e], Tail(wire[e])) => CloseIn(chan[e], loop[e], wire[e])
        /\ CloseIn(chan[e], Delivering(f), Tail(wire[e])) => CloseIn(chan[e], loop[e], wire[e])
    BY <1>1, <1>3, <1>4, <1>5, ReadFrame, ZenonT(30) DEF f
  <2> QED
    BY <1>2, <1>9, <2>1, ZenonT(30)
<1>11. Receives(e)' => InOrder(chan'[e], loop'[e], wire'[e], up[o], Coming(e))
  <2> SUFFICES ASSUME Receives(e)'
               PROVE  InOrder(chan'[e], loop'[e], wire'[e], up[o], Coming(e))
    BY ZenonT(30)
  <2>1. InOrder(chan[e], loop[e], wire[e], up[o], Coming(e)) /\ e \in reg
    BY <1>0, <1>6, <1>7, Unregistered, Zenon
  <2>2. /\ InOrder(Append(chan[e], f), loop[e], Tail(wire[e]), up[o], Coming(e))
        /\ InOrder(chan[e], Delivering(f), Tail(wire[e]), up[o], Coming(e))
    BY <1>1, <1>3, <1>4, <1>5, <2>1, ReadFrame, ZenonT(30) DEF f
  <2> QED
    BY <1>2, <1>9, <2>1, <2>2, Zenon
<1>12. Handshake'
  BY <1>0, <1>1, <1>2, <1>3, <1>9, HandshakeLoop, Zenon DEF f, o
<1> QED
  BY <1>1, <1>2, <1>3, <1>9, <1>10, <1>11, <1>12, LoopOn, Zenon DEF o

\* The loop of e hands over the frame it holds, or gives it up.
LEMMA deliverStep ==
  ASSUME RelayInv, NEW e \in Ends, deliver(e)
  PROVE  RelayInv'
<1> DEFINE o == Other(e)
           f == loop[e].f
<1>0. TypeOK /\ Slots /\ Handshake /\ Complete(e)
  BY DEF RelayInv
<1>1. /\ loop[e].at = "deliver" /\ loop' = [loop EXCEPT ![e] = Reading]
      /\ UNCHANGED <<wire, done, reg, held, at, out, up, down, errs, conn, closed, owed>>
      /\ \/ chan' = [chan EXCEPT ![e] = Append(chan[e], f)]
         \/ ((e = "gw" /\ done) \/ e \notin reg) /\ chan' = chan
  BY TwoEnds DEF deliver, link, pumps, socket, Ends
<1>3. /\ o \in Ends /\ o # e /\ chan[e] \in Seq(Frames) /\ wire[e] \in Seq(Frames)
      /\ chan \in [Ends -> Seq(Frames)] /\ wire \in [Ends -> Seq(Frames)]
      /\ loop \in [Ends -> Loops] /\ owed[o] \in Int
  BY <1>0, TwoEnds, Zenon DEF TypeOK, Loops
<1>4. Coming(e) \in Int
  BY <1>3 DEF Coming
<1>5. f \in Frames /\ loop[e] = Delivering(f) /\ Reading \in Loops
  BY <1>1, <1>3, LoopParts
<1>6. Receives(e)' => Receives(e) /\ ~(e = "gw" /\ done)
  BY <1>1, Zenon DEF Receives
<1>7. Receives(e) => InOrder(chan[e], loop[e], wire[e], up[o], Coming(e))
  BY <1>0 DEF Complete
<1> HIDE DEF f, o
<1>8. Append(chan[e], f) \in Seq(Frames)
  BY <1>3, <1>5, Appended, Zenon
<1>9. loop' \in [Ends -> Loops] /\ loop'[o] = loop[o] /\ loop'[e] = Reading
  BY <1>1, <1>3, <1>5, Zenon
<1>10. /\ chan' \in [Ends -> Seq(Frames)] /\ chan'[o] = chan[o]
       /\ \/ chan'[e] = Append(chan[e], f)
          \/ ((e = "gw" /\ done) \/ e \notin reg) /\ chan'[e] = chan[e]
  <2>1. CASE chan' = [chan EXCEPT ![e] = Append(chan[e], f)]
    BY <1>3, <1>8, <2>1
  <2>2. CASE ((e = "gw" /\ done) \/ e \notin reg) /\ chan' = chan
    BY <1>3, <2>2, Zenon
  <2> QED
    BY <1>1, <2>1, <2>2
<1>11. CloseIn(chan'[e], loop'[e], wire'[e]) => CloseIn(chan[e], loop[e], wire[e])
  <2>1. /\ CloseIn(chan[e], Reading, wire[e]) => CloseIn(chan[e], Delivering(f), wire[e])
        /\ CloseIn(Append(chan[e], f), Reading, wire[e]) => CloseIn(chan[e], Delivering(f), wire[e])
    BY <1>3, <1>4, <1>5, HandedOver, Zenon
  <2> QED
    BY <1>1, <1>5, <1>9, <1>10, <2>1, Zenon
<1>12. Receives(e)' => InOrder(chan'[e], loop'[e], wire'[e], up[o], Coming(e))
  <2> SUFFICES ASSUME Receives(e)'
               PROVE  InOrder(chan'[e], loop'[e], wire'[e], up[o], Coming(e))
    OBVIOUS
  <2>1. /\ InOrder(chan[e], Delivering(f), wire[e], up[o], Coming(e))
        /\ e \in reg /\ ~(e = "gw" /\ done)
    BY <1>0, <1>5, <1>6, <1>7, Unregistered, SMTT(30)
  <2>2. InOrder(Append(chan[e], f), Reading, wire[e], up[o], Coming(e))
    BY <1>3, <1>4, <1>5, <2>1, HandedOver
  <2> QED
    BY <1>1, <1>9, <1>10, <2>1, <2>2, Zenon
<1>13. Handshake'
  BY <1>0, <1>1, <1>3, <1>9, <1>10, HandshakeLoop, Zenon DEF o
<1> QED
  BY <1>1, <1>3, <1>9, <1>10, <1>11, <1>12, <1>13, LoopOn, Zenon DEF o

\* A loop that has stopped holds nothing, as one that reads.
LEMMA LoopStopped ==
  ASSUME NEW c, NEW w, NEW u, NEW n
  PROVE  /\ CloseIn(c, Stopped, w) => CloseIn(c, Reading, w)
         /\ InOrder(c, Reading, w, u, n) => InOrder(c, Stopped, w, u, n)
<1>1. Reading.at = "read" /\ Stopped.at = "stopped" /\ Delivering("close").at = "deliver"
  BY LoopParts DEF Frames
<1>2. /\ InLoop(Stopped) = 0 /\ InLoop(Reading) = 0
      /\ Stopped # Delivering("close") /\ Reading # Delivering("close")
  BY <1>1, Zenon DEF InLoop
<1> QED
  BY <1>2 DEF CloseIn, InOrder

\* A loop stops when the connection is gone.
LEMMA StopsStep ==
  ASSUME RelayInv, readLoopStops \/ serveStops
  PROVE  RelayInv'
<1>0. TypeOK /\ Handshake /\ \A x \in Ends : Complete(x)
  BY DEF RelayInv
<1>1. PICK e \in Ends : /\ loop[e] = Reading /\ loop' = [loop EXCEPT ![e] = Stopped]
                        /\ UNCHANGED <<wire, chan, reg, held, at, out, up, down, errs, conn, closed, owed>>
                        /\ done => done'
  BY TwoEnds DEF readLoopStops, serveStops, link, pumps, socket
<1> DEFINE o == Other(e)
<1>2. /\ o \in Ends /\ o # e /\ chan \in [Ends -> Seq(Frames)] /\ wire \in [Ends -> Seq(Frames)]
      /\ loop \in [Ends -> Loops] /\ Stopped \in Loops
  BY <1>0, TwoEnds, LoopParts, Zenon DEF TypeOK, Loops
<1>3. loop' \in [Ends -> Loops] /\ loop'[o] = loop[o] /\ loop'[e] = Stopped
  BY <1>1, <1>2, Zenon
<1>4. CloseIn(chan'[e], loop'[e], wire'[e]) => CloseIn(chan[e], loop[e], wire[e])
  BY <1>1, <1>3, LoopStopped, Zenon
<1>5. Receives(e)' => InOrder(chan'[e], loop'[e], wire'[e], up[o], Coming(e))
  <2>1. Receives(e)' => Receives(e)
    BY <1>1, Zenon DEF Receives
  <2>2. Receives(e) => InOrder(chan[e], Reading, wire[e], up[o], Coming(e))
    BY <1>0, <1>1, Zenon DEF Complete
  <2> QED
    BY <1>1, <1>3, <2>1, <2>2, LoopStopped, Zenon
<1>6. Handshake'
  <2>1. \A x \in Ends : loop'[x].at = "deliver" => loop[x].at = "deliver"
    BY <1>1, <1>2, <1>3, TwoEnds, LoopParts, ZenonT(60)
  <2>2. \A x \in Ends : Quiet(x) => Quiet(x)'
    BY <1>1, <2>1, Zenon DEF Quiet
  <2> QED
    BY <1>0, <1>1, <2>2, TwoEnds, Zenon DEF Handshake
<1> QED
  BY <1>1, <1>2, <1>3, <1>4, <1>5, <1>6, LoopOn, Zenon

-------------------------------------------------------------------------------
(* The steps of the pumps *)

\* A pump that is at work belongs to a relay that has not ended; the gateway's starts
\* only after the agent's.
LEMMA AtWork ==
  ASSUME RelayInv, NEW e \in Ends, up[e] \notin {"off", "done"} \/ down[e] \notin {"off", "done"}
  PROVE  /\ at[e] \in {"relay", "drain"} /\ at[e] \in After
         /\ up[e] # "off" /\ down[e] # "off" /\ Len(errs[e]) = Returned(up[e]) + Returned(down[e])
         /\ e = "gw" => at[Other(e)] \in After
<1>0. TypeOK /\ Pumps /\ Handshake
  BY Zenon DEF RelayInv
<1>1. at[e] \in {"relay", "drain"}
  BY <1>0, Zenon DEF Pumps
<1>2. e = "gw" => at[Other(e)] \in After
  BY <1>0, <1>1, TwoEnds, Zenon DEF Handshake, TypeOK
<1> QED
  BY <1>0, <1>1, <1>2, Zenon DEF Pumps, After

\* What a step of a pump of e must show.
LEMMA PumpOn ==
  ASSUME RelayInv, NEW e \in Ends, NEW o \in Ends, o = Other(e), NEW f \in Frames, f # "open",
         up[e] \notin {"off", "done"} \/ down[e] \notin {"off", "done"},
         UNCHANGED <<loop, reg, held, at, out>>, TypeOK',
         up'[o] = up[o], down'[o] = down[o], errs'[o] = errs[o], conn'[o] = conn[o],
         up'[e] # "off", down'[e] # "off", Len(errs'[e]) = Returned(up'[e]) + Returned(down'[e]),
         wire'[e] = wire[e], wire'[o] = wire[o] \/ wire'[o] = Append(wire[o], f),
         Quiet(e) => Quiet(e)', closed' \/ NoClose',
         LastSent(e)', Complete(e)', LastSent(o)', Complete(o)'
  PROVE  RelayInv'
<1>0. TypeOK /\ Slots /\ Pumps /\ Handshake
  BY ZenonT(30) DEF RelayInv
<1>1. /\ at[e] \in {"relay", "drain"} /\ at[e] \in After
      /\ e = "gw" => at[Other(e)] \in After
  BY AtWork, Zenon
<1>2. \A x \in Ends : x = e \/ x = o
  BY TwoEnds, Zenon
<1>3. Slots'
  BY <1>0, <1>1, <1>2, ZenonT(30) DEF Slots
<1>4. Pumps'
  BY <1>0, <1>1, <1>2, ZenonT(60) DEF Pumps
<1>5. Handshake'
  BY <1>0, <1>1, HandshakeOn, Zenon
<1> QED
  BY <1>2, <1>3, <1>4, <1>5, Zenon DEF RelayInv

\* What keeps NoClose: whatever would break it needs a peer that has closed.
LEMMA NoCloseOn ==
  ASSUME closed \/ NoClose, closed => closed', out' = out,
         \A i \in 1 .. Len(errs'["gw"]) : errs'["gw"][i] = "nil" => closed',
         \A x \in Ends :
           /\ CloseIn(chan'[x], loop'[x], wire'[x]) => CloseIn(chan[x], loop[x], wire[x]) \/ closed'
           /\ up'[x] = "close" => up[x] = "close" \/ closed'
           /\ down'[x] = "closing" => down[x] = "closing" \/ closed'
           /\ conn'[x] = "closing" => conn[x] = "closing" \/ closed'
  PROVE  closed' \/ NoClose'
BY ZenonT(30) DEF NoClose

\* No nil is among the results unless a peer has closed.
LEMMA NilMeansClosed ==
  ASSUME closed \/ NoClose, errs' = errs
  PROVE  \A i \in 1 .. Len(errs'["gw"]) : errs'["gw"][i] = "nil" => closed
BY Zenon DEF NoClose

LEMMA NilMeansClosedOn ==
  ASSUME TypeOK, closed \/ NoClose, NEW e \in Ends, NEW err \in Results, err = "nil" => closed,
         errs' = [errs EXCEPT ![e] = Append(@, IF e = "ag" THEN "any" ELSE err)]
  PROVE  /\ errs' \in [Ends -> Seq(Results)] /\ errs'[Other(e)] = errs[Other(e)]
         /\ Len(errs'[e]) = Len(errs[e]) + 1
         /\ \A i \in 1 .. Len(errs'["gw"]) : errs'["gw"][i] = "nil" => closed
<1> DEFINE r == IF e = "ag" THEN "any" ELSE err
<1>1. errs \in [Ends -> Seq(Results)] /\ errs[e] \in Seq(Results) /\ r \in Results
  BY Zenon DEF TypeOK, Results
<1>2. /\ errs' \in [Ends -> Seq(Results)] /\ errs'[Other(e)] = errs[Other(e)]
      /\ Len(errs'[e]) = Len(errs[e]) + 1
      /\ \A i \in 1 .. Len(errs[e]) : errs'[e][i] = errs[e][i]
      /\ errs'[e][Len(errs[e]) + 1] = r
  <2>1. errs' = [errs EXCEPT ![e] = Append(errs[e], r)]
    OBVIOUS
  <2> HIDE DEF r
  <2>2. /\ Append(errs[e], r) \in Seq(Results)
        /\ Len(Append(errs[e], r)) = Len(errs[e]) + 1
        /\ \A i \in 1 .. Len(errs[e]) : Append(errs[e], r)[i] = errs[e][i]
        /\ Append(errs[e], r)[Len(errs[e]) + 1] = r
    BY <1>1
  <2>3. /\ errs' \in [Ends -> Seq(Results)] /\ errs'[e] = Append(errs[e], r)
        /\ errs'[Other(e)] = errs[Other(e)]
    BY <1>1, <2>1, <2>2, TwoEnds
  <2> QED
    BY <2>2, <2>3, Zenon
<1>3. \A i \in 1 .. Len(errs["gw"]) : errs["gw"][i] = "nil" => closed
  BY DEF NoClose
<1>4. ASSUME NEW i \in 1 .. Len(errs'["gw"]), errs'["gw"][i] = "nil" PROVE closed
  <2>1. CASE e = "gw"
    <3>1. errs["gw"] \in Seq(Results) /\ Len(errs["gw"]) \in Nat
      BY <1>1, TwoEnds
    <3>2. i \in 1 .. Len(errs["gw"]) \/ i = Len(errs["gw"]) + 1
      BY <1>2, <1>4, <2>1, <3>1
    <3>3. e # "ag"
      BY <2>1, Zenon
    <3> QED
      BY <1>2, <1>3, <1>4, <2>1, <3>2, <3>3, Zenon
  <2>2. CASE e = "ag"
    BY <1>2, <1>3, <1>4, <2>2, TwoEnds, Zenon
  <2> QED
    BY <2>1, <2>2 DEF Ends
<1> QED
  BY <1>2, <1>4, Zenon

\* A message is read from the peer of e.
LEMMA MessageRead ==
  ASSUME RelayInv, NEW e \in Ends, up[e] = "read", ReadsMessage(e),
         up' = [up EXCEPT ![e] = "send"],
         UNCHANGED <<wire, done, loop, chan, reg, held, at, out, down, errs>>
  PROVE  RelayInv'
<1> DEFINE o == Other(e)
<1>0. /\ TypeOK /\ (closed \/ NoClose)
      /\ \A x \in Ends : LastSent(x) /\ Complete(x)
  BY Zenon DEF RelayInv
<1>1. /\ o \in Ends /\ o # e /\ Other(o) = e
      /\ \A x \in Ends : x = e \/ x = o
  BY TwoEnds, Zenon
<1>2. /\ up' \in [Ends -> {"off", "read", "send", "close", "cancel", "done"}]
      /\ up'[e] = "send" /\ up'[o] = up[o]
  BY <1>0, <1>1, Zenon DEF TypeOK
<1>3. /\ owed' \in [Ends -> Int] /\ owed'[e] = owed[e] + 1 /\ owed'[o] = owed[o]
      /\ owed[e] \in Int /\ UNCHANGED <<conn, closed>>
  <2>1. owed' = [owed EXCEPT ![e] = owed[e] + 1] /\ UNCHANGED <<conn, closed>>
    BY Zenon DEF ReadsMessage
  <2>2. owed \in [Ends -> Int]
    BY <1>0, Zenon DEF TypeOK
  <2>3. owed[e] \in Int /\ owed[e] + 1 \in Int
    BY <2>2
  <2> QED
    BY <1>1, <2>1, <2>2, <2>3, Zenon
<1> HIDE DEF o
<1>4. TypeOK'
  BY <1>0, <1>2, <1>3, Zenon DEF TypeOK
<1>5. /\ up'[e] # "off" /\ down'[e] # "off"
      /\ Len(errs'[e]) = Returned(up'[e]) + Returned(down'[e])
  BY <1>2, AtWork DEF Returned
<1>6. Quiet(e) => Quiet(e)'
  BY <1>3, ZenonT(30) DEF Quiet, o
<1>7. closed' \/ NoClose'
  <2>1. \A x \in Ends : up'[x] = "close" => up[x] = "close"
    BY <1>1, <1>2, Zenon
  <2> QED
    BY <1>0, <1>3, <2>1, NilMeansClosed, NoCloseOn, Zenon
<1>8. LastSent(e)' /\ Complete(e)'
  <2>1. Receives(e)' => Receives(e) /\ Coming(e)' = Coming(e)
    BY <1>3, Zenon DEF Receives, Coming, o
  <2> QED
    BY <1>0, <1>1, <1>2, <2>1, FlowSame, Zenon DEF o
<1>9. ~CloseIn(chan[o], loop[o], wire[o])
  BY <1>0, <1>1, Zenon DEF LastSent
<1>10. LastSent(o)'
  BY <1>9, Zenon DEF LastSent
<1>11. Complete(o)'
  <2> SUFFICES ASSUME Receives(o)'
               PROVE  InOrder(chan[o], loop[o], wire[o], "send", Coming(o)')
    BY <1>1, <1>2, Zenon DEF Complete
  <2>1. Receives(o)
    BY Zenon DEF Receives
  <2>2. InOrder(chan[o], loop[o], wire[o], "read", Coming(o))
    BY <1>0, <1>1, <2>1, ZenonT(30) DEF Complete
  <2>3. Coming(o) \in Int /\ Coming(o)' = Coming(o) + 1
    BY <1>1, <1>3 DEF Coming
  <2>4. chan[o] \in Seq(Frames) /\ wire[o] \in Seq(Frames) /\ loop[o] \in Loops
    BY <1>0, <1>1, Zenon DEF TypeOK, Loops
  <2> QED
    BY <1>9, <2>2, <2>3, <2>4, PumpMoved, ZenonT(30)
<1> QED
  <2>1. "msg" \in Frames /\ "msg" # "open"
    BY DEF Frames
  <2> QED
    BY <1>1, <1>2, <1>3, <1>4, <1>5, <1>6, <1>7, <1>8, <1>10, <1>11, <2>1, PumpOn, Zenon DEF o

\* The peer of e closes: the pump is to pass it on.
LEMMA CloseRead ==
  ASSUME RelayInv, NEW e \in Ends, up[e] = "read", ReadsClose(e),
         up' = [up EXCEPT ![e] = "close"],
         UNCHANGED <<wire, done, loop, chan, reg, held, at, out, down, errs>>
  PROVE  RelayInv'
<1> DEFINE o == Other(e)
<1>0. /\ TypeOK /\ (closed \/ NoClose)
      /\ \A x \in Ends : LastSent(x) /\ Complete(x)
  BY DEF RelayInv
<1>1. /\ o \in Ends /\ o # e /\ Other(o) = e
      /\ \A x \in Ends : x = e \/ x = o
  BY TwoEnds, Zenon
<1>2. /\ up' \in [Ends -> {"off", "read", "send", "close", "cancel", "done"}]
      /\ up'[e] = "close" /\ up'[o] = up[o]
  BY <1>0, <1>1, Zenon DEF TypeOK
<1>3. /\ conn' \in [Ends -> {"none", "open", "closing", "closed"}] /\ conn'[o] = conn[o]
      /\ conn'[e] = "closed" /\ owed' = owed /\ conn[e] \in {"open", "closing"}
      /\ closed' = (closed \/ conn[e] = "open")
  BY <1>0, <1>1, Zenon DEF TypeOK, ReadsClose
<1> HIDE DEF o
<1>4. TypeOK'
  BY <1>0, <1>2, <1>3, Zenon DEF TypeOK
<1>5. /\ up'[e] # "off" /\ down'[e] # "off"
      /\ Len(errs'[e]) = Returned(up'[e]) + Returned(down'[e])
  BY <1>2, AtWork DEF Returned
<1>6. Quiet(e) => Quiet(e)'
  BY <1>3, Zenon DEF Quiet
<1>7. closed'
  BY <1>0, <1>3, Zenon DEF NoClose
<1>8. LastSent(e)' /\ Complete(e)'
  <2>1. Receives(e)' => Receives(e) /\ Coming(e)' = Coming(e)
    BY <1>3, Zenon DEF Receives, Coming
  <2> QED
    BY <1>0, <1>1, <1>2, <2>1, FlowSame, Zenon DEF o
<1>9. ~CloseIn(chan[o], loop[o], wire[o])
  BY <1>0, <1>1, Zenon DEF LastSent
<1>10. LastSent(o)'
  BY <1>9, Zenon DEF LastSent
<1>11. Complete(o)'
  <2> SUFFICES ASSUME Receives(o)'
               PROVE  InOrder(chan[o], loop[o], wire[o], "close", Coming(o))
    <3>1. Coming(o)' = Coming(o)
      BY <1>3, Zenon DEF Coming
    <3> QED
      BY <1>1, <1>2, <3>1, Zenon DEF Complete
  <2>1. Receives(o)
    BY Zenon DEF Receives
  <2>2. InOrder(chan[o], loop[o], wire[o], "read", Coming(o))
    BY <1>0, <1>1, <2>1, Zenon DEF Complete
  <2>3. Coming(o) \in Int
    BY <1>0, <1>1 DEF Coming, TypeOK
  <2>4. chan[o] \in Seq(Frames) /\ wire[o] \in Seq(Frames) /\ loop[o] \in Loops
    BY <1>0, <1>1, Zenon DEF TypeOK, Loops
  <2> QED
    BY <2>2, <2>3, <2>4, PumpMoved, ZenonT(30)
<1> QED
  <2>1. "msg" \in Frames /\ "msg" # "open"
    BY DEF Frames
  <2> QED
    BY <1>1, <1>2, <1>3, <1>4, <1>5, <1>6, <1>7, <1>8, <1>10, <1>11, <2>1, PumpOn, Zenon DEF o

\* The pump that reads from the peer of e goes on to cancel, or returns; it may have
\* sent a frame that is no close.
LEMMA PumpInEnds ==
  ASSUME RelayInv, NEW e \in Ends, up[e] \in {"read", "send", "close", "cancel"},
         NEW v \in {"cancel", "done"}, up' = [up EXCEPT ![e] = v],
         NEW f \in Frames, f \notin {"open", "close"}, NEW err \in Results, err = "nil" => closed,
         \/ v = "cancel" /\ errs' = errs
         \/ v = "done" /\ errs' = [errs EXCEPT ![e] = Append(@, IF e = "ag" THEN "any" ELSE err)],
         conn' = conn \/ conn' = [conn EXCEPT ![e] = "closed"],
         wire' \in [Ends -> Seq(Frames)], wire'[e] = wire[e],
         wire'[Other(e)] = wire[Other(e)] \/ wire'[Other(e)] = Append(wire[Other(e)], f),
         UNCHANGED <<done, loop, chan, reg, held, at, out, down, closed, owed>>
  PROVE  RelayInv'
<1> DEFINE o == Other(e)
<1>0. /\ TypeOK /\ (closed \/ NoClose)
      /\ \A x \in Ends : LastSent(x) /\ Complete(x)
  BY DEF RelayInv
<1>1. /\ o \in Ends /\ o # e /\ Other(o) = e
      /\ \A x \in Ends : x = e \/ x = o
  BY TwoEnds, Zenon
<1>2. /\ up' \in [Ends -> {"off", "read", "send", "close", "cancel", "done"}]
      /\ up'[e] = v /\ up'[o] = up[o]
  BY <1>0, <1>1, Zenon DEF TypeOK
<1>3. /\ conn' \in [Ends -> {"none", "open", "closing", "closed"}] /\ conn'[o] = conn[o]
      /\ conn'[e] \in {conn[e], "closed"}
  <2>1. conn \in [Ends -> {"none", "open", "closing", "closed"}]
    BY <1>0, Zenon DEF TypeOK
  <2>2. CASE conn' = conn
    BY <2>1, <2>2, Zenon
  <2>3. CASE conn' = [conn EXCEPT ![e] = "closed"]
    BY <1>1, <2>1, <2>3, Zenon
  <2> QED
    BY <2>2, <2>3, Zenon
<1>4. /\ errs' \in [Ends -> Seq(Results)] /\ errs'[o] = errs[o]
      /\ Len(errs'[e]) = Len(errs[e]) + Returned(v)
      /\ \A i \in 1 .. Len(errs'["gw"]) : errs'["gw"][i] = "nil" => closed
  <2>1. CASE v = "cancel" /\ errs' = errs
    <3>1. errs \in [Ends -> Seq(Results)] /\ Returned(v) = 0
      BY <1>0, <2>1, Zenon DEF TypeOK, Returned
    <3>2. \A i \in 1 .. Len(errs'["gw"]) : errs'["gw"][i] = "nil" => closed
      BY <1>0, <2>1, NilMeansClosed, Zenon
    <3>3. Len(errs[e]) = Len(errs[e]) + Returned(v)
      BY <3>1
    <3> QED
      BY <2>1, <3>1, <3>2, <3>3, Zenon
  <2>2. CASE v = "done" /\ errs' = [errs EXCEPT ![e] = Append(@, IF e = "ag" THEN "any" ELSE err)]
    <3>1. Returned(v) = 1
      BY <2>2, SMTT(30) DEF Returned
    <3> QED
      BY <1>0, <2>2, <3>1, NilMeansClosedOn, ZenonT(30)
  <2> QED
    BY <2>1, <2>2, Zenon
<1>5. chan[o] \in Seq(Frames) /\ wire[o] \in Seq(Frames) /\ down[e] \in {"off", "read", "write", "closing", "done"}
  BY <1>0, <1>1 DEF TypeOK
<1> HIDE DEF o
<1>6. TypeOK'
  BY <1>0, <1>2, <1>3, <1>4, ZenonT(60) DEF TypeOK
<1>7. /\ up'[e] # "off" /\ down'[e] # "off"
      /\ Len(errs'[e]) = Returned(up'[e]) + Returned(down'[e])
  <2>1. down[e] # "off" /\ Len(errs[e]) = Returned(up[e]) + Returned(down[e]) /\ Returned(up[e]) = 0
    BY AtWork, Zenon DEF Returned
  <2>2. Returned(down[e]) \in Int /\ Returned(v) \in Int
    BY DEF Returned
  <2> QED
    BY <1>2, <1>4, <2>1, <2>2
<1>8. Quiet(e) => Quiet(e)'
  BY Zenon DEF Quiet
<1>9. CloseIn(chan[o], loop[o], wire'[o]) => CloseIn(chan[o], loop[o], wire[o])
  BY <1>5, SentClose, ZenonT(60) DEF o
<1>10. closed' \/ NoClose'
  <2>1. \A x \in Ends :
          /\ CloseIn(chan'[x], loop'[x], wire'[x]) => CloseIn(chan[x], loop[x], wire[x])
          /\ up'[x] = "close" => up[x] = "close"
          /\ conn'[x] = "closing" => conn[x] = "closing"
    BY <1>1, <1>2, <1>3, <1>9, ZenonT(30)
  <2> QED
    BY <1>0, <1>4, <2>1, NoCloseOn
<1>11. LastSent(e)' /\ Complete(e)'
  <2>1. Receives(e)' => Receives(e) /\ Coming(e)' = Coming(e)
    BY Zenon DEF Receives, Coming
  <2> QED
    BY <1>0, <1>1, <1>2, <2>1, FlowSame, Zenon DEF o
<1>12. LastSent(o)' /\ Complete(o)'
  <2>1. Receives(o)' => Receives(o) /\ Coming(o)' = Coming(o)
    BY Zenon DEF Receives, Coming
  <2>2. up'[e] \in {"cancel", "off", "done"} /\ up[e] \notin {"off", "done"}
    BY <1>2, ZenonT(30)
  <2>3. CASE wire'[o] = wire[o]
    BY <1>0, <1>1, <2>1, <2>2, <2>3, FlowSame, ZenonT(30)
  <2>4. CASE wire'[o] = Append(wire[o], f)
    BY <1>0, <1>1, <2>1, <2>2, <2>4, FlowTold, Zenon
  <2> QED
    BY <2>3, <2>4, Zenon DEF o
<1> QED
  BY <1>1, <1>2, <1>3, <1>4, <1>6, <1>7, <1>8, <1>10, <1>11, <1>12, PumpOn, ZenonT(60) DEF o

\* Every outcome of a read from the peer of e.
LEMMA pumpInReadsStep ==
  ASSUME RelayInv, NEW e \in Ends, pumpInReads(e)
  PROVE  RelayInv'
<1>1. /\ up[e] = "read"
      /\ UNCHANGED <<wire, done, loop, chan, reg, held, at, out, down>>
  BY DEF pumpInReads, link, session
<1>2. CASE ReadsMessage(e) /\ up' = [up EXCEPT ![e] = "send"] /\ errs' = errs
  BY <1>1, <1>2, MessageRead, Zenon
<1>3. CASE ReadsClose(e) /\ up' = [up EXCEPT ![e] = "close"] /\ errs' = errs
  BY <1>1, <1>3, CloseRead, Zenon
<1>4. wire \in [Ends -> Seq(Frames)] /\ "msg" \in Frames \ {"open", "close"} /\ "done" \in Results
  BY DEF RelayInv, TypeOK, Frames, Results
<1>5. CASE ReadFails(e) /\ up' = [up EXCEPT ![e] = "cancel"] /\ errs' = errs
  <2>1. conn' = [conn EXCEPT ![e] = "closed"] /\ UNCHANGED <<closed, owed>>
    BY <1>5 DEF ReadFails
  <2>2. "cancel" \in {"cancel", "done"} /\ "done" # "nil"
    OBVIOUS
  <2> QED
    BY <1>1, <1>4, <1>5, <2>1, <2>2, PumpInEnds, Zenon
<1>6. CASE ReadFails(e) /\ PumpReturns(e, up, "done")
  <2>1. conn' = [conn EXCEPT ![e] = "closed"] /\ UNCHANGED <<closed, owed>>
    BY <1>6 DEF ReadFails
  <2>2. /\ up' = [up EXCEPT ![e] = "done"]
        /\ errs' = [errs EXCEPT ![e] = Append(@, IF e = "ag" THEN "any" ELSE "done")]
    BY <1>6 DEF PumpReturns
  <2>3. "done" \in {"cancel", "done"} /\ "done" # "nil"
    OBVIOUS
  <2> QED
    BY <1>1, <1>4, <2>1, <2>2, <2>3, PumpInEnds, Zenon
<1> QED
  BY <1>2, <1>3, <1>5, <1>6, Zenon DEF pumpInReads

\* A message goes to the tunnel.
LEMMA MessageSent ==
  ASSUME RelayInv, NEW e \in Ends, up[e] = "send", Sends(e, "msg"),
         up' = [up EXCEPT ![e] = "read"],
         UNCHANGED <<done, loop, chan, reg, held, at, out, down, errs, conn, closed, owed>>
  PROVE  RelayInv'
<1> DEFINE o == Other(e)
<1>0. /\ TypeOK /\ (closed \/ NoClose)
      /\ \A x \in Ends : LastSent(x) /\ Complete(x)
  BY Zenon DEF RelayInv
<1>1. /\ o \in Ends /\ o # e /\ Other(o) = e
      /\ \A x \in Ends : x = e \/ x = o
  BY TwoEnds, Zenon
<1>2. /\ up' \in [Ends -> {"off", "read", "send", "close", "cancel", "done"}]
      /\ up'[e] = "read" /\ up'[o] = up[o]
  BY <1>0, <1>1, Zenon DEF TypeOK
<1>3. /\ wire' \in [Ends -> Seq(Frames)] /\ wire'[e] = wire[e]
      /\ wire'[o] = Append(wire[o], "msg") /\ "msg" \in Frames
  <2>1. "msg" \in Frames
    BY Zenon DEF Frames
  <2> QED
    BY <1>0, <2>1, SendsParts, Zenon
<1> HIDE DEF o
<1>4. TypeOK'
  BY <1>0, <1>2, <1>3, Zenon DEF TypeOK
<1>5. /\ up'[e] # "off" /\ down'[e] # "off"
      /\ Len(errs'[e]) = Returned(up'[e]) + Returned(down'[e])
  BY <1>2, AtWork DEF Returned
<1>6. Quiet(e) => Quiet(e)'
  BY Zenon DEF Quiet
<1>7. chan[o] \in Seq(Frames) /\ wire[o] \in Seq(Frames) /\ loop[o] \in Loops
  BY <1>0, <1>1, Zenon DEF TypeOK, Loops
<1>8. ~CloseIn(chan[o], loop[o], wire[o])
  BY <1>0, <1>1, Zenon DEF LastSent
<1>9. ~CloseIn(chan[o], loop[o], wire'[o])
  BY <1>3, <1>7, <1>8, SentClose, ZenonT(30)
<1>10. closed' \/ NoClose'
  <2>1. \A x \in Ends :
          /\ CloseIn(chan'[x], loop'[x], wire'[x]) => CloseIn(chan[x], loop[x], wire[x])
          /\ up'[x] = "close" => up[x] = "close"
    BY <1>1, <1>2, <1>3, <1>9, ZenonT(30)
  <2> QED
    BY <1>0, <2>1, NilMeansClosed, NoCloseOn, ZenonT(30)
<1>11. LastSent(e)' /\ Complete(e)'
  <2>1. Receives(e)' => Receives(e) /\ Coming(e)' = Coming(e)
    BY DEF Receives, Coming
  <2> QED
    BY <1>0, <1>1, <1>2, <1>3, <2>1, FlowSame, Zenon DEF o
<1>12. LastSent(o)'
  BY <1>9, Zenon DEF LastSent
<1>13. Complete(o)'
  <2> SUFFICES ASSUME Receives(o)'
               PROVE  InOrder(chan[o], loop[o], Append(wire[o], "msg"), "read", Coming(o))
    <3>1. Coming(o)' = Coming(o)
      BY DEF Coming
    <3> QED
      BY <1>1, <1>2, <1>3, <3>1, ZenonT(60) DEF Complete
  <2>1. Receives(o)
    BY Zenon DEF Receives
  <2>2. InOrder(chan[o], loop[o], wire[o], "send", Coming(o))
    BY <1>0, <1>1, <2>1, Zenon DEF Complete
  <2>3. Coming(o) \in Int
    BY <1>0, <1>1 DEF Coming, TypeOK
  <2> QED
    BY <1>3, <1>7, <2>2, <2>3, SentFrame, ZenonT(30)
<1> QED
  BY <1>1, <1>2, <1>3, <1>4, <1>5, <1>6, <1>10, <1>11, <1>12, <1>13, PumpOn, Zenon DEF o

\* Both outcomes of the write of a message to the tunnel.
LEMMA pumpInSendsStep ==
  ASSUME RelayInv, NEW e \in Ends, pumpInSends(e)
  PROVE  RelayInv'
<1>1. /\ up[e] = "send"
      /\ UNCHANGED <<done, loop, chan, reg, held, at, out, down, conn, closed, owed>>
  BY DEF pumpInSends, session, socket
<1>2. CASE Sends(e, "msg") /\ up' = [up EXCEPT ![e] = "read"] /\ errs' = errs
  BY <1>1, <1>2, MessageSent, Zenon
<1>3. CASE /\ SendFails(e, Live(e))
           /\ PumpReturns(e, up, IF open \/ ~Live(e) THEN "done" ELSE "err")
  <2> DEFINE err == IF open \/ ~Live(e) THEN "done" ELSE "err"
  <2>1. err \in Results /\ err # "nil"
    BY DEF Results
  <2>2. /\ up' = [up EXCEPT ![e] = "done"]
        /\ errs' = [errs EXCEPT ![e] = Append(@, IF e = "ag" THEN "any" ELSE err)]
    BY <1>3, SMTT(30) DEF PumpReturns
  <2> HIDE DEF err
  <2>3. wire' = wire /\ wire \in [Ends -> Seq(Frames)] /\ "msg" \in Frames \ {"open", "close"}
    BY <1>3 DEF SendFails, RelayInv, TypeOK, Frames
  <2>4. "done" \in {"cancel", "done"}
    BY Zenon
  <2> QED
    BY <1>1, <2>1, <2>2, <2>3, <2>4, PumpInEnds, Zenon
<1> QED
  BY <1>2, <1>3 DEF pumpInSends

\* The ws.close goes to the tunnel, behind every message read before it.
LEMMA CloseSent ==
  ASSUME RelayInv, NEW e \in Ends, up[e] = "close", Sends(e, "close"), PumpReturns(e, up, "nil"),
         UNCHANGED <<done, loop, chan, reg, held, at, out, down, conn, closed, owed>>
  PROVE  RelayInv'
<1> DEFINE o == Other(e)
<1>0. /\ TypeOK /\ (closed \/ NoClose) /\ Handshake
      /\ \A x \in Ends : LastSent(x) /\ Complete(x)
  BY DEF RelayInv
<1>1. /\ o \in Ends /\ o # e /\ Other(o) = e
      /\ \A x \in Ends : x = e \/ x = o
  BY TwoEnds, Zenon
<1>2. /\ up' \in [Ends -> {"off", "read", "send", "close", "cancel", "done"}]
      /\ up'[e] = "done" /\ up'[o] = up[o]
  BY <1>0, <1>1, ZenonT(60) DEF TypeOK, PumpReturns
<1>3. /\ wire' \in [Ends -> Seq(Frames)] /\ wire'[e] = wire[e]
      /\ wire'[o] = Append(wire[o], "close") /\ "close" \in Frames
  <2>1. "close" \in Frames
    BY Zenon DEF Frames
  <2> QED
    BY <1>0, <2>1, SendsParts, Zenon
<1>4. closed
  BY <1>0, Zenon DEF NoClose
<1>5. /\ errs' \in [Ends -> Seq(Results)] /\ errs'[o] = errs[o] /\ Len(errs'[e]) = Len(errs[e]) + 1
  <2>1. "nil" \in Results
    BY SMTT(30) DEF Results
  <2> QED
    BY <1>0, <1>4, <2>1, NilMeansClosedOn, Zenon DEF PumpReturns
<1>6. /\ at[e] \in After /\ down[e] # "off" /\ Len(errs[e]) = 0 + Returned(down[e])
      /\ o = "ag" => at[o] \in After
  BY <1>1, AtWork, TwoEnds DEF Returned
<1> HIDE DEF o
<1>7. TypeOK'
  BY <1>0, <1>2, <1>3, <1>5, ZenonT(30) DEF TypeOK
<1>8. /\ up'[e] # "off" /\ down'[e] # "off"
      /\ Len(errs'[e]) = Returned(up'[e]) + Returned(down'[e])
  BY <1>2, <1>5, <1>6 DEF Returned
<1>9. Quiet(e) => Quiet(e)'
  BY Zenon DEF Quiet
<1>10. LastSent(e)' /\ Complete(e)'
  <2>1. Receives(e)' => Receives(e) /\ Coming(e)' = Coming(e)
    BY Zenon DEF Receives, Coming
  <2> QED
    BY <1>0, <1>1, <1>2, <1>3, <2>1, FlowSame, Zenon DEF o
<1>11. LastSent(o)'
  BY <1>1, <1>2, <1>6, Zenon DEF LastSent
<1>12. Complete(o)'
  <2> SUFFICES ASSUME Receives(o)'
               PROVE  InOrder(chan[o], loop[o], Append(wire[o], "close"), "done", Coming(o))
    <3>1. Coming(o)' = Coming(o)
      BY Zenon DEF Coming
    <3> QED
      BY <1>1, <1>2, <1>3, <3>1, ZenonT(30) DEF Complete
  <2>1. Receives(o)
    BY Zenon DEF Receives
  <2>2. InOrder(chan[o], loop[o], wire[o], "close", Coming(o))
    BY <1>0, <1>1, <2>1, Zenon DEF Complete
  <2>3. /\ Coming(o) \in Int
        /\ chan[o] \in Seq(Frames) /\ wire[o] \in Seq(Frames) /\ loop[o] \in Loops
    BY <1>0, <1>1, SMTT(30) DEF Coming, TypeOK, Loops
  <2> QED
    BY <1>3, <2>2, <2>3, SentFrame, ZenonT(30)
<1> QED
  BY <1>1, <1>2, <1>3, <1>4, <1>5, <1>7, <1>8, <1>9, <1>10, <1>11, <1>12, PumpOn, Zenon DEF o

\* The read error is passed on, or the write fails.
LEMMA closeOrCancelForReadErrorStep ==
  ASSUME RelayInv, NEW e \in Ends, closeOrCancelForReadError(e)
  PROVE  RelayInv'
<1>1. /\ up[e] \in {"close", "cancel"}
      /\ UNCHANGED <<done, loop, chan, reg, held, at, out, down, conn, closed, owed>>
  BY DEF closeOrCancelForReadError, session, socket
<1>2. CASE up[e] = "close" /\ Sends(e, "close")
  <2>1. PumpReturns(e, up, "nil")
    BY <1>2 DEF closeOrCancelForReadError
  <2> QED
    BY <1>1, <1>2, <2>1, CloseSent
<1>3. CASE (up[e] = "cancel" /\ Sends(e, "cancel")) \/ SendFails(e, TRUE)
  <2> DEFINE err == IF up[e] = "close" THEN "nil" ELSE "err"
  <2>1. err \in Results /\ (err = "nil" => closed)
    BY Zenon DEF Results, RelayInv, NoClose
  <2>2. /\ up' = [up EXCEPT ![e] = "done"]
        /\ errs' = [errs EXCEPT ![e] = Append(@, IF e = "ag" THEN "any" ELSE err)]
    BY DEF closeOrCancelForReadError, PumpReturns
  <2> HIDE DEF err
  <2>3. "done" \in {"cancel", "done"} /\ "cancel" \in Frames /\ "cancel" \notin {"open", "close"}
    BY DEF Frames
  <2>4. /\ wire' \in [Ends -> Seq(Frames)] /\ wire'[e] = wire[e]
        /\ wire'[Other(e)] = wire[Other(e)] \/ wire'[Other(e)] = Append(wire[Other(e)], "cancel")
    BY <1>3, <2>3, WireMoves, Zenon DEF RelayInv
  <2> QED
    BY <1>1, <2>1, <2>2, <2>3, <2>4, PumpInEnds, Zenon
<1> QED
  BY <1>1, <1>2, <1>3, Zenon DEF closeOrCancelForReadError

\* The pump that writes to the peer of e closes it, or returns; it may have taken a
\* frame.
LEMMA PumpOutEnds ==
  ASSUME RelayInv, NEW e \in Ends, down[e] \in {"read", "write", "closing"},
         NEW v \in {"closing", "done"}, down' = [down EXCEPT ![e] = v],
         NEW err \in Results, err = "nil" => closed,
         \/ v = "closing" /\ closed /\ errs' = errs
         \/ v = "done" /\ errs' = [errs EXCEPT ![e] = Append(@, IF e = "ag" THEN "any" ELSE err)],
         NEW k \in {"none", "open", "closing", "closed"}, conn' = [conn EXCEPT ![e] = k],
         k = "closing" => conn[e] = "closing" \/ closed,
         \/ chan' = chan
         \/ chan[e] # <<>> /\ chan' = [chan EXCEPT ![e] = Tail(@)],
         UNCHANGED <<wire, done, loop, reg, held, at, out, up, closed, owed>>
  PROVE  RelayInv'
<1> DEFINE o == Other(e)
<1>0. /\ TypeOK /\ (closed \/ NoClose)
      /\ \A x \in Ends : LastSent(x) /\ Complete(x)
  BY Zenon DEF RelayInv
<1>1. /\ o \in Ends /\ o # e /\ Other(o) = e
      /\ \A x \in Ends : x = e \/ x = o
  BY TwoEnds, Zenon
<1>2. /\ down' \in [Ends -> {"off", "read", "write", "closing", "done"}]
      /\ down'[e] = v /\ down'[o] = down[o]
  BY <1>0, <1>1, Zenon DEF TypeOK
<1>3. /\ conn' \in [Ends -> {"none", "open", "closing", "closed"}] /\ conn'[o] = conn[o]
      /\ conn'[e] = k
  BY <1>0, <1>1, Zenon DEF TypeOK
<1>4. /\ errs' \in [Ends -> Seq(Results)] /\ errs'[o] = errs[o]
      /\ Len(errs'[e]) = Len(errs[e]) + Returned(v)
      /\ \A i \in 1 .. Len(errs'["gw"]) : errs'["gw"][i] = "nil" => closed
  <2>1. CASE v = "closing" /\ errs' = errs
    <3>1. errs \in [Ends -> Seq(Results)] /\ Returned(v) = 0
      BY <1>0, <2>1, Zenon DEF TypeOK, Returned
    <3>2. \A i \in 1 .. Len(errs'["gw"]) : errs'["gw"][i] = "nil" => closed
      BY <1>0, <2>1, NilMeansClosed, Zenon
    <3>3. Len(errs[e]) = Len(errs[e]) + Returned(v)
      BY <3>1
    <3> QED
      BY <2>1, <3>1, <3>2, <3>3, Zenon
  <2>2. CASE v = "done" /\ errs' = [errs EXCEPT ![e] = Append(@, IF e = "ag" THEN "any" ELSE err)]
    <3>1. Returned(v) = 1
      BY <2>2, Zenon DEF Returned
    <3> QED
      BY <1>0, <2>2, <3>1, NilMeansClosedOn, Zenon
  <2> QED
    BY <2>1, <2>2, Zenon
<1>5. /\ chan' \in [Ends -> Seq(Frames)] /\ chan'[o] = chan[o]
      /\ chan[e] = <<>> => chan'[e] = <<>>
      /\ CloseIn(chan'[e], loop[e], wire[e]) => CloseIn(chan[e], loop[e], wire[e])
  <2>1. chan \in [Ends -> Seq(Frames)] /\ chan[e] \in Seq(Frames)
    BY <1>0, Zenon DEF TypeOK
  <2>2. CASE chan' = chan
    BY <2>1, <2>2, Zenon
  <2>3. CASE chan[e] # <<>> /\ chan' = [chan EXCEPT ![e] = Tail(@)]
    <3>1. Tail(chan[e]) \in Seq(Frames) /\ chan' = [chan EXCEPT ![e] = Tail(chan[e])]
      BY <2>1, <2>3, Taken, Zenon
    <3>2. chan' \in [Ends -> Seq(Frames)] /\ chan'[o] = chan[o] /\ chan'[e] = Tail(chan[e])
      BY <1>1, <2>1, <3>1, Zenon
    <3> QED
      BY <2>1, <2>3, <3>2, TookClose, Zenon
  <2> QED
    BY <2>2, <2>3, Zenon
<1>6. up[e] \in {"off", "read", "send", "close", "cancel", "done"}
  BY <1>0, Zenon DEF TypeOK
<1> HIDE DEF o
<1>7. TypeOK'
  BY <1>0, <1>2, <1>3, <1>4, <1>5, Zenon DEF TypeOK
<1>8. /\ up'[e] # "off" /\ down'[e] # "off"
      /\ Len(errs'[e]) = Returned(up'[e]) + Returned(down'[e])
  <2>1. up[e] # "off" /\ Len(errs[e]) = Returned(up[e]) + Returned(down[e]) /\ Returned(down[e]) = 0
    BY AtWork, Zenon DEF Returned
  <2>2. Returned(up[e]) \in Int /\ Returned(v) \in Int
    BY DEF Returned
  <2> QED
    BY <1>2, <1>4, <2>1, <2>2
<1>9. Quiet(e) => Quiet(e)'
  BY <1>2, <1>5, ZenonT(30) DEF Quiet
<1>10. closed' \/ NoClose'
  <2>1. v = "closing" => closed
    BY Zenon
  <2>2. \A x \in Ends :
          /\ CloseIn(chan'[x], loop'[x], wire'[x]) => CloseIn(chan[x], loop[x], wire[x])
          /\ down'[x] = "closing" => down[x] = "closing" \/ closed
          /\ conn'[x] = "closing" => conn[x] = "closing" \/ closed
    BY <1>1, <1>2, <1>3, <1>5, <2>1, ZenonT(60)
  <2> QED
    BY <1>0, <1>4, <2>2, NoCloseOn, Zenon
<1>11. LastSent(e)' /\ Complete(e)'
  <2>1. ~Receives(e)'
    BY <1>2, ZenonT(30) DEF Receives
  <2> QED
    BY <1>0, <1>5, <2>1, ZenonT(30) DEF LastSent, Complete
<1>12. LastSent(o)' /\ Complete(o)'
  <2>1. Receives(o)' => Receives(o) /\ Coming(o)' = Coming(o)
    BY <1>2, Zenon DEF Receives, Coming
  <2> QED
    BY <1>0, <1>1, <1>5, <2>1, FlowSame, ZenonT(30)
<1> QED
  <2>1. "msg" \in Frames /\ "msg" # "open" /\ down[e] \notin {"off", "done"}
    BY Zenon DEF Frames
  <2> QED
    BY <1>1, <1>2, <1>3, <1>4, <1>7, <1>8, <1>9, <1>10, <1>11, <1>12, <2>1, PumpOn, Zenon DEF o

\* The pump takes a message for the peer of e.
LEMMA MessageTaken ==
  ASSUME RelayInv, NEW e \in Ends, down[e] = "read", down' = [down EXCEPT ![e] = "write"],
         chan[e] # <<>>, chan' = [chan EXCEPT ![e] = Tail(@)],
         UNCHANGED <<wire, done, loop, reg, held, at, out, up, errs, conn, closed, owed>>
  PROVE  RelayInv'
<1> DEFINE o == Other(e)
<1>0. /\ TypeOK /\ (closed \/ NoClose)
      /\ \A x \in Ends : LastSent(x) /\ Complete(x)
  BY Zenon DEF RelayInv
<1>1. /\ o \in Ends /\ o # e /\ Other(o) = e
      /\ \A x \in Ends : x = e \/ x = o
  BY TwoEnds, Zenon
<1>2. /\ down' \in [Ends -> {"off", "read", "write", "closing", "done"}]
      /\ down'[e] = "write" /\ down'[o] = down[o]
  BY <1>0, <1>1, Zenon DEF TypeOK
<1>3. /\ chan' \in [Ends -> Seq(Frames)] /\ chan'[o] = chan[o] /\ chan'[e] = Tail(chan[e])
      /\ CloseIn(chan'[e], loop[e], wire[e]) => CloseIn(chan[e], loop[e], wire[e])
  <2>1. chan \in [Ends -> Seq(Frames)] /\ chan[e] \in Seq(Frames)
    BY <1>0 DEF TypeOK
  <2>2. Tail(chan[e]) \in Seq(Frames) /\ chan' = [chan EXCEPT ![e] = Tail(chan[e])]
    BY <2>1, Taken, Zenon
  <2>3. chan' \in [Ends -> Seq(Frames)] /\ chan'[o] = chan[o] /\ chan'[e] = Tail(chan[e])
    BY <1>1, <2>1, <2>2, Zenon
  <2> QED
    BY <2>1, <2>3, TookClose, Zenon
<1> HIDE DEF o
<1>4. TypeOK'
  BY <1>0, <1>2, <1>3, Zenon DEF TypeOK
<1>5. /\ up'[e] # "off" /\ down'[e] # "off"
      /\ Len(errs'[e]) = Returned(up'[e]) + Returned(down'[e])
  BY <1>2, AtWork, Zenon DEF Returned
<1>6. Quiet(e) => Quiet(e)'
  BY Zenon DEF Quiet
<1>7. closed' \/ NoClose'
  <2>1. \A x \in Ends :
          /\ CloseIn(chan'[x], loop'[x], wire'[x]) => CloseIn(chan[x], loop[x], wire[x])
          /\ down'[x] = "closing" => down[x] = "closing"
    BY <1>1, <1>2, <1>3, ZenonT(30)
  <2> QED
    BY <1>0, <2>1, NilMeansClosed, NoCloseOn, ZenonT(30)
<1>8. LastSent(e)'
  BY <1>0, <1>3, Zenon DEF LastSent
<1>9. Complete(e)'
  <2> SUFFICES ASSUME Receives(e)'
               PROVE  InOrder(Tail(chan[e]), loop[e], wire[e], up[o], Coming(e)')
    BY <1>3, Zenon DEF Complete, o
  <2>1. Receives(e)
    BY Zenon DEF Receives
  <2>2. InOrder(chan[e], loop[e], wire[e], up[o], Coming(e))
    BY <1>0, <2>1, ZenonT(30) DEF Complete, o
  <2>3. Coming(e) \in Int /\ Coming(e)' = Coming(e) - 1
    <3>1. owed[o] \in Int
      BY <1>0, <1>1, Zenon DEF TypeOK
    <3> QED
      BY <1>2, <3>1 DEF Coming, o
  <2>4. chan[e] \in Seq(Frames) /\ wire[e] \in Seq(Frames) /\ loop[e] \in Loops
    BY <1>0, Zenon DEF TypeOK, Loops
  <2> QED
    BY <2>2, <2>3, <2>4, TookFrame, ZenonT(30)
<1>10. LastSent(o)' /\ Complete(o)'
  <2>1. Receives(o)' => Receives(o) /\ Coming(o)' = Coming(o)
    BY <1>2, Zenon DEF Receives, Coming
  <2> QED
    BY <1>0, <1>1, <1>3, <2>1, FlowSame, Zenon
<1> QED
  <2>1. "msg" \in Frames /\ "msg" # "open" /\ down[e] \notin {"off", "done"}
    BY DEF Frames
  <2> QED
    BY <1>1, <1>2, <1>3, <1>4, <1>5, <1>6, <1>7, <1>8, <1>9, <1>10, <2>1, PumpOn, Zenon DEF o

\* The peer of e is given a message.
LEMMA MessageWritten ==
  ASSUME RelayInv, NEW e \in Ends, down[e] = "write", down' = [down EXCEPT ![e] = "read"],
         owed' = [owed EXCEPT ![Other(e)] = @ - 1],
         UNCHANGED <<wire, done, loop, chan, reg, held, at, out, up, errs, conn, closed>>
  PROVE  RelayInv'
<1> DEFINE o == Other(e)
<1>0. /\ TypeOK /\ (closed \/ NoClose)
      /\ \A x \in Ends : LastSent(x) /\ Complete(x)
  BY Zenon DEF RelayInv
<1>1. /\ o \in Ends /\ o # e /\ Other(o) = e
      /\ \A x \in Ends : x = e \/ x = o
  BY TwoEnds, Zenon
<1>2. /\ down' \in [Ends -> {"off", "read", "write", "closing", "done"}]
      /\ down'[e] = "read" /\ down'[o] = down[o]
  BY <1>0, <1>1, Zenon DEF TypeOK
<1>3. /\ owed' \in [Ends -> Int] /\ owed'[o] = owed[o] - 1 /\ owed'[e] = owed[e]
      /\ owed[o] \in Int
  BY <1>0, <1>1, SMTT(30) DEF TypeOK
<1> HIDE DEF o
<1>4. TypeOK'
  BY <1>0, <1>2, <1>3, ZenonT(30) DEF TypeOK
<1>5. /\ up'[e] # "off" /\ down'[e] # "off"
      /\ Len(errs'[e]) = Returned(up'[e]) + Returned(down'[e])
  <2>1. up[e] # "off" /\ Len(errs[e]) = Returned(up[e]) + Returned("write")
    BY AtWork, Zenon
  <2>2. Returned("write") = Returned("read")
    BY DEF Returned
  <2> QED
    BY <1>2, <2>1, <2>2, Zenon
<1>6. Quiet(e) => Quiet(e)'
  BY Zenon DEF Quiet
<1>7. closed' \/ NoClose'
  <2>1. \A x \in Ends : down'[x] = "closing" => down[x] = "closing"
    BY <1>1, <1>2, Zenon
  <2> QED
    BY <1>0, <2>1, NilMeansClosed, NoCloseOn, Zenon
<1>8. LastSent(e)' /\ Complete(e)'
  <2>1. Receives(e)' => Receives(e)
    BY Zenon DEF Receives
  <2>2. Coming(e)' = Coming(e)
    BY <1>2, <1>3 DEF Coming, o
  <2> QED
    BY <1>0, <1>1, <2>1, <2>2, FlowSame, Zenon DEF o
<1>9. LastSent(o)' /\ Complete(o)'
  <2>1. Receives(o)' => Receives(o) /\ Coming(o)' = Coming(o)
    BY <1>1, <1>2, <1>3, Zenon DEF Receives, Coming
  <2> QED
    BY <1>0, <1>1, <2>1, FlowSame, ZenonT(30)
<1> QED
  <2>1. "msg" \in Frames /\ "msg" # "open" /\ down[e] \notin {"off", "done"}
    BY Zenon DEF Frames
  <2> QED
    BY <1>1, <1>2, <1>3, <1>4, <1>5, <1>6, <1>7, <1>8, <1>9, <2>1, PumpOn, ZenonT(30) DEF o

\* Every case of the select of the pump that writes to the peer of e.
LEMMA pumpOutReadsStep ==
  ASSUME RelayInv, NEW e \in Ends, pumpOutReads(e)
  PROVE  RelayInv'
<1> DEFINE f == Head(chan[e])
<1>0. TypeOK /\ (closed \/ NoClose)
  BY Zenon DEF RelayInv
<1>1. /\ down[e] = "read"
      /\ UNCHANGED <<wire, done, loop, reg, held, at, out, up, closed, owed>>
  BY Zenon DEF pumpOutReads, link
<1>2. /\ conn[e] \in {"none", "open", "closing", "closed"}
      /\ conn' = conn => conn' = [conn EXCEPT ![e] = conn[e]]
  BY <1>0 DEF TypeOK
<1>3. /\ "done" \in {"closing", "done"} /\ "closing" \in {"closing", "done"}
      /\ "done" \in Results /\ "done" # "nil" /\ "err" \in Results /\ "err" # "nil"
  BY Zenon DEF Results
<1>4. CASE PumpReturns(e, down, "done") /\ UNCHANGED <<chan, conn>>
  <2>1. /\ down' = [down EXCEPT ![e] = "done"]
        /\ errs' = [errs EXCEPT ![e] = Append(@, IF e = "ag" THEN "any" ELSE "done")]
    BY <1>4 DEF PumpReturns
  <2> QED
    BY <1>1, <1>2, <1>3, <1>4, <2>1, PumpOutEnds, Zenon
<1>5. CASE chan[e] # <<>> /\ chan' = [chan EXCEPT ![e] = Tail(@)] /\ TakesFrame(e, f)
  <2>1. CASE f = "msg"
    <3>1. down' = [down EXCEPT ![e] = "write"] /\ UNCHANGED <<conn, errs>>
      BY <1>5, <2>1 DEF TakesFrame
    <3> QED
      BY <1>1, <1>5, <3>1, MessageTaken, Zenon
  <2>2. CASE f = "close"
    <3> DEFINE k == IF conn[e] = "open" THEN "closing" ELSE conn[e]
    <3>1. ClosesPeer(e)
      BY <1>5, <2>2, Zenon DEF TakesFrame
    <3>2. /\ down' = [down EXCEPT ![e] = "closing"] /\ errs' = errs
          /\ conn' = [conn EXCEPT ![e] = k]
      BY <3>1, Zenon DEF ClosesPeer
    <3>3. chan[e] \in Seq(Frames)
      BY <1>0, Zenon DEF TypeOK
    <3>4. CloseIn(chan[e], loop[e], wire[e])
      BY <1>5, <2>2, <3>3, TookClose, Zenon
    <3>5. closed
      BY <1>0, <3>4, Zenon DEF NoClose
    <3>6. k \in {"none", "open", "closing", "closed"}
      BY <1>2, Zenon
    <3> HIDE DEF k
    <3> QED
      BY <1>1, <1>3, <1>5, <3>2, <3>5, <3>6, PumpOutEnds, Zenon
  <2>3. CASE f \notin {"msg", "close"}
    <3>1. PumpReturns(e, down, "err") /\ conn' = conn
      BY <1>5, <2>3 DEF TakesFrame
    <3>2. /\ down' = [down EXCEPT ![e] = "done"]
          /\ errs' = [errs EXCEPT ![e] = Append(@, IF e = "ag" THEN "any" ELSE "err")]
      BY <3>1, Zenon DEF PumpReturns
    <3> QED
      BY <1>1, <1>2, <1>3, <1>5, <3>1, <3>2, PumpOutEnds, Zenon
  <2> QED
    BY <2>1, <2>2, <2>3
<1> QED
  BY <1>4, <1>5 DEF pumpOutReads

\* Both outcomes of a write to the peer of e.
LEMMA pumpOutWritesStep ==
  ASSUME RelayInv, NEW e \in Ends, pumpOutWrites(e)
  PROVE  RelayInv'
<1>1. /\ down[e] = "write"
      /\ UNCHANGED <<wire, done, loop, chan, reg, held, at, out, up, closed>>
  BY Zenon DEF pumpOutWrites, link, session
<1>2. CASE /\ down' = [down EXCEPT ![e] = "read"]
           /\ owed' = [owed EXCEPT ![Other(e)] = @ - 1] /\ UNCHANGED <<errs, conn>>
  BY <1>1, <1>2, MessageWritten, Zenon
<1>3. ASSUME NEW err \in {"done", "err"}, PumpReturns(e, down, err),
             conn' = [conn EXCEPT ![e] = "closed"], owed' = owed
      PROVE  RelayInv'
  <2>1. /\ down' = [down EXCEPT ![e] = "done"]
        /\ errs' = [errs EXCEPT ![e] = Append(@, IF e = "ag" THEN "any" ELSE err)]
    BY <1>3 DEF PumpReturns
  <2>2. /\ "done" \in {"closing", "done"} /\ err \in Results /\ err # "nil"
        /\ "closed" \in {"none", "open", "closing", "closed"} /\ "closed" # "closing"
    BY <1>3, Zenon DEF Results
  <2> QED
    BY <1>1, <1>3, <2>1, <2>2, PumpOutEnds, Zenon
<1> QED
  BY <1>2, <1>3, Zenon DEF pumpOutWrites

\* The peer of e has been closed.
LEMMA pumpOutClosedStep ==
  ASSUME RelayInv, NEW e \in Ends, pumpOutClosed(e)
  PROVE  RelayInv'
<1>1. /\ down[e] = "closing" /\ conn' = [conn EXCEPT ![e] = "closed"]
      /\ UNCHANGED <<wire, done, loop, chan, reg, held, at, out, up, closed, owed>>
      /\ down' = [down EXCEPT ![e] = "done"]
      /\ errs' = [errs EXCEPT ![e] = Append(@, IF e = "ag" THEN "any" ELSE "nil")]
  BY Zenon DEF pumpOutClosed, PumpReturns, link, session
<1>2. /\ "done" \in {"closing", "done"} /\ "nil" \in Results /\ closed
      /\ "closed" \in {"none", "open", "closing", "closed"} /\ "closed" # "closing"
  BY <1>1 DEF Results, RelayInv, NoClose
<1> QED
  BY <1>1, <1>2, PumpOutEnds, Zenon

-------------------------------------------------------------------------------
(* The theorems *)

\* Before the stream is opened nothing is on its way and nobody holds anything.
LEMMA InitRelay ==
  ASSUME Init
  PROVE  RelayInv
<1>1. /\ wire = [e \in Ends |-> <<>>] /\ chan = [e \in Ends |-> <<>>]
      /\ loop = [e \in Ends |-> Reading] /\ reg = {} /\ held = FALSE /\ closed = FALSE
      /\ at = [e \in Ends |-> "idle"] /\ up = [e \in Ends |-> "off"] /\ down = [e \in Ends |-> "off"]
      /\ errs = [e \in Ends |-> <<>>] /\ conn = [e \in Ends |-> "none"]
      /\ owed = [e \in Ends |-> 0] /\ out = "none"
  BY Zenon DEF Init
<1>2. TypeOK
  <2>1. <<>> \in Seq(Frames) /\ <<>> \in Seq(Results) /\ Reading \in Loops
    BY LoopParts
  <2>2. wire \in [Ends -> Seq(Frames)] /\ chan \in [Ends -> Seq(Frames)] /\ errs \in [Ends -> Seq(Results)]
    BY <1>1, <2>1, Zenon
  <2>3. /\ loop \in [Ends -> Loops] /\ at["gw"] = "idle" /\ at["ag"] = "idle"
        /\ at \in [Ends -> Steps] /\ owed \in [Ends -> Int]
    BY <1>1, <2>1, TwoEnds DEF Steps, GatewayBefore
  <2>4. /\ up \in [Ends -> {"off", "read", "send", "close", "cancel", "done"}]
        /\ down \in [Ends -> {"off", "read", "write", "closing", "done"}]
        /\ conn \in [Ends -> {"none", "open", "closing", "closed"}]
    BY <1>1
  <2>5. reg \subseteq Ends /\ held \in BOOLEAN /\ closed \in BOOLEAN
    BY <1>1, ZenonT(30)
  <2> QED
    BY <2>2, <2>3, <2>4, <2>5, Zenon DEF TypeOK, Loops, Steps, GatewayBefore, AgentBefore
<1>3. Slots /\ Pumps
  BY <1>1, TwoEnds DEF Slots, Pumps, After
<1>4. \A e \in Ends : chan[e] = <<>> /\ wire[e] = <<>> /\ loop[e] \in Loops /\ loop[e].at # "deliver"
  BY <1>1, LoopParts
<1>5. \A e \in Ends : ~CloseIn(chan[e], loop[e], wire[e])
  <2> SUFFICES ASSUME NEW e \in Ends PROVE ~CloseIn(chan[e], loop[e], wire[e])
    BY Zenon
  <2>1. "off" \notin {"send"} /\ chan[e] = <<>> /\ wire[e] = <<>> /\ loop[e] \in Loops
        /\ loop[e].at # "deliver"
    BY <1>4, Zenon
  <2>2. ~CloseIn(<<>>, loop[e], <<>>)
    BY <2>1, NothingComes, Zenon
  <2> QED
    BY <2>1, <2>2, ZenonT(30)
<1>6. NoClose
  <2>1. errs["gw"] = <<>>
    BY <1>1, TwoEnds, SMTT(30)
  <2> QED
    BY <1>1, <1>5, <2>1 DEF NoClose
<1>7. Handshake
  <2>1. \A e \in Ends : Quiet(e)
    BY <1>1, <1>4, TwoEnds, Zenon DEF Quiet
  <2> QED
    BY <1>1, <1>4, <2>1, TwoEnds DEF Handshake
<1>8. \A e \in Ends : LastSent(e) /\ Complete(e)
  <2>1. \A e \in Ends : ~Receives(e)
    BY <1>1 DEF Receives
  <2> QED
    BY <1>5, <2>1, Zenon DEF LastSent, Complete
<1> QED
  BY <1>2, <1>3, <1>6, <1>7, <1>8, Zenon DEF RelayInv

\* Every step of the relay keeps its invariant.
LEMMA RelayStep ==
  ASSUME RelayInv, [Next]_vars
  PROVE  RelayInv'
<1>1. CASE UNCHANGED vars
  BY <1>1, OutsideStep
<1>2. CASE \/ acquireStream \/ writeOpen \/ awaitAccept \/ acceptPublic \/ SendCancel
           \/ handlePublicWebSocketReturns \/ CtxDone \/ relayPublicWebSocket
  BY <1>2, Zenon, acquireStreamStep, writeOpenStep, awaitAcceptStep, acceptPublicStep,
     SendCancelStep, handlePublicWebSocketReturnsStep, OutsideStep, relayPublicWebSocketStep
<1>3. CASE \/ dialLocal \/ writeAccept \/ sendWSError \/ relayWSStream \/ handleWSStreamReturns
           \/ serveWSOpen \/ readLoopStops \/ serveStops \/ keepaliveFails \/ ConnLost
  BY <1>3, Zenon, dialLocalStep, writeAcceptStep, sendWSErrorStep, relayWSStreamStep,
     handleWSStreamReturnsStep, serveWSOpenStep, StopsStep, OutsideStep
<1>4. ASSUME NEW e \in Ends,
             \/ pumpInReads(e) \/ pumpInSends(e) \/ closeOrCancelForReadError(e)
             \/ pumpOutReads(e) \/ pumpOutWrites(e) \/ pumpOutClosed(e)
             \/ relayFirst(e) \/ readLoopReads(e) \/ deliver(e)
      PROVE  RelayInv'
  BY <1>4, Zenon, pumpInReadsStep, pumpInSendsStep, closeOrCancelForReadErrorStep,
     pumpOutReadsStep, pumpOutWritesStep, pumpOutClosedStep, relayFirstStep, readLoopReadsStep,
     deliverStep
<1> QED
  BY <1>1, <1>2, <1>3, <1>4, NextCases, Zenon

\* The invariant of the relay, for any number of messages and any capacity.
THEOREM RelayInvHolds == Spec => []RelayInv
<1>1. Init => RelayInv
  BY InitRelay
<1>2. RelayInv /\ [Next]_vars => RelayInv'
  BY RelayStep
<1> QED
  BY <1>1, <1>2, PTL DEF Spec

\* A handler that has returned leaves no registration, no slot, no connection and no
\* pump, whichever exit of handlePublicWebSocket or handleWSStream it took.
THEOREM NothingLeftBehindHolds == Spec => []NothingLeftBehind
<1>1. RelayInv => NothingLeftBehind
  BY ZenonT(60) DEF RelayInv, Slots, Pumps, NothingLeftBehind, Ends
<1> QED
  BY <1>1, RelayInvHolds, PTL

\* A relay is reported as completed only if one of the peers closed its websocket:
\* relayOutcome takes a nil for success, and no pump returns nil before that.
THEOREM CompletedMeansClosedHolds == Spec => []CompletedMeansClosed
<1>1. RelayInv => CompletedMeansClosed
  BY DEF RelayInv, NoClose, CompletedMeansClosed
<1> QED
  BY <1>1, RelayInvHolds, PTL

\* The pump that begins to close the peer of e does so for a ws.close it has taken.
LEMMA ClosesOnClose ==
  ASSUME RelayInv, NEW e \in Ends, [Next]_vars, down[e] = "read", down'[e] = "closing"
  PROVE  chan[e] # <<>> /\ Head(chan[e]) = "close"
<1>0. down \in [Ends -> {"off", "read", "write", "closing", "done"}]
  BY DEF RelayInv, TypeOK
<1>1. down' # down /\ ~UNCHANGED vars
  BY DEF vars, pumps
<1>2. ~acquireStream /\ ~writeOpen /\ ~awaitAccept /\ ~SendCancel /\ ~CtxDone /\ ~relayPublicWebSocket
  BY <1>1, Zenon DEF acquireStream, writeOpen, awaitAccept, SendCancel, CtxDone,
     relayPublicWebSocket, pumps
<1>3. /\ ~dialLocal /\ ~sendWSError /\ ~relayWSStream /\ ~serveWSOpen /\ ~readLoopStops
      /\ ~serveStops /\ ~keepaliveFails /\ ~ConnLost
  BY <1>1, Zenon DEF dialLocal, sendWSError, relayWSStream, serveWSOpen, readLoopStops,
     serveStops, keepaliveFails, ConnLost, pumps
<1>4. \A x \in Ends : /\ ~pumpInReads(x) /\ ~pumpInSends(x) /\ ~closeOrCancelForReadError(x)
                      /\ ~relayFirst(x) /\ ~readLoopReads(x) /\ ~deliver(x)
  BY <1>1, Zenon DEF pumpInReads, pumpInSends, closeOrCancelForReadError, relayFirst,
     readLoopReads, deliver, pumps
<1>5. ~acceptPublic /\ ~writeAccept
  <2>1. \A x \in Ends : down' # [down EXCEPT ![x] = "read"]
    BY <1>0
  <2> QED
    BY <1>1, <2>1, TwoEnds, Zenon DEF acceptPublic, writeAccept, StartsRelay
<1>6. ~handlePublicWebSocketReturns /\ ~handleWSStreamReturns
  <2>1. \A x \in Ends : down' # [down EXCEPT ![x] = IF @ = "done" THEN "off" ELSE @]
    BY <1>0
  <2> QED
    BY <2>1, TwoEnds, Zenon DEF handlePublicWebSocketReturns, handleWSStreamReturns, Forgets
<1>7. \A x \in Ends : ~pumpOutWrites(x) /\ ~pumpOutClosed(x)
  <2>1. \A x \in Ends : down' # [down EXCEPT ![x] = "read"] /\ down' # [down EXCEPT ![x] = "done"]
    BY <1>0
  <2> QED
    BY <2>1, Zenon DEF pumpOutWrites, pumpOutClosed, PumpReturns
<1>8. PICK x \in Ends : pumpOutReads(x)
  BY <1>1, <1>2, <1>3, <1>4, <1>5, <1>6, <1>7, NextCases, Zenon
<1>9. down' # [down EXCEPT ![x] = "done"] /\ down' # [down EXCEPT ![x] = "write"]
  BY <1>0, Zenon
<1>10. chan[x] # <<>> /\ TakesFrame(x, Head(chan[x]))
  BY <1>8, <1>9 DEF pumpOutReads, PumpReturns
<1>11. Head(chan[x]) = "close" /\ down' = [down EXCEPT ![x] = "closing"]
  BY <1>9, <1>10 DEF TakesFrame, PumpReturns, ClosesPeer
<1>12. x = e
  BY <1>0, <1>11
<1> QED
  BY <1>10, <1>11, <1>12, Zenon

\* A close is passed on to a peer only after every message that the other peer sent
\* before it, unless the session has ended: pumpAgentToPublic and
\* pumpGatewayToLocal close in the order of the stream.
THEOREM CleanCloseIsCompleteHolds == Spec => CleanCloseIsComplete
<1>1. ASSUME RelayInv, [Next]_vars, NEW e \in Ends, down[e] = "read", down'[e] = "closing", ~done
      PROVE  owed[Other(e)] = 0
  <2>1. chan[e] # <<>> /\ Head(chan[e]) = "close"
    BY <1>1, ClosesOnClose, Zenon
  <2>2. at[e] \in {"relay", "drain"}
    BY <1>1, AtWork
  <2>3. Receives(e)
    BY <1>1, <2>2, Zenon DEF Receives
  <2>4. InOrder(chan[e], loop[e], wire[e], up[Other(e)], Coming(e))
    BY <1>1, <2>3, Zenon DEF RelayInv, Complete
  <2>5. /\ chan[e] \in Seq(Frames) /\ wire[e] \in Seq(Frames) /\ loop[e] \in Loops
        /\ owed[Other(e)] \in Int
    BY <1>1, TwoEnds, Zenon DEF RelayInv, TypeOK, Loops
  <2>6. Coming(e) = owed[Other(e)]
    BY <1>1, <2>2, <2>5, SMTT(30) DEF Coming
  <2> QED
    BY <2>1, <2>4, <2>5, <2>6, TookFrame, Zenon
<1>2. RelayInv /\ [Next]_vars =>
        [\A e \in Ends : (down[e] = "read" /\ down'[e] = "closing" /\ ~done) => owed[Other(e)] = 0]_vars
  BY <1>1
<1> QED
  BY <1>2, RelayInvHolds, PTL DEF Spec, CleanCloseIsComplete

===============================================================================
