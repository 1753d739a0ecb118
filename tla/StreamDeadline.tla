---------------------------- MODULE StreamDeadline ----------------------------
(***************************************************************************)
(* streamDeadline: the request, idle and lifetime timers of one stream, in *)
(* discrete time, with the calls the public handlers make on it and the    *)
(* calls that keep a handler from looking at its context.                  *)
(*                                                                         *)
(* time.AfterFunc runs its function in a goroutine of its own: a timer     *)
(* that expired (in "firing") may cancel the context after a Stop or Reset *)
(* that came too late.                                                     *)
(***************************************************************************)
EXTENDS Integers

CONSTANTS RequestTimeout, IdleTimeout, MaxLifetime,  \* streamDeadlinePolicy
          ReadTimeout,     \* of the public http.Server
          LeaveTimeout,    \* what the last writes and closes of a handler may take
          Horizon          \* bound on time

ASSUME DeadlineAssumption ==
  /\ RequestTimeout \in Nat /\ IdleTimeout \in Nat /\ MaxLifetime \in Nat
  /\ ReadTimeout \in Nat /\ LeaveTimeout \in Nat /\ Horizon \in Nat

VARIABLES elapsed,       \* time since newStreamDeadline
          phase, max,    \* d.phase and d.max: nil, or cause, expiry and whether armed
          firing,        \* causes whose timer function has started
          cause,         \* context.Cause of the stream's context
          stopped,       \* d.stopped
          started,       \* when MarkResponseStarted was called, or Never
          active,        \* when the stream last showed activity
          call, since,   \* the call the handler is in, and when it began to leave
          http           \* an HTTP stream, not a WebSocket one

deadlineVars == <<elapsed, phase, max, firing, cause, stopped, started, active, call, since, http>>

-------------------------------------------------------------------------------
Never == -1
Nil == [cause |-> "nil", at |-> Never, armed |-> FALSE]
AfterFunc(c, d) == [cause |-> c, at |-> elapsed + d, armed |-> TRUE]

Causes == {"request_timeout", "idle_timeout", "max_lifetime"}

\* "send": it reads the public body and writes the request to the agent; "select":
\* it waits for the agent or the context; "client": it is in w.Write; "leave":
\* it writes http.stream.cancel, or the close of a WebSocket, and closes the body.
Calls == {"send", "select", "client", "leave"}

\* Mutant: the request timer is armed with the lifetime.
newStreamDeadlineWrongTimeout ==
  /\ elapsed = 0
  /\ max = [cause |-> "max_lifetime", at |-> MaxLifetime, armed |-> TRUE]
  /\ phase = [cause |-> "request_timeout", at |-> MaxLifetime, armed |-> TRUE]
  /\ firing = {} /\ cause = "none" /\ stopped = FALSE
  /\ started = Never /\ active = 0 /\ since = 0
  /\ http \in BOOLEAN /\ call = IF http THEN "send" ELSE "select"

\* A zero timeout arms no timer.
newStreamDeadline ==
  /\ elapsed = 0
  /\ max = IF MaxLifetime > 0
           THEN [cause |-> "max_lifetime", at |-> MaxLifetime, armed |-> TRUE] ELSE Nil
  /\ phase = IF RequestTimeout > 0
             THEN [cause |-> "request_timeout", at |-> RequestTimeout, armed |-> TRUE] ELSE Nil
  /\ firing = {} /\ cause = "none" /\ stopped = FALSE
  /\ started = Never /\ active = 0 /\ since = 0
  /\ http \in BOOLEAN /\ call = IF http THEN "send" ELSE "select"

-------------------------------------------------------------------------------
\* Mutant: the request timer keeps running.
MarkResponseStartedKeepsTimer ==
  /\ ~stopped /\ started = Never /\ call = "select"
  /\ started' = elapsed /\ active' = elapsed
  /\ UNCHANGED <<elapsed, phase, max, firing, cause, stopped, call, since, http>>

MarkResponseStarted ==
  /\ ~stopped /\ started = Never /\ call = "select"
  /\ phase' = IF IdleTimeout > 0 THEN AfterFunc("idle_timeout", IdleTimeout) ELSE Nil
  /\ started' = elapsed /\ active' = elapsed
  /\ UNCHANGED <<elapsed, max, firing, cause, stopped, call, since, http>>

\* Mutant: activity re-arms the lifetime timer too.
TouchResetsMax ==
  /\ ~stopped /\ started # Never /\ (http => call = "select")
  /\ phase' = [phase EXCEPT !.at = elapsed + IdleTimeout, !.armed = TRUE]
  /\ max' = [max EXCEPT !.at = elapsed + MaxLifetime, !.armed = TRUE]
  /\ active' = elapsed
  /\ call' = IF http THEN "client" ELSE call
  /\ UNCHANGED <<elapsed, firing, cause, stopped, started, since, http>>

\* Reset re-arms the timer with the function it was created with.  The callers
\* touch only after they have marked the response started.  writeResponseBody
\* goes on to w.Write; the writes of a WebSocket relay end with its context.
Touch ==
  /\ ~stopped /\ started # Never
  /\ http => call = "select"
  /\ phase' = IF phase = Nil THEN Nil
              ELSE [phase EXCEPT !.at = elapsed + IdleTimeout, !.armed = TRUE]
  /\ active' = elapsed
  /\ call' = IF http THEN "client" ELSE call
  /\ UNCHANGED <<elapsed, max, firing, cause, stopped, started, since, http>>

Stop ==
  /\ ~stopped /\ stopped' = TRUE
  /\ phase' = [phase EXCEPT !.armed = FALSE]
  /\ max' = [max EXCEPT !.armed = FALSE]
  /\ cause' = IF cause = "none" THEN "parent" ELSE cause
  /\ UNCHANGED <<elapsed, firing, started, active, call, since, http>>

\* A timer expires: its function starts to run ...
FirePhase ==
  /\ phase.armed /\ phase.at <= elapsed
  /\ phase' = [phase EXCEPT !.armed = FALSE]
  /\ firing' = firing \cup {phase.cause}
  /\ UNCHANGED <<elapsed, max, cause, stopped, started, active, call, since, http>>

FireMax ==
  /\ max.armed /\ max.at <= elapsed
  /\ max' = [max EXCEPT !.armed = FALSE]
  /\ firing' = firing \cup {max.cause}
  /\ UNCHANGED <<elapsed, phase, cause, stopped, started, active, call, since, http>>

\* ... and cancels the context; the first cause stays.
RunTimerFunc(c) ==
  /\ c \in firing
  /\ firing' = firing \ {c}
  /\ cause' = IF cause = "none" THEN c ELSE cause
  /\ UNCHANGED <<elapsed, phase, max, stopped, started, active, call, since, http>>

\* The public client goes away.
ParentCanceled ==
  /\ cause = "none" /\ cause' = "parent"
  /\ UNCHANGED <<elapsed, phase, max, firing, stopped, started, active, call, since, http>>

-------------------------------------------------------------------------------
Goes(next) ==
  /\ ~stopped /\ call' = next
  /\ since' = IF next = "leave" THEN elapsed ELSE since
  /\ UNCHANGED <<elapsed, phase, max, firing, cause, stopped, started, active, http>>

\* The whole request has gone to the agent.
RequestSent == call = "send" /\ Goes("select")

\* The client took the chunk.  Nothing else ends w.Write but the connection: the
\* public server has no WriteTimeout, and the context does not reach it.
WriteReturns == call = "client" /\ Goes("select")

\* A read of the body, a write to the agent or one to the client fails, or the
\* agent disconnects or reports an error.
CallFails == call # "leave" /\ Goes("leave")

\* The handler sees that its context is done: in the select, or when a write to
\* the agent fails because of it.
HandlerReturns == cause # "none" /\ call \in {"send", "select"} /\ Goes("leave")

\* The last write is done, and the deferred Body.Close and Stop run.
HandlerLeaves == call = "leave" /\ Stop

\* The local service finishes its response (which starts it if nothing had).
LocalEnds == started # Never /\ call = "select" /\ Stop

\* Expired timers and their functions run before time moves on.  So does a handler
\* whose context is done, unless a call keeps it: reading the body, by hand or in
\* Body.Close, ends at ReadTimeout, the last write after LeaveTimeout, and w.Write
\* when the client pleases.
Urgent ==
  \/ phase.armed /\ phase.at <= elapsed
  \/ max.armed /\ max.at <= elapsed
  \/ firing # {}
  \/ ~stopped /\ cause # "none" /\ call = "select"
  \/ ~stopped /\ cause # "none" /\ call = "send" /\ elapsed >= ReadTimeout
  \/ ~stopped /\ call = "leave" /\ elapsed >= ReadTimeout /\ elapsed >= since + LeaveTimeout

TimePasses ==
  /\ elapsed < Horizon /\ ~Urgent
  /\ elapsed' = elapsed + 1
  /\ UNCHANGED <<phase, max, firing, cause, stopped, started, active, call, since, http>>

DeadlineNext ==
  \/ MarkResponseStarted \/ Touch
  \/ FirePhase \/ FireMax \/ \E c \in Causes : RunTimerFunc(c)
  \/ ParentCanceled
  \/ RequestSent \/ WriteReturns \/ CallFails
  \/ HandlerReturns \/ HandlerLeaves \/ LocalEnds
  \/ TimePasses

DeadlineSpec == newStreamDeadline /\ [][DeadlineNext]_deadlineVars

(* Time passes, expired timers run and a handler that leaves is done with it. *)
(* HandlerReturns is strongly fair: a select that finds its context done and  *)
(* a message of the agent ready takes either at random, and after a write it  *)
(* selects again.  Nothing makes the client read (WriteReturns).              *)
FairSpec ==
  /\ DeadlineSpec
  /\ WF_deadlineVars(TimePasses) /\ WF_deadlineVars(FirePhase) /\ WF_deadlineVars(FireMax)
  /\ \A c \in Causes : WF_deadlineVars(RunTimerFunc(c))
  /\ SF_deadlineVars(HandlerReturns) /\ WF_deadlineVars(HandlerLeaves)

-------------------------------------------------------------------------------
\* The inductive invariant behind EndsInTime and TimersJustified: which timer is
\* the phase timer and what its expiry was computed from, and that a timer of a
\* stream that goes on is armed, or its function runs, or the context is done.
DeadlineTypeOK ==
  /\ elapsed \in Nat /\ started \in Nat \cup {Never} /\ active \in Nat
  /\ stopped \in BOOLEAN /\ firing \subseteq Causes /\ call \in Calls /\ since \in Nat
  /\ phase \in [cause : Causes \cup {"nil"}, at : Int, armed : BOOLEAN]
  /\ max \in [cause : Causes \cup {"nil"}, at : Int, armed : BOOLEAN]

Pending(timer) == timer.armed \/ firing # {} \/ cause # "none"

DeadlineInv ==
  /\ DeadlineTypeOK
  /\ \/ phase = Nil
     \/ phase.cause = "request_timeout" /\ started = Never /\ phase.at = RequestTimeout
     \/ phase.cause = "idle_timeout" /\ started # Never /\ phase.at = active + IdleTimeout
  /\ max = Nil \/ (max.cause = "max_lifetime" /\ max.at = MaxLifetime)
  /\ ~stopped /\ MaxLifetime > 0 => max # Nil /\ Pending(max)
  /\ ~stopped /\ started = Never /\ RequestTimeout > 0 => phase # Nil /\ Pending(phase)

\* A stream goes on past MaxLifetime, whatever activity re-arms the other timer,
\* or without a first response byte past RequestTimeout, only for as long as the
\* call its handler was in takes: reading the public body until the server's
\* ReadTimeout, its last write for LeaveTimeout, and w.Write to a client that does
\* not read for ever.
EndsInTime ==
  [][elapsed' > elapsed /\ ~stopped =>
       \/ call = "client"
       \/ call \in {"send", "leave"} /\ elapsed < ReadTimeout
       \/ call = "leave" /\ elapsed < since + LeaveTimeout
       \/ /\ MaxLifetime > 0 => elapsed < MaxLifetime
          /\ started = Never /\ RequestTimeout > 0 => elapsed < RequestTimeout]_deadlineVars

\* The idle timer expires only after a response started and IdleTimeout passed
\* without activity, and the request timer only while no response has started,
\* however Touch and MarkResponseStarted race with expiry.
TimersJustified ==
  [][/\ "idle_timeout" \in firing' \ firing =>
          started # Never /\ elapsed - active >= IdleTimeout
     /\ "request_timeout" \in firing' \ firing =>
          started = Never /\ elapsed >= RequestTimeout]_deadlineVars

\* An endlessly active stream still ends, unless its client stops reading.
StreamEnds == <>stopped \/ <>[](call = "client")

===============================================================================
