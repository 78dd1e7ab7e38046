------------------------------ MODULE Reactor ------------------------------
(***************************************************************************)
(* The reactor: src/asyncio.rs.  Streams are registered with the           *)
(* platform's edge-triggered poller under tokens; wait_readable waits for  *)
(* a readiness event of one token with a deadline, and round_trip writes   *)
(* on the peer of a stream, waits, and reads.                              *)
(*                                                                         *)
(* The poller and the streams are external: writing to, or closing, the    *)
(* peer of a registered stream makes an event, and so does the platform    *)
(* now and then for no reason; a poll reports the pending events once.     *)
(* Others write to and close peers at any time, and time passes between    *)
(* any two of the caller's steps.  A deadline is kept as the time left     *)
(* until it.                                                               *)
(***************************************************************************)
EXTENDS Naturals, FiniteSets, FiniteSetsExt

CONSTANTS
  Stream,
  Timeouts,   \* the timeouts asked for, besides Duration::MAX
  MaxTokens,  \* bound on the registrations tried
  MaxBytes,   \* bound on the bytes others leave to be read
  ReadMax     \* the size of round_trip's buffer

ASSUME ReactorAssumption ==
  /\ MaxTokens \in Nat /\ MaxBytes \in Nat /\ ReadMax \in Nat \ {0}
  /\ IsFiniteSet(Timeouts) /\ Timeouts \subseteq Nat /\ Timeouts # {} /\ Stream # {}

VARIABLES
  stream,  \* of each stream: bytes to read, peer closed, token (or 0), event pending
  next,    \* Reactor::next
  call     \* the call in progress, or the result of the last one

reactorVars == <<stream, next, call>>

\* Duration::MAX, which makes no deadline.
Eternity == Max(Timeouts) + 1

\* A call: where it is; the token awaited and the stream read; the payload; the
\* time left until its deadline; what it asked wait_readable for, and the time
\* left of that; whether its read was interrupted; and its result.
Idle == [at |-> "idle", op |-> "none", src |-> CHOOSE s \in Stream : TRUE, token |-> 0, bytes |-> 0,
         deadline |-> 0, ask |-> 0, until |-> 0, cut |-> FALSE, result |-> "none"]

ReactorInit ==
  /\ next = 1 /\ call = Idle
  /\ stream = [s \in Stream |-> [bytes |-> 0, closed |-> FALSE, token |-> 0, event |-> FALSE]]

\* Of a call that is over, what its result is judged by.
Ends(result) ==
  call' = [Idle EXCEPT !.result = result, !.src = call.src, !.deadline = call.deadline]
Done == call' = Idle
GoTo(at) == call' = [call EXCEPT !.at = at]

-----------------------------------------------------------------------------
(* Registration *)

\* A token is used up even when the poller refuses a stream it has already; a
\* stream with something to report reports it at once.
register_readable(s) ==
  /\ call.at = "idle" /\ next <= MaxTokens
  /\ next' = next + 1
  /\ IF stream[s].token # 0
     THEN UNCHANGED stream
     ELSE stream' = [stream EXCEPT
                       ![s].token = next,
                       ![s].event = stream[s].bytes > 0 \/ stream[s].closed]
  /\ UNCHANGED call

\* (Of a stream that is registered; of another, an error and no change.)
deregister(s) ==
  /\ call.at = "idle" /\ stream[s].token # 0
  /\ stream' = [stream EXCEPT ![s].token = 0, ![s].event = FALSE]
  /\ UNCHANGED <<next, call>>

-----------------------------------------------------------------------------
(* wait_readable *)

\* Called by the program, with any token it was given.
Wait(token, timeout) ==
  /\ call.at = "idle"
  /\ call' = [Idle EXCEPT !.at = "wait", !.op = "wait", !.token = token,
                          !.deadline = timeout, !.ask = timeout, !.until = timeout]
  /\ UNCHANGED <<stream, next>>

\* Mutant: every round of the loop waits for the whole timeout again.
LookRestarting ==
  /\ call.at = "wait"
  /\ call' = [call EXCEPT !.at = "poll", !.until = call.ask]
  /\ UNCHANGED <<stream, next>>

\* The head of the loop: the deadline has passed, or the poller is asked.
Look ==
  /\ call.at = "wait"
  /\ IF call.until = 0
     THEN Ends(IF call.op = "trip" THEN "TimedOut" ELSE "false")
     ELSE GoTo("poll")
  /\ UNCHANGED <<stream, next>>

Reported == {s \in Stream : stream[s].event}

Silenced == [s \in Stream |-> [stream[s] EXCEPT !.event = FALSE]]

\* Mutant: an event for another token ends the wait.
PollAny ==
  /\ call.at = "poll" /\ Reported # {}
  /\ stream' = Silenced
  /\ IF \E s \in Reported : stream[s].token = call.token
     THEN IF call.op = "trip" THEN GoTo("read") ELSE Done
     ELSE Ends(IF call.op = "trip" THEN "TimedOut" ELSE "false")
  /\ UNCHANGED next

\* The poller reports every pending event, once: the wait ends if one is for
\* the token, and goes on if all are for others.
PollReports ==
  /\ call.at = "poll" /\ Reported # {}
  /\ stream' = Silenced
  /\ IF \E s \in Reported : stream[s].token = call.token
     THEN IF call.op = "trip" THEN GoTo("read") ELSE Done
     ELSE GoTo("wait")
  /\ UNCHANGED next

\* It is interrupted, or the time is up: round the loop again.
PollInterrupted == call.at = "poll" /\ GoTo("wait") /\ UNCHANGED <<stream, next>>

PollTimesOut ==
  /\ call.at = "poll" /\ Reported = {} /\ call.until = 0
  /\ GoTo("wait")
  /\ UNCHANGED <<stream, next>>

\* It fails, and so does the call.
PollFails == call.at = "poll" /\ Done /\ UNCHANGED <<stream, next>>

-----------------------------------------------------------------------------
(* round_trip *)

\* On a registered stream, with its token, some payload and a deadline.
RoundTrip(s, n, timeout) ==
  /\ call.at = "idle" /\ stream[s].token # 0 /\ stream[s].bytes <= MaxBytes
  /\ call' = [Idle EXCEPT !.at = "write", !.op = "trip", !.src = s, !.token = stream[s].token,
                          !.bytes = n, !.deadline = timeout]
  /\ UNCHANGED <<stream, next>>

\* write_all on the peer, which may have been closed.
WriteAll ==
  /\ call.at = "write"
  /\ IF stream[call.src].closed /\ call.bytes > 0
     THEN Done /\ UNCHANGED stream
     ELSE /\ stream' = [stream EXCEPT ![call.src].bytes = @ + call.bytes,
                                      ![call.src].event = @ \/ call.bytes > 0]
          /\ GoTo("trip")
  /\ UNCHANGED next

\* The head of its loop, which reads the clock; wait_readable reads it again to
\* make a deadline of what remained.
Trip ==
  /\ call.at = "trip"
  /\ IF call.deadline = 0 THEN Ends("TimedOut")
     ELSE call' = [call EXCEPT !.at = "enter", !.ask = call.deadline]
  /\ UNCHANGED <<stream, next>>

Enter ==
  /\ call.at = "enter"
  /\ call' = [call EXCEPT !.at = "wait", !.until = call.ask]
  /\ UNCHANGED <<stream, next>>

\* The read after a readiness event: bytes, the end of the stream, or nothing
\* after all.
Read ==
  /\ call.at = "read"
  /\ IF stream[call.src].bytes > 0
     THEN /\ stream' = [stream EXCEPT ![call.src].bytes = @ - Min({@, ReadMax})]
          /\ Done
     ELSE /\ IF stream[call.src].closed THEN Ends("UnexpectedEof") ELSE GoTo("trip")
          /\ UNCHANGED stream
  /\ UNCHANGED next

\* An interrupted read waits for another event; any other error ends the call.
ReadInterrupted ==
  /\ call.at = "read"
  /\ call' = [call EXCEPT !.at = "trip", !.cut = TRUE]
  /\ UNCHANGED <<stream, next>>

ReadFails == call.at = "read" /\ Done /\ UNCHANGED <<stream, next>>

-----------------------------------------------------------------------------
(* Everybody else *)

Sooner(d) == IF d \in {0, Eternity} THEN d ELSE d - 1

Tick ==
  /\ call.at # "idle"
  /\ call' = [call EXCEPT !.deadline = Sooner(@), !.until = Sooner(@)]
  /\ UNCHANGED <<stream, next>>

PeerWrites(s) ==
  /\ ~stream[s].closed /\ stream[s].bytes < MaxBytes
  /\ stream' = [stream EXCEPT ![s].bytes = @ + 1, ![s].event = stream[s].token # 0]
  /\ UNCHANGED <<next, call>>

PeerCloses(s) ==
  /\ ~stream[s].closed
  /\ stream' = [stream EXCEPT ![s].closed = TRUE, ![s].event = stream[s].token # 0]
  /\ UNCHANGED <<next, call>>

Spurious(s) ==
  /\ stream[s].token # 0 /\ ~stream[s].event
  /\ stream' = [stream EXCEPT ![s].event = TRUE]
  /\ UNCHANGED <<next, call>>

CallerStep == WriteAll \/ Trip \/ Enter \/ Look \/ PollReports \/ PollTimesOut \/ Read

ReactorNext ==
  \/ \E s \in Stream : register_readable(s) \/ deregister(s)
  \/ \E timeout \in Timeouts \cup {Eternity} :
       \/ \E token \in 1..(next - 1) : Wait(token, timeout)
       \/ \E s \in Stream, n \in 0..1 : RoundTrip(s, n, timeout)
  \/ CallerStep
  \/ PollInterrupted \/ PollFails \/ ReadInterrupted \/ ReadFails
  \/ Tick
  \/ \E s \in Stream : PeerWrites(s) \/ PeerCloses(s) \/ Spurious(s)

ReactorSpec == ReactorInit /\ [][ReactorNext]_reactorVars

\* The caller goes on and time passes; a poll is not interrupted for ever while
\* an event is pending.
ReactorFairness ==
  WF_reactorVars(CallerStep) /\ SF_reactorVars(PollReports) /\ WF_reactorVars(Tick)

-----------------------------------------------------------------------------
(* Properties *)

\* A call gives up only when its deadline has passed, whatever interrupts,
\* events of other streams and spurious events came in between; and a round
\* trip reports the end of the stream only when the peer closed it.
EndsForAReason ==
  /\ call.result \in {"TimedOut", "false"} => call.deadline = 0
  /\ call.result = "UnexpectedEof" => stream[call.src].closed

\* A call that has a deadline returns, whatever events and interrupts keep
\* coming; and so does a round trip without one whose payload is not empty,
\* also when earlier events were consumed by waits for other tokens: its own
\* write makes an event.  (Unless the read itself is interrupted, which waits
\* for an event that was consumed.)
ReactorReturns ==
  (call.at # "idle" /\ (call.deadline # Eternity \/ (call.op = "trip" /\ call.bytes > 0)))
    ~> (call.at = "idle" \/ call.cut)

=============================================================================
