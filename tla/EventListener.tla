--------------------------- MODULE EventListener ---------------------------
(***************************************************************************)
(* EventListener (event_listener.go): Start launches one goroutine per     *)
(* registered handler; each subscribes, drains its channels, and           *)
(* reconnects with exponential backoff until it is cancelled, meets a      *)
(* fatal error or runs out of retries.  Stop cancels and waits.  Any       *)
(* number of goroutines call Start and Stop.                               *)
(*                                                                         *)
(* The two channels of a subscription are `queue` (events sent and not yet *)
(* taken) and `err` (how the stream ended, None while it is open).         *)
(* EventClient is an interface: the channel may buffer Capacity events,    *)
(* and the stream may end while some are buffered.  The SDK's own          *)
(* transports send on unbuffered channels, where it ends only with none.   *)
(***************************************************************************)
EXTENDS Integers, SequencesExt

CONSTANTS Controllers,     \* goroutines that call Start and Stop
          Streams,         \* event types with a registered handler
          Replay,          \* the filter has a StartTimestamp
          Capacity,        \* events the channel holds
          MaxRetries,
          InitialBackoff,
          MaxBackoff,
          BackoffMultiplier,
          MaxStarts,       \* bound on successful Start calls
          MaxEvents,       \* bound on events of a stream
          None

ASSUME BoundAssumption ==
    {Capacity, MaxRetries, InitialBackoff, MaxBackoff, BackoffMultiplier,
     MaxStarts, MaxEvents} \subseteq Nat \ {0}

VARIABLES running,    \* EventListener.running
          generation, \* Start calls so far; the context l.cancel belongs to
          cancelled,  \* generations whose context is done
          stopping,   \* how far each controller is in Stop
          thread,     \* thread[s, g]: the goroutine of stream s, generation g
          log,        \* events tapd has produced for each stream
          handled,    \* events the handler of each stream was called with
          reconnects  \* reconnections of each goroutine since its last event

control == <<running, generation, cancelled, stopping>>
vars == <<control, thread, log, handled, reconnects>>

Generations == 1..MaxStarts

\* isFatalError of the terminal error; a clean close has none and is not fatal.
Errors == {"fatal", "retriable"}

Threads ==
    [pc : {"none", "subscribing", "polling", "waiting", "sleeping",
           "stopped", "failed", "exhausted"},
     retries : 0..MaxRetries, backoff : Nat, delivered : BOOLEAN,
     queue : BoundedSeq(1..MaxEvents, Capacity), err : Errors \cup {None},
     from : 0..MaxEvents, cursor : 0..MaxEvents]

Goroutines == Streams \X Generations

Fresh(pc) ==
    [pc |-> pc, retries |-> 0, backoff |-> InitialBackoff, delivered |-> FALSE,
     queue |-> <<>>, err |-> None, from |-> 0, cursor |-> 0]

Ended(pc) == pc \in {"stopped", "failed", "exhausted"}

Live == {t \in Goroutines :
            thread[t].pc # "none" /\ ~Ended(thread[t].pc)}

Init ==
    /\ running = FALSE
    /\ generation = 0
    /\ cancelled = {}
    /\ stopping = [c \in Controllers |-> "no"]
    /\ thread = [t \in Goroutines |-> Fresh("none")]
    /\ log = [s \in Streams |-> 0]
    /\ handled = [s \in Streams |-> {}]
    /\ reconnects = [t \in Goroutines |-> 0]

-----------------------------------------------------------------------------
(* Start, Stop, and the context the caller gave to Start *)

Start(c) ==
    /\ stopping[c] = "no"
    /\ ~running
    /\ generation < MaxStarts
    /\ running' = TRUE
    /\ generation' = generation + 1
    /\ thread' = [t \in Goroutines |->
                     IF t[2] = generation + 1 THEN Fresh("subscribing")
                                              ELSE thread[t]]
    /\ UNCHANGED <<cancelled, stopping, log, handled, reconnects>>

\* Under the lock: cancel whatever Start launched last.
StopCancels(c) ==
    /\ stopping[c] = "no"
    /\ running
    /\ cancelled' = cancelled \cup {generation}
    /\ stopping' = [stopping EXCEPT ![c] = "waiting"]
    /\ UNCHANGED <<running, generation, thread, log, handled, reconnects>>

\* Faulty variant: Stop does not wait for the goroutines.
Immediately == TRUE

\* l.wg.Wait(), without the lock.
AllDone == Live = {}

StopWaited(c) ==
    /\ stopping[c] = "waiting"
    /\ AllDone
    /\ stopping' = [stopping EXCEPT ![c] = "clearing"]
    /\ UNCHANGED <<running, generation, cancelled, thread, log, handled,
                   reconnects>>

StopClears(c) ==
    /\ stopping[c] = "clearing"
    /\ running' = FALSE
    /\ stopping' = [stopping EXCEPT ![c] = "no"]
    /\ UNCHANGED <<generation, cancelled, thread, log, handled, reconnects>>

CallerCancels ==
    /\ generation > 0
    /\ cancelled' = cancelled \cup {generation}
    /\ UNCHANGED <<running, generation, stopping, thread, log, handled,
                   reconnects>>

-----------------------------------------------------------------------------
(* tapd and the transport's side of the channels *)

Produce(s) ==
    /\ log[s] < MaxEvents
    /\ log' = [log EXCEPT ![s] = @ + 1]
    /\ UNCHANGED <<control, thread, handled, reconnects>>

Draining(t) == thread[t].pc \in {"polling", "waiting"}

Send(t) ==
    /\ Draining(t)
    /\ thread[t].err = None
    /\ thread[t].cursor < log[t[1]]
    /\ Len(thread[t].queue) < Capacity
    /\ thread' = [thread EXCEPT
                     ![t].queue = Append(@, thread[t].cursor + 1),
                     ![t].cursor = @ + 1]
    /\ UNCHANGED <<control, log, handled, reconnects>>

Break(t) ==
    /\ Draining(t)
    /\ thread[t].err = None
    /\ \E error \in Errors : thread' = [thread EXCEPT ![t].err = error]
    /\ UNCHANGED <<control, log, handled, reconnects>>

-----------------------------------------------------------------------------
(* runStream: what follows a subscription that ended *)

Exit(t, pc) == thread' = [thread EXCEPT ![t] = Fresh(pc)]

\* Faulty variant: delivered events do not count.
KeepRetries(th, delivered) ==
    [retries |-> th.retries + 1, backoff |-> th.backoff]

\* Faulty variant: the retries are never counted.
NeverCount(th, delivered) == [retries |-> 1, backoff |-> th.backoff]

\* An event resets the retry counter and the backoff.
CountRetry(th, delivered) ==
    IF delivered
    THEN [retries |-> 1, backoff |-> InitialBackoff]
    ELSE [retries |-> th.retries + 1, backoff |-> th.backoff]

SubscriptionOver(t, error, delivered) ==
    LET next == CountRetry(thread[t], delivered)
    IN  \/ t[2] \in cancelled /\ Exit(t, "stopped")
        \/ /\ t[2] \notin cancelled
           /\ error = "fatal"
           /\ Exit(t, "failed")
        \/ /\ t[2] \notin cancelled
           /\ error # "fatal"
           /\ next.retries > MaxRetries
           /\ Exit(t, "exhausted")
        \/ /\ t[2] \notin cancelled
           /\ error # "fatal"
           /\ next.retries <= MaxRetries
           /\ thread' = [thread EXCEPT
                            ![t].pc = "sleeping", ![t].retries = next.retries,
                            ![t].backoff = next.backoff,
                            ![t].queue = <<>>, ![t].err = None]

Wake(t) ==
    /\ thread[t].pc = "sleeping"
    /\ thread' = [thread EXCEPT
                     ![t].pc = "subscribing",
                     ![t].backoff = IF @ * BackoffMultiplier < MaxBackoff
                                    THEN @ * BackoffMultiplier ELSE MaxBackoff]
    /\ reconnects' = [reconnects EXCEPT ![t] = @ + 1]
    /\ UNCHANGED <<control, log, handled>>

SleepInterrupted(t) ==
    /\ thread[t].pc = "sleeping"
    /\ t[2] \in cancelled
    /\ Exit(t, "stopped")
    /\ UNCHANGED <<control, log, handled, reconnects>>

-----------------------------------------------------------------------------
(* subscribeReceive, subscribeSend, subscribeMint and drainEvents *)

Subscribe(t) ==
    /\ thread[t].pc = "subscribing"
    /\ LET start == IF Replay THEN 0 ELSE log[t[1]]
       IN  thread' = [thread EXCEPT
                         ![t].pc = "polling", ![t].delivered = FALSE,
                         ![t].from = start, ![t].cursor = start]
    /\ UNCHANGED <<control, log, handled, reconnects>>

SubscribeFails(t) ==
    /\ thread[t].pc = "subscribing"
    /\ \E error \in Errors : SubscriptionOver(t, error, FALSE)
    /\ UNCHANGED <<control, log, handled, reconnects>>

Handle(t, events) ==
    /\ handled' = [handled EXCEPT ![t[1]] = @ \cup events]
    /\ reconnects' = [reconnects EXCEPT ![t] = IF events = {} THEN @ ELSE 0]

\* Either select takes an event: the handler runs, then pending ones go first.
TakeEvent(t) ==
    /\ Draining(t)
    /\ thread[t].queue # <<>>
    /\ Handle(t, {Head(thread[t].queue)})
    /\ thread' = [thread EXCEPT
                     ![t].pc = "polling", ![t].delivered = TRUE,
                     ![t].queue = Tail(@)]
    /\ UNCHANGED <<control, log>>

NothingPending(t) ==
    /\ thread[t].pc = "polling"
    /\ thread[t].queue = <<>> /\ thread[t].err = None
    /\ thread' = [thread EXCEPT ![t].pc = "waiting"]
    /\ UNCHANGED <<control, log, handled, reconnects>>

\* Faulty variant: the error returns at once.
ReturnAtOnce(t) == {}

\* What is still buffered when the error is read.
Remaining(t) == ToSet(thread[t].queue)

\* The event channel is closed and empty, or the blocking select reads the error
\* channel first: what is still buffered is handled before the error returns.
StreamEnds(t) ==
    /\ Draining(t)
    /\ thread[t].err # None
    /\ thread[t].pc = "waiting" \/ thread[t].queue = <<>>
    /\ Handle(t, Remaining(t))
    /\ SubscriptionOver(t, thread[t].err,
                        thread[t].delivered \/ Remaining(t) # {})
    /\ UNCHANGED <<control, log>>

\* Faulty variant: drainEvents does not watch the context.
Unwatched(t) == FALSE

ContextWatched(t) == t[2] \in cancelled

ContextDone(t) ==
    /\ thread[t].pc = "waiting"
    /\ ContextWatched(t)
    /\ Exit(t, "stopped")
    /\ UNCHANGED <<control, log, handled, reconnects>>

-----------------------------------------------------------------------------
Goroutine(t) ==
    \/ Subscribe(t) \/ SubscribeFails(t)
    \/ TakeEvent(t) \/ NothingPending(t) \/ StreamEnds(t) \/ ContextDone(t)
    \/ Wake(t) \/ SleepInterrupted(t)

StopReturnsNext(c) == StopWaited(c) \/ StopClears(c)

Next ==
    \/ \E c \in Controllers : Start(c) \/ StopCancels(c) \/ StopReturnsNext(c)
    \/ CallerCancels
    \/ \E s \in Streams : Produce(s)
    \/ \E t \in Goroutines : Send(t) \/ Break(t) \/ Goroutine(t)

Spec == Init /\ [][Next]_vars

\* A cancelled goroutine gets on: the Go scheduler runs it, a select with a ready
\* case returns, transports give a dial and a receive up with their context, and
\* handlers return.  tapd and the callers owe nothing.
Fairness ==
    /\ \A c \in Controllers : WF_vars(StopReturnsNext(c))
    /\ \A t \in Goroutines :
          WF_vars(t[2] \in cancelled /\ Goroutine(t))

FairSpec == Spec /\ Fairness
-----------------------------------------------------------------------------
(* Properties *)

\* The type invariant.
TypeOK ==
    /\ running \in BOOLEAN
    /\ generation \in 0..MaxStarts
    /\ cancelled \subseteq 1..generation
    /\ stopping \in [Controllers -> {"no", "waiting", "clearing"}]
    /\ thread \in [Goroutines -> Threads]
    /\ log \in [Streams -> 0..MaxEvents]
    /\ handled \in [Streams -> SUBSET (1..MaxEvents)]
    /\ reconnects \in [Goroutines -> 0..MaxRetries]

\* Start refuses while a listener runs and Stop "waits for goroutines to exit.
\* Safe to call multiple times" (event_listener.go:192, :224): no stream ever has
\* two goroutines, which would call its handler twice for every event.
OneGoroutinePerStream ==
    \A t, u \in Live : t[1] = u[1] => t = u

\* What a transport sent before its stream broke reaches the handler, whichever
\* channel the select reads first: when a goroutine sleeps before reconnecting,
\* or waits, nothing that was sent is missing (event_listener.go:416).
NothingSentIsLost ==
    \A t \in Live :
        LET sent == (thread[t].from + 1)..thread[t].cursor
        IN  sent \subseteq handled[t[1]] \cup ToSet(thread[t].queue)

Power[n \in Nat] == IF n = 0 THEN 1 ELSE BackoffMultiplier * Power[n - 1]

\* MaxBackoff bounds what the delay grows to, not the delay before the first
\* reconnection (event_listener.go:325).
BackoffAfter(n) ==
    LET delay == InitialBackoff * Power[n]
    IN  IF n = 0 \/ delay < MaxBackoff THEN delay ELSE MaxBackoff

\* A stream that broke waits as long as its configuration says for the number of
\* reconnections since its last event, and OnError reports exhaustion after
\* exactly MaxRetries of them (event_listener.go:66-80).
RetryPolicyKept ==
    \A t \in Goroutines :
        /\ thread[t].pc = "sleeping" =>
               /\ thread[t].backoff = BackoffAfter(reconnects[t])
               /\ reconnects[t] < MaxRetries
        /\ thread[t].pc = "exhausted" => reconnects[t] = MaxRetries

\* A call of Stop returns: every goroutine notices the cancellation wherever it
\* is, and none misses it.
StopReturns ==
    \A c \in Controllers : stopping[c] # "no" ~> stopping[c] = "no"
=============================================================================
