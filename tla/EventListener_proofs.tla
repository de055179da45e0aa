------------------------ MODULE EventListener_proofs ------------------------
(***************************************************************************)
(* A listener that one goroutine at a time starts and stops never runs two *)
(* goroutines for a stream, for any number of streams, events, retries and *)
(* starts.  The inductive invariant says why: live goroutines belong to    *)
(* the last start, they exist only while `running` is set, and a Stop that *)
(* has finished waiting finds none.  ConcurrentStops.cfg shows that the    *)
(* assumption of a single controller is needed.  The second half of the    *)
(* module shows that no event is lost, for any number of controllers.      *)
(***************************************************************************)
EXTENDS EventListener, Sums, TLAPS

\* Live goroutines are those of the listener that is running.
LiveIsCurrent == \A t \in Live : running /\ t[2] = generation

\* A Stop in progress keeps the listener running until it clears it itself, and
\* once it has waited nothing is live.
StopHoldsListener ==
    \A c \in Controllers :
        /\ stopping[c] # "no" => running
        /\ stopping[c] = "clearing" => Live = {}

IInv ==
    /\ thread = [t \in Goroutines |-> thread[t]]
    /\ stopping \in [Controllers -> {"no", "waiting", "clearing"}]
    /\ LiveIsCurrent
    /\ StopHoldsListener

LEMMA InitIInv == Init => IInv
  BY DEF Init, IInv, LiveIsCurrent, StopHoldsListener, Live, Fresh, Ended

\* A step that changes only the record of a live goroutine, or no record at all,
\* brings no goroutine to life.
LEMMA OthersStayDead ==
  ASSUME thread = [t \in Goroutines |-> thread[t]],
         NEW t \in Live, NEW r,
         thread' = [thread EXCEPT ![t] = r]
  PROVE  /\ thread' = [u \in Goroutines |-> thread'[u]]
         /\ Live' \subseteq Live
  BY DEF Live, Goroutines

\* What a step of a live goroutine, or of its transport, leaves alone.
LEMMA GoroutineStep ==
  ASSUME IInv, NEW t \in Goroutines,
         Send(t) \/ Break(t) \/ Goroutine(t)
  PROVE  /\ t \in Live
         /\ UNCHANGED control
         /\ \E r : thread' = [thread EXCEPT ![t] = r]
<1> USE DEF Live, Ended, Draining, control
<1>1. CASE Send(t)
  BY <1>1 DEF Send
<1>2. CASE Break(t)
  BY <1>2 DEF Break
<1>3. CASE Subscribe(t)
  BY <1>3 DEF Subscribe
<1>4. ASSUME NEW error, NEW delivered, SubscriptionOver(t, error, delivered)
      PROVE  \E r : thread' = [thread EXCEPT ![t] = r]
  BY <1>4 DEF SubscriptionOver, Exit
<1>5. CASE SubscribeFails(t)
  BY <1>4, <1>5 DEF SubscribeFails
<1>6. CASE TakeEvent(t)
  BY <1>6 DEF TakeEvent
<1>7. CASE NothingPending(t)
  BY <1>7 DEF NothingPending
<1>8. CASE StreamEnds(t)
  BY <1>4, <1>8 DEF StreamEnds
<1>9. CASE ContextDone(t)
  BY <1>9 DEF ContextDone, Exit
<1>10. CASE Wake(t)
  BY <1>10 DEF Wake
<1>11. CASE SleepInterrupted(t)
  BY <1>11 DEF SleepInterrupted, Exit
<1> QED
  BY <1>1, <1>2, <1>3, <1>5, <1>6, <1>7, <1>8, <1>9, <1>10, <1>11 DEF Goroutine

LEMMA NextIInv ==
  ASSUME NEW main, Controllers = {main}
  PROVE  IInv /\ [Next]_vars => IInv'
<1> SUFFICES ASSUME IInv, [Next]_vars
             PROVE  IInv'
  OBVIOUS
<1> USE DEF IInv, LiveIsCurrent, StopHoldsListener
<1>1. ASSUME NEW c \in Controllers, Start(c)
      PROVE  IInv'
  <2>1. Live = {} /\ \A d \in Controllers : stopping[d] = "no"
    BY <1>1 DEF Start
  <2>2. /\ thread' = [t \in Goroutines |-> thread'[t]]
        /\ \A t \in Live' : t[2] = generation'
    BY <1>1, <2>1 DEF Start, Live
  <2> QED
    BY <1>1, <2>1, <2>2 DEF Start
<1>2. ASSUME NEW c \in Controllers, StopCancels(c)
      PROVE  IInv'
  BY <1>2 DEF StopCancels, Live
<1>3. ASSUME NEW c \in Controllers, StopWaited(c)
      PROVE  IInv'
  BY <1>3 DEF StopWaited, AllDone, Live
<1>4. ASSUME NEW c \in Controllers, StopClears(c)
      PROVE  IInv'
  <2>1. Live = {} /\ Live' = Live
    BY <1>4 DEF StopClears, Live
  <2> QED
    BY <1>4, <2>1 DEF StopClears
<1>5. CASE CallerCancels
  BY <1>5 DEF CallerCancels, Live
<1>6. ASSUME NEW s \in Streams, Produce(s)
      PROVE  IInv'
  BY <1>6 DEF Produce, control, Live
<1>7. ASSUME NEW t \in Goroutines, Send(t) \/ Break(t) \/ Goroutine(t)
      PROVE  IInv'
  <2>1. PICK r : thread' = [thread EXCEPT ![t] = r]
    BY <1>7, GoroutineStep
  <2>2. t \in Live /\ UNCHANGED control
    BY <1>7, GoroutineStep
  <2>3. /\ thread' = [u \in Goroutines |-> thread'[u]]
        /\ Live' \subseteq Live
    BY <2>1, <2>2, OthersStayDead
  <2> QED
    BY <2>2, <2>3 DEF control
<1>8. CASE UNCHANGED vars
  BY <1>8 DEF vars, control, Live
<1> QED
  BY <1>1, <1>2, <1>3, <1>4, <1>5, <1>6, <1>7, <1>8 DEF Next, StopReturnsNext

\* With a single controller Start never meets a goroutine of an earlier start:
\* Stop returns only after all of them are gone (event_listener.go:235).
THEOREM OneListener ==
  ASSUME NEW main, Controllers = {main}
  PROVE  Spec => []OneGoroutinePerStream
<1>1. Init => IInv
  BY InitIInv
<1>2. IInv /\ [Next]_vars => IInv'
  BY NextIInv
<1>3. IInv => OneGoroutinePerStream
  BY DEF IInv, LiveIsCurrent, OneGoroutinePerStream, Live, Goroutines
<1> QED
  BY <1>1, <1>2, <1>3, PTL DEF Spec
-----------------------------------------------------------------------------
(***************************************************************************)
(* Nothing a transport sent is lost, for any number of controllers,        *)
(* streams and events.  Each goroutine keeps this for itself, and the      *)
(* handlers' events only grow: the argument is about one record.           *)
(***************************************************************************)

Fields == DOMAIN Fresh("none")

\* What one goroutine owes: its channel is empty while it is not subscribed, and
\* what was sent since it subscribed is in its channel or was handled.
KeepsEvents(th, events) ==
    /\ DOMAIN th = Fields
    /\ th.from \in Nat
    /\ th.cursor \in Nat
    /\ th.queue \in Seq(Nat)
    /\ th.pc \notin {"polling", "waiting"} => th.queue = <<>>
    /\ (th.from + 1)..th.cursor \subseteq events \cup ToSet(th.queue)

EventInv ==
    /\ log \in [Streams -> Nat]
    /\ handled = [s \in Streams |-> handled[s]]
    /\ thread = [t \in Goroutines |-> thread[t]]
    /\ \A t \in Goroutines : KeepsEvents(thread[t], handled[t[1]])

\* Taking the first event, or adding a last one, changes a channel by that event.
LEMMA ChannelContents ==
  ASSUME NEW q \in Seq(Nat)
  PROVE  /\ \A n \in Nat : /\ Append(q, n) \in Seq(Nat)
                           /\ ToSet(Append(q, n)) = ToSet(q) \cup {n}
         /\ q # <<>> => /\ Tail(q) \in Seq(Nat)
                        /\ ToSet(q) = {Head(q)} \cup ToSet(Tail(q))
         /\ ToSet(<<>>) = {}
<1>1. ASSUME NEW n \in Nat
      PROVE  /\ Append(q, n) \in Seq(Nat)
             /\ ToSet(Append(q, n)) = ToSet(q) \cup {n}
  <2>1. /\ Append(q, n) \in Seq(Nat)
        /\ DOMAIN Append(q, n) = 1..(Len(q) + 1)
        /\ \A i \in 1..Len(q) : Append(q, n)[i] = q[i]
        /\ Append(q, n)[Len(q) + 1] = n
        /\ DOMAIN q = 1..Len(q) /\ Len(q) \in Nat
    OBVIOUS
  <2>2. 1..(Len(q) + 1) = 1..Len(q) \cup {Len(q) + 1}
    BY <2>1
  <2> QED
    BY <2>1, <2>2 DEF ToSet
<1>2. ASSUME q # <<>>
      PROVE  /\ Tail(q) \in Seq(Nat)
             /\ ToSet(q) = {Head(q)} \cup ToSet(Tail(q))
  <2>1. /\ Tail(q) \in Seq(Nat) /\ Len(q) \in Nat /\ Len(q) > 0
        /\ DOMAIN q = 1..Len(q) /\ DOMAIN Tail(q) = 1..(Len(q) - 1)
        /\ \A i \in 1..(Len(q) - 1) : Tail(q)[i] = q[i + 1]
        /\ Head(q) = q[1]
    BY <1>2
  <2>2. ASSUME NEW i \in 1..Len(q)
        PROVE  i = 1 \/ (i - 1 \in DOMAIN Tail(q) /\ Tail(q)[i - 1] = q[i])
    BY <2>1
  <2>3. ASSUME NEW i \in DOMAIN Tail(q)
        PROVE  i + 1 \in DOMAIN q /\ Tail(q)[i] = q[i + 1]
    BY <2>1
  <2>4. ASSUME NEW x \in ToSet(q)
        PROVE  x \in {Head(q)} \cup ToSet(Tail(q))
    <3>1. PICK i \in 1..Len(q) : x = q[i]
      BY <2>1, <2>4 DEF ToSet
    <3>2. CASE i = 1
      BY <2>1, <3>1, <3>2
    <3>3. CASE i # 1
      BY <2>2, <3>1, <3>3 DEF ToSet
    <3> QED
      BY <3>2, <3>3
  <2>5. ToSet(Tail(q)) \subseteq ToSet(q)
    BY <2>3 DEF ToSet
  <2>6. 1 \in DOMAIN q
    BY <2>1
  <2>7. Head(q) \in ToSet(q)
    BY <2>1, <2>6 DEF ToSet
  <2> QED
    BY <2>1, <2>4, <2>5, <2>7
<1>3. ToSet(<<>>) = {}
  BY DEF ToSet
<1> QED
  BY <1>1, <1>2, <1>3

LEMMA FreshKeepsEvents ==
  ASSUME NEW pc, NEW events
  PROVE  KeepsEvents(Fresh(pc), events)
<1>1. DOMAIN Fresh(pc) = Fields
  BY DEF Fresh, Fields
<1>2. (0 + 1)..0 = {}
  OBVIOUS
<1> QED
  BY <1>1, <1>2 DEF Fresh, KeepsEvents

\* A subscription that is over leaves an empty channel, and everything it had
\* sent has been handled by then.
LEMMA OverKeepsEvents ==
  ASSUME EventInv, NEW t \in Goroutines, NEW events, NEW error, NEW delivered,
         SubscriptionOver(t, error, delivered),
         (thread[t].from + 1)..thread[t].cursor \subseteq events
  PROVE  /\ thread' = [thread EXCEPT ![t] = thread'[t]]
         /\ KeepsEvents(thread'[t], events)
<1> USE DEF EventInv, KeepsEvents
<1>1. ASSUME NEW pc, Exit(t, pc)
      PROVE  /\ thread' = [thread EXCEPT ![t] = thread'[t]]
             /\ KeepsEvents(thread'[t], events)
  <2>1. thread'[t] = Fresh(pc)
    BY <1>1 DEF Exit
  <2> QED
    BY <1>1, <2>1, FreshKeepsEvents DEF Exit
<1>2. ASSUME NEW retries, NEW backoff,
             thread' = [thread EXCEPT
                           ![t].pc = "sleeping", ![t].retries = retries,
                           ![t].backoff = backoff,
                           ![t].queue = <<>>, ![t].err = None]
      PROVE  /\ thread' = [thread EXCEPT ![t] = thread'[t]]
             /\ KeepsEvents(thread'[t], events)
  <2>1. /\ thread'[t].queue = <<>>
        /\ thread'[t].from = thread[t].from
        /\ thread'[t].cursor = thread[t].cursor
        /\ DOMAIN thread'[t] = Fields
    BY <1>2 DEF Fresh, Fields
  <2>2. thread' = [thread EXCEPT ![t] = thread'[t]]
    BY <1>2
  <2>3. <<>> \in Seq(Nat)
    OBVIOUS
  <2> QED
    BY <2>1, <2>2, <2>3
<1> DEFINE next == CountRetry(thread[t], delivered)
<1>3. CASE \E pc : Exit(t, pc)
  BY <1>1, <1>3
<1>4. CASE thread' = [thread EXCEPT
                         ![t].pc = "sleeping", ![t].retries = next.retries,
                         ![t].backoff = next.backoff,
                         ![t].queue = <<>>, ![t].err = None]
  <2> HIDE DEF next
  <2> QED
    BY <1>2, <1>4
<1> QED
  BY <1>3, <1>4 DEF SubscriptionOver

LEMMA GoroutineKeepsEvents ==
  ASSUME EventInv, NEW t \in Goroutines, Send(t) \/ Break(t) \/ Goroutine(t)
  PROVE  /\ thread' = [thread EXCEPT ![t] = thread'[t]]
         /\ handled' = [s \in Streams |-> handled'[s]]
         /\ \A s \in Streams : handled[s] \subseteq handled'[s]
         /\ KeepsEvents(thread'[t], handled'[t[1]])
         /\ log' = log
<1> DEFINE Goal == /\ thread' = [thread EXCEPT ![t] = thread'[t]]
                   /\ handled' = [s \in Streams |-> handled'[s]]
                   /\ \A s \in Streams : handled[s] \subseteq handled'[s]
                   /\ KeepsEvents(thread'[t], handled'[t[1]])
                   /\ log' = log
<1> USE DEF EventInv, KeepsEvents
<1>s. t[1] \in Streams
  BY DEF Goroutines
<1>1. CASE Send(t)
  <2>1. /\ thread'[t].queue = Append(thread[t].queue, thread[t].cursor + 1)
        /\ thread'[t].cursor = thread[t].cursor + 1
        /\ thread'[t].from = thread[t].from
        /\ thread'[t].pc = thread[t].pc
        /\ DOMAIN thread'[t] = Fields
        /\ thread' = [thread EXCEPT ![t] = thread'[t]]
        /\ log' = log /\ handled' = handled
    BY <1>1 DEF Send, Fresh, Fields
  <2>2. (thread'[t].from + 1)..thread'[t].cursor
            \subseteq (thread[t].from + 1)..thread[t].cursor
                          \cup {thread[t].cursor + 1}
    BY <2>1
  <2>3. /\ thread'[t].queue \in Seq(Nat)
        /\ ToSet(thread'[t].queue)
               = ToSet(thread[t].queue) \cup {thread[t].cursor + 1}
    BY <2>1, ChannelContents
  <2> QED
    BY <1>1, <1>s, <2>1, <2>2, <2>3 DEF Send, Draining
<1>2. CASE Break(t)
  BY <1>2, <1>s DEF Break, Fresh, Fields
<1>3. CASE Subscribe(t)
  <2>1. PICK start \in Nat :
            thread' = [thread EXCEPT
                         ![t].pc = "polling", ![t].delivered = FALSE,
                         ![t].from = start, ![t].cursor = start]
    BY <1>3, <1>s DEF Subscribe
  <2>2. thread[t].queue = <<>>
    BY <1>3 DEF Subscribe
  <2>3. /\ DOMAIN thread'[t] = Fields
        /\ thread'[t].from = start /\ thread'[t].cursor = start
        /\ thread'[t].queue = <<>>
        /\ thread' = [thread EXCEPT ![t] = thread'[t]]
    BY <2>1, <2>2 DEF Fresh, Fields
  <2>4. (start + 1)..start = {}
    OBVIOUS
  <2> QED
    BY <1>3, <1>s, <2>3, <2>4 DEF Subscribe
<1>4. CASE SubscribeFails(t)
  <2>1. (thread[t].from + 1)..thread[t].cursor \subseteq handled[t[1]]
    BY <1>4, ChannelContents DEF SubscribeFails
  <2>2. /\ thread' = [thread EXCEPT ![t] = thread'[t]]
        /\ KeepsEvents(thread'[t], handled[t[1]])
    BY <1>4, <2>1, OverKeepsEvents DEF SubscribeFails
  <2> QED
    BY <1>4, <2>2 DEF SubscribeFails
<1>5. CASE TakeEvent(t)
  <2>1. /\ thread'[t].queue = Tail(thread[t].queue)
        /\ thread'[t].cursor = thread[t].cursor
        /\ thread'[t].from = thread[t].from
        /\ thread'[t].pc = "polling"
        /\ DOMAIN thread'[t] = Fields
        /\ thread' = [thread EXCEPT ![t] = thread'[t]]
        /\ log' = log
        /\ thread[t].queue # <<>>
    BY <1>5 DEF TakeEvent, Fresh, Fields
  <2>2. /\ handled'[t[1]] = handled[t[1]] \cup {Head(thread[t].queue)}
        /\ handled' = [s \in Streams |-> handled'[s]]
        /\ \A s \in Streams : handled[s] \subseteq handled'[s]
    BY <1>5, <1>s DEF TakeEvent, Handle
  <2>3. /\ thread'[t].queue \in Seq(Nat)
        /\ ToSet(thread[t].queue)
               = {Head(thread[t].queue)} \cup ToSet(thread'[t].queue)
    BY <2>1, ChannelContents
  <2> QED
    BY <2>1, <2>2, <2>3
<1>6. CASE NothingPending(t)
  BY <1>6 DEF NothingPending, Fresh, Fields
<1>7. CASE StreamEnds(t)
  <2>1. /\ handled'[t[1]] = handled[t[1]] \cup ToSet(thread[t].queue)
        /\ handled' = [s \in Streams |-> handled'[s]]
        /\ \A s \in Streams : handled[s] \subseteq handled'[s]
    BY <1>7, <1>s DEF StreamEnds, Handle, Remaining
  <2>2. /\ thread' = [thread EXCEPT ![t] = thread'[t]]
        /\ KeepsEvents(thread'[t], handled'[t[1]])
    BY <1>7, <2>1, OverKeepsEvents DEF StreamEnds
  <2> QED
    BY <1>7, <2>1, <2>2 DEF StreamEnds
<1>8. CASE ContextDone(t) \/ SleepInterrupted(t)
  <2>1. PICK pc : Exit(t, pc)
    BY <1>8 DEF ContextDone, SleepInterrupted
  <2>2. /\ thread' = [thread EXCEPT ![t] = thread'[t]]
        /\ KeepsEvents(thread'[t], handled[t[1]])
    <3>1. thread'[t] = Fresh(pc)
      BY <2>1 DEF Exit
    <3> QED
      BY <2>1, <3>1, FreshKeepsEvents DEF Exit
  <2> QED
    BY <1>8, <2>2 DEF ContextDone, SleepInterrupted
<1>9. CASE Wake(t)
  BY <1>9 DEF Wake, Fresh, Fields
<1> QED
  BY <1>1, <1>2, <1>3, <1>4, <1>5, <1>6, <1>7, <1>8, <1>9 DEF Goroutine

LEMMA InitEventInv == Init => EventInv
<1> SUFFICES ASSUME Init
             PROVE  EventInv
  OBVIOUS
<1>1. \A t \in Goroutines : thread[t] = Fresh("none")
  BY DEF Init
<1> QED
  BY <1>1, FreshKeepsEvents DEF Init, EventInv

\* A goroutine's account holds whatever else its handler was called with.
LEMMA MoreHandled ==
  ASSUME NEW th, NEW events, NEW more, KeepsEvents(th, events), events \subseteq more
  PROVE  KeepsEvents(th, more)
  BY DEF KeepsEvents

LEMMA NextEventInv == EventInv /\ [Next]_vars => EventInv'
<1> SUFFICES ASSUME EventInv, [Next]_vars
             PROVE  EventInv'
  OBVIOUS
<1>1. ASSUME NEW c \in Controllers, Start(c)
      PROVE  EventInv'
  <2>1. \A t \in Goroutines :
            thread'[t] = Fresh("subscribing") \/ thread'[t] = thread[t]
    BY <1>1 DEF Start
  <2> QED
    BY <1>1, <2>1, FreshKeepsEvents DEF Start, EventInv
<1>2. ASSUME NEW c \in Controllers, StopCancels(c) \/ StopReturnsNext(c)
      PROVE  EventInv'
  BY <1>2 DEF StopCancels, StopReturnsNext, StopWaited, StopClears, EventInv
<1>3. CASE CallerCancels
  BY <1>3 DEF CallerCancels, EventInv
<1>4. ASSUME NEW s \in Streams, Produce(s)
      PROVE  EventInv'
  <2>1. log' \in [Streams -> Nat]
    BY <1>4 DEF Produce, EventInv
  <2> QED
    BY <1>4, <2>1 DEF Produce, EventInv
<1>5. ASSUME NEW t \in Goroutines, Send(t) \/ Break(t) \/ Goroutine(t)
      PROVE  EventInv'
  <2>1. /\ thread' = [thread EXCEPT ![t] = thread'[t]]
        /\ handled' = [s \in Streams |-> handled'[s]]
        /\ \A s \in Streams : handled[s] \subseteq handled'[s]
        /\ KeepsEvents(thread'[t], handled'[t[1]])
        /\ log' = log
    BY <1>5, GoroutineKeepsEvents
  <2>2. ASSUME NEW u \in Goroutines
        PROVE  KeepsEvents(thread'[u], handled'[u[1]])
    <3>1. KeepsEvents(thread[u], handled[u[1]]) /\ u[1] \in Streams
      BY DEF EventInv, Goroutines
    <3>2. u # t => thread'[u] = thread[u]
      BY <2>1 DEF EventInv
    <3> QED
      BY <2>1, <3>1, <3>2, MoreHandled
  <2> QED
    BY <2>1, <2>2 DEF EventInv
<1>6. CASE UNCHANGED vars
  BY <1>6 DEF vars, control, EventInv
<1> QED
  BY <1>1, <1>2, <1>3, <1>4, <1>5, <1>6 DEF Next

\* Events a transport had sent before its stream broke all reach the handler,
\* whichever channel the select reads first, and however often the listener is
\* started, stopped and reconnected (event_listener.go:416).
THEOREM EventsReachHandlers == Spec => []NothingSentIsLost
<1>1. Init => EventInv
  BY InitEventInv
<1>2. EventInv /\ [Next]_vars => EventInv'
  BY NextEventInv
<1>3. EventInv => NothingSentIsLost
  BY DEF EventInv, KeepsEvents, NothingSentIsLost, Live
<1> QED
  BY <1>1, <1>2, <1>3, PTL DEF Spec
-----------------------------------------------------------------------------
(***************************************************************************)
(* The delay before each reconnection.  Power is defined by recursion; its *)
(* equation is proved from the least number for which it would fail.       *)
(***************************************************************************)

LEMMA LeastNumber ==
  ASSUME NEW Bad, Bad \subseteq Nat, Bad # {}
  PROVE  \E n \in Bad : \A m \in Bad : n <= m
<1>1. PICK k \in Bad : TRUE
  OBVIOUS
<1> DEFINE Below == 0..k
           Initial == {0..n : n \in Bad \cap Below}
<1>2. k \in Nat /\ k \in Bad \cap Below
  BY <1>1
<1>3. IsFiniteSet(Below)
  BY <1>2, FS_Interval
<1>4. Initial \subseteq SUBSET Below /\ Initial # {}
  BY <1>2
<1>5. PICK T \in Initial : \A U \in Initial : U \subseteq T => U = T
  <2> HIDE DEF Initial, Below
  <2> QED
    BY <1>3, <1>4, MinimalSubset
<1>6. PICK n \in Bad \cap Below : T = 0..n
  BY <1>5
<1>7. ASSUME NEW m \in Bad, m < n
      PROVE  FALSE
  <2>1. m \in Nat /\ n \in Nat /\ m \in Bad \cap Below
    BY <1>2, <1>6, <1>7
  <2>2. 0..m \in Initial /\ 0..m \subseteq 0..n
    BY <1>7, <2>1
  <2>3. 0..m = 0..n
    BY <1>5, <1>6, <2>2
  <2>4. n \in 0..n /\ n \notin 0..m
    BY <1>7, <2>1
  <2> QED
    BY <2>3, <2>4
<1> QED
  BY <1>6, <1>7

\* p holds the powers up to n.
Powers(p, n) ==
  p = [k \in 0..n |-> IF k = 0 THEN 1 ELSE BackoffMultiplier * p[k - 1]]

LEMMA PowersAgree ==
  ASSUME NEW m \in Nat, NEW n \in Nat, NEW p, NEW q, Powers(p, m), Powers(q, n)
  PROVE  \A k \in Nat : k <= m /\ k <= n => p[k] = q[k]
<1> DEFINE Bad == {k \in Nat : k <= m /\ k <= n /\ p[k] # q[k]}
<1> SUFFICES ASSUME Bad # {} PROVE FALSE
  OBVIOUS
<1>1. PICK k \in Bad : \A j \in Bad : k <= j
  <2>1. Bad \subseteq Nat
    OBVIOUS
  <2> HIDE DEF Bad
  <2> QED
    BY <2>1, LeastNumber
<1>2. k # 0
  BY <1>1 DEF Powers
<1>3. k - 1 \in Nat /\ p[k - 1] = q[k - 1]
  BY <1>1, <1>2
<1>4. /\ p[k] = BackoffMultiplier * p[k - 1]
      /\ q[k] = BackoffMultiplier * q[k - 1]
  BY <1>1, <1>2 DEF Powers
<1> QED
  BY <1>1, <1>3, <1>4

LEMMA PowersExist == \A n \in Nat : \E p : Powers(p, n)
<1> DEFINE Bad == {n \in Nat : ~ \E p : Powers(p, n)}
<1> SUFFICES ASSUME Bad # {} PROVE FALSE
  OBVIOUS
<1>1. PICK n \in Bad : \A m \in Bad : n <= m
  <2>1. Bad \subseteq Nat
    OBVIOUS
  <2> HIDE DEF Bad
  <2> QED
    BY <2>1, LeastNumber
<1>2. CASE n = 0
  <2> DEFINE p == [k \in 0..0 |-> 1]
  <2>1. \A k \in 0..0 : k = 0
    OBVIOUS
  <2>2. Powers(p, 0)
    BY <2>1 DEF Powers
  <2> QED
    BY <1>1, <1>2, <2>2
<1>3. CASE n # 0
  <2>1. n - 1 \in Nat /\ n - 1 \notin Bad
    BY <1>1, <1>3
  <2>2. PICK q : Powers(q, n - 1)
    BY <2>1
  <2> DEFINE p == [k \in 0..n |-> IF k < n THEN q[k]
                                  ELSE BackoffMultiplier * q[n - 1]]
  <2>3. ASSUME NEW k \in 0..n
        PROVE  p[k] = IF k = 0 THEN 1 ELSE BackoffMultiplier * p[k - 1]
    <3>1. CASE k < n
      <4>1. k \in 0..(n - 1) /\ p[k] = q[k]
        BY <1>1, <3>1
      <4>2. k # 0 => p[k - 1] = q[k - 1]
        BY <1>1, <3>1
      <4> QED
        BY <2>2, <4>1, <4>2 DEF Powers
    <3>2. CASE k = n
      BY <1>1, <1>3, <3>2
    <3> QED
      BY <1>1, <3>1, <3>2
  <2>4. Powers(p, n)
    BY <2>3 DEF Powers
  <2> QED
    BY <1>1, <2>4
<1> QED
  BY <1>2, <1>3

LEMMA PowerEquation ==
  \A n \in Nat : Power[n] = IF n = 0 THEN 1 ELSE BackoffMultiplier * Power[n - 1]
<1> DEFINE P(n) == CHOOSE p : Powers(p, n)
           power == [n \in Nat |-> P(n)[n]]
<1>1. \A n \in Nat : Powers(P(n), n)
  BY PowersExist
<1>2. ASSUME NEW n \in Nat
      PROVE  power[n] = IF n = 0 THEN 1 ELSE BackoffMultiplier * power[n - 1]
  <2>1. ASSUME n = 0
        PROVE  P(n)[n] = 1
    <3>1. Powers(P(n), 0)
      BY <1>1, <2>1
    <3> HIDE DEF P
    <3> QED
      BY <2>1, <3>1 DEF Powers
  <2>2. ASSUME n # 0
        PROVE  P(n)[n] = BackoffMultiplier * P(n - 1)[n - 1]
    <3>1. n - 1 \in Nat /\ Powers(P(n), n) /\ Powers(P(n - 1), n - 1)
      BY <1>1, <2>2
    <3> HIDE DEF P
    <3>2. P(n)[n - 1] = P(n - 1)[n - 1]
      BY <3>1, PowersAgree
    <3>3. P(n)[n] = BackoffMultiplier * P(n)[n - 1]
      BY <2>2, <3>1 DEF Powers
    <3> QED
      BY <3>2, <3>3
  <2> HIDE DEF P
  <2> QED
    BY <2>1, <2>2
<1>3. power = [n \in Nat |-> IF n = 0 THEN 1
                             ELSE BackoffMultiplier * power[n - 1]]
  <2>1. power = [n \in Nat |-> power[n]]
    OBVIOUS
  <2> HIDE DEF power
  <2> QED
    BY <1>2, <2>1
<1>4. Power = [n \in Nat |-> IF n = 0 THEN 1
                             ELSE BackoffMultiplier * Power[n - 1]]
  <2> HIDE DEF power
  <2> QED
    BY <1>3 DEF Power
<1> QED
  BY <1>4

LEMMA Times ==
  /\ \A a, b, c \in Nat : a * (b * c) = (a * c) * b
  /\ \A a \in Nat, b \in Nat \ {0} : a * b \in Nat /\ a <= a * b
<1>1. ASSUME NEW a \in Nat, NEW b \in Nat, NEW c \in Nat
      PROVE  a * (b * c) = (a * c) * b
  OBVIOUS
<1>2. ASSUME NEW a \in Nat, NEW b \in Nat \ {0}
      PROVE  a * b \in Nat /\ a <= a * b
  OBVIOUS
<1> QED
  BY <1>1, <1>2

LEMMA PowerIsPositive == \A n \in Nat : Power[n] \in Nat \ {0}
<1> DEFINE Bad == {n \in Nat : Power[n] \notin Nat \ {0}}
<1> SUFFICES ASSUME Bad # {} PROVE FALSE
  OBVIOUS
<1>1. PICK n \in Bad : \A m \in Bad : n <= m
  <2>1. Bad \subseteq Nat
    OBVIOUS
  <2> HIDE DEF Bad
  <2> QED
    BY <2>1, LeastNumber
<1>2. n # 0
  BY <1>1, PowerEquation
<1>3. n - 1 \in Nat /\ Power[n - 1] \in Nat \ {0}
  BY <1>1, <1>2
<1>4. Power[n] = BackoffMultiplier * Power[n - 1]
  BY <1>1, <1>2, PowerEquation
<1>5. BackoffMultiplier \in Nat \ {0}
  BY BoundAssumption
<1>6. \A a, b \in Nat \ {0} : a * b \in Nat \ {0}
  OBVIOUS
<1> QED
  BY <1>1, <1>3, <1>4, <1>5, <1>6

\* The loop's way of growing the delay is the documented one: the multiplier is
\* applied after each retry, and the product is capped.
LEMMA BackoffGrows ==
  ASSUME NEW n \in Nat
  PROVE  /\ BackoffAfter(0) = InitialBackoff
         /\ BackoffAfter(n) \in Nat
         /\ LET grown == BackoffAfter(n) * BackoffMultiplier
            IN  BackoffAfter(n + 1) = IF grown < MaxBackoff THEN grown
                                                            ELSE MaxBackoff
<1>1. /\ InitialBackoff \in Nat \ {0}
      /\ MaxBackoff \in Nat \ {0}
      /\ BackoffMultiplier \in Nat \ {0}
  BY BoundAssumption
<1> DEFINE delay == InitialBackoff * Power[n]
<1>2. /\ Power[0] = 1
      /\ Power[n] \in Nat
      /\ Power[n + 1] = BackoffMultiplier * Power[n]
      /\ n + 1 \in Nat /\ n + 1 # 0
  BY PowerEquation, PowerIsPositive
<1>3. /\ delay \in Nat
      /\ InitialBackoff * Power[n + 1] = delay * BackoffMultiplier
  BY <1>1, <1>2, Times
<1>4. BackoffAfter(0) = InitialBackoff
  BY <1>1, <1>2 DEF BackoffAfter
<1>5. BackoffAfter(n) = IF n = 0 \/ delay < MaxBackoff THEN delay ELSE MaxBackoff
  BY DEF BackoffAfter
<1>6. BackoffAfter(n + 1) = IF delay * BackoffMultiplier < MaxBackoff
                            THEN delay * BackoffMultiplier ELSE MaxBackoff
  BY <1>2, <1>3 DEF BackoffAfter
<1>7. /\ delay <= delay * BackoffMultiplier
      /\ delay * BackoffMultiplier \in Nat
      /\ MaxBackoff <= MaxBackoff * BackoffMultiplier
      /\ MaxBackoff * BackoffMultiplier \in Nat
  BY <1>1, <1>3, Times
<1> HIDE DEF delay
<1>8. BackoffAfter(n) \in Nat
  BY <1>1, <1>3, <1>5
<1>9. CASE BackoffAfter(n) = delay
  BY <1>4, <1>6, <1>8, <1>9
<1>10. CASE BackoffAfter(n) = MaxBackoff /\ ~ (delay < MaxBackoff)
  <2> DEFINE more == delay * BackoffMultiplier
             most == MaxBackoff * BackoffMultiplier
  <2>1. BackoffAfter(n) * BackoffMultiplier = most
    BY <1>10
  <2>2. /\ more \in Nat /\ most \in Nat /\ delay <= more /\ MaxBackoff <= most
        /\ BackoffAfter(n + 1) = IF more < MaxBackoff THEN more ELSE MaxBackoff
    BY <1>6, <1>7
  <2> HIDE DEF more, most
  <2>3. ~ (more < MaxBackoff) /\ ~ (most < MaxBackoff)
    BY <1>1, <1>3, <1>10, <2>2
  <2> QED
    BY <1>4, <1>8, <2>1, <2>2, <2>3
<1> QED
  BY <1>5, <1>9, <1>10
-----------------------------------------------------------------------------
(***************************************************************************)
(* The retry policy.  What a goroutine remembers between subscriptions     *)
(* (retries, backoff) is tied to what an observer counts: the              *)
(* reconnections since the last event.  A subscription that has delivered  *)
(* makes both irrelevant, and CountRetry starts over from it.              *)
(***************************************************************************)

\* count: the reconnections since the goroutine's last event.
KeepsCount(th, count) ==
    /\ th \in Threads
    /\ count \in 0..MaxRetries
    /\ th.pc = "none" => count = 0 /\ th = Fresh("none")
    /\ \/ th.pc = "subscribing"
       \/ th.pc \in {"polling", "waiting"} /\ ~ th.delivered
       => th.retries = count /\ th.backoff = BackoffAfter(count)
    /\ th.pc \in {"polling", "waiting"} /\ th.delivered => count = 0
    /\ th.pc = "sleeping" =>
           /\ th.retries = count + 1
           /\ th.backoff = BackoffAfter(count)
    /\ th.pc = "exhausted" => count = MaxRetries

RetryInv ==
    /\ running \in BOOLEAN
    /\ generation \in 0..MaxStarts
    /\ running => generation > 0
    /\ cancelled \subseteq 1..generation
    /\ stopping \in [Controllers -> {"no", "waiting", "clearing"}]
    /\ log \in [Streams -> 0..MaxEvents]
    /\ handled \in [Streams -> SUBSET (1..MaxEvents)]
    /\ thread = [t \in Goroutines |-> thread[t]]
    /\ reconnects = [t \in Goroutines |-> reconnects[t]]
    /\ \A t \in Goroutines :
          /\ KeepsCount(thread[t], reconnects[t])
          /\ t[2] > generation => thread[t].pc = "none"

Buffers == BoundedSeq(1..MaxEvents, Capacity)

LEMMA BufferFacts ==
  /\ <<>> \in Buffers
  /\ \A q \in Buffers :
        /\ q \in Seq(Nat) /\ ToSet(q) \subseteq 1..MaxEvents
        /\ q # <<>> => Tail(q) \in Buffers /\ Head(q) \in 1..MaxEvents
        /\ \A e \in 1..MaxEvents : Len(q) < Capacity => Append(q, e) \in Buffers
<1> DEFINE Events == 1..MaxEvents
<1>1. Capacity \in Nat /\ Events \subseteq Nat
  BY BoundAssumption
<1>2. \A q : q \in Buffers <=> \E m \in 0..Capacity : q \in [1..m -> Events]
  BY DEF Buffers, BoundedSeq, SeqOf
<1> HIDE DEF Events
<1>3. \A q : q \in Buffers <=> q \in Seq(Events) /\ Len(q) \in 0..Capacity
  <2>1. ASSUME NEW q, NEW m \in 0..Capacity, q \in [1..m -> Events]
        PROVE  q \in Seq(Events) /\ Len(q) \in 0..Capacity
    BY <1>1, <2>1
  <2>2. ASSUME NEW q \in Seq(Events), Len(q) \in 0..Capacity
        PROVE  q \in [1..Len(q) -> Events]
    BY <2>2
  <2> QED
    BY <1>2, <2>1, <2>2
<1>b. ASSUME NEW q \in Seq(Events), Len(q) <= Capacity
      PROVE  q \in Buffers
  BY <1>1, <1>3, <1>b
<1>4. <<>> \in Buffers
  <2>1. <<>> \in Seq(Events) /\ Len(<<>>) <= Capacity
    BY <1>1
  <2> QED
    BY <1>b, <2>1
<1>5. ASSUME NEW q \in Buffers
      PROVE  /\ q \in Seq(Nat) /\ ToSet(q) \subseteq Events
             /\ q # <<>> => Tail(q) \in Buffers /\ Head(q) \in Events
             /\ \A e \in Events : Len(q) < Capacity => Append(q, e) \in Buffers
  <2>1. q \in Seq(Events) /\ Len(q) \in 0..Capacity
    BY <1>3
  <2>2. \A i \in DOMAIN q : q[i] \in Events
    BY <2>1
  <2>3. ToSet(q) \subseteq Events
    BY <2>2 DEF ToSet
  <2>4. q \in Seq(Nat)
    <3>1. /\ Len(q) \in Nat /\ DOMAIN q = 1..Len(q)
          /\ q = [i \in DOMAIN q |-> q[i]]
      BY <2>1
    <3>2. \A i \in DOMAIN q : q[i] \in Nat
      BY <1>1, <2>2
    <3>3. q \in [1..Len(q) -> Nat]
      BY <3>1, <3>2
    <3> QED
      BY <3>1, <3>3
  <2>5. ASSUME q # <<>>
        PROVE  Tail(q) \in Buffers /\ Head(q) \in Events
    <3>1. /\ Tail(q) \in Seq(Events) /\ Len(Tail(q)) = Len(q) - 1
          /\ Len(q) > 0 /\ Head(q) \in Events
      BY <2>1, <2>5
    <3>2. Len(Tail(q)) <= Capacity
      BY <1>1, <2>1, <3>1
    <3> QED
      BY <1>b, <3>1, <3>2
  <2>6. ASSUME NEW e \in Events, Len(q) < Capacity
        PROVE  Append(q, e) \in Buffers
    <3>1. Append(q, e) \in Seq(Events) /\ Len(Append(q, e)) = Len(q) + 1
      BY <2>1
    <3>2. Len(Append(q, e)) <= Capacity
      BY <1>1, <2>1, <2>6, <3>1
    <3> QED
      BY <1>b, <3>1, <3>2
  <2> QED
    BY <2>3, <2>4, <2>5, <2>6
<1> QED
  BY <1>4, <1>5 DEF Events

LEMMA FreshKeepsCount ==
  /\ Fresh("none") \in Threads
  /\ \A pc \in {"none", "subscribing"} : KeepsCount(Fresh(pc), 0)
  /\ \A pc \in {"stopped", "failed"}, count \in 0..MaxRetries :
        KeepsCount(Fresh(pc), count)
  /\ KeepsCount(Fresh("exhausted"), MaxRetries)
<1>1. /\ MaxRetries \in Nat /\ MaxEvents \in Nat /\ InitialBackoff \in Nat
      /\ 0 \in 0..MaxRetries /\ 0 \in 0..MaxEvents /\ MaxRetries \in 0..MaxRetries
  BY BoundAssumption
<1>2. BackoffAfter(0) = InitialBackoff
  BY BackoffGrows
<1>3. ASSUME NEW pc \in {"none", "subscribing", "stopped", "failed", "exhausted"}
      PROVE  /\ Fresh(pc) \in Threads
             /\ Fresh(pc).pc = pc /\ Fresh(pc).retries = 0
             /\ Fresh(pc).backoff = InitialBackoff
  BY <1>1, BufferFacts DEF Fresh, Threads, Buffers
<1> QED
  BY <1>1, <1>2, <1>3 DEF KeepsCount

\* What runStream does when a subscription is over, for the count as it stands
\* once the events that were left have been handled.
LEMMA OverKeepsCount ==
  ASSUME NEW t \in Goroutines, thread = [u \in Goroutines |-> thread[u]],
         thread[t] \in Threads,
         NEW count \in 0..MaxRetries, NEW error, NEW delivered \in BOOLEAN,
         delivered => count = 0,
         ~ delivered => /\ thread[t].retries = count
                        /\ thread[t].backoff = BackoffAfter(count),
         SubscriptionOver(t, error, delivered)
  PROVE  /\ thread' = [thread EXCEPT ![t] = thread'[t]]
         /\ KeepsCount(thread'[t], count)
<1> DEFINE next == CountRetry(thread[t], delivered)
<1>1. /\ MaxRetries \in Nat /\ MaxRetries > 0 /\ InitialBackoff \in Nat
  BY BoundAssumption
<1>2. BackoffAfter(0) = InitialBackoff /\ BackoffAfter(count) \in Nat
  BY BackoffGrows
<1>3. next.retries = count + 1 /\ next.backoff = BackoffAfter(count)
  BY <1>2 DEF CountRetry
<1> HIDE DEF next
<1>4. ASSUME NEW pc, Exit(t, pc), KeepsCount(Fresh(pc), count)
      PROVE  /\ thread' = [thread EXCEPT ![t] = thread'[t]]
             /\ KeepsCount(thread'[t], count)
  BY <1>4 DEF Exit
<1>5. CASE Exit(t, "stopped") \/ Exit(t, "failed")
  BY <1>4, <1>5, FreshKeepsCount
<1>6. CASE next.retries > MaxRetries /\ Exit(t, "exhausted")
  <2>1. count = MaxRetries
    BY <1>1, <1>3, <1>6
  <2> QED
    BY <1>4, <1>6, <2>1, FreshKeepsCount
<1>7. CASE /\ next.retries <= MaxRetries
           /\ thread' = [thread EXCEPT
                            ![t].pc = "sleeping", ![t].retries = next.retries,
                            ![t].backoff = next.backoff,
                            ![t].queue = <<>>, ![t].err = None]
  <2>1. /\ thread'[t] = [thread[t] EXCEPT
                            !.pc = "sleeping", !.retries = next.retries,
                            !.backoff = next.backoff,
                            !.queue = <<>>, !.err = None]
        /\ thread' = [thread EXCEPT ![t] = thread'[t]]
    BY <1>7
  <2>2. next.retries \in 0..MaxRetries /\ next.backoff \in Nat
    BY <1>1, <1>2, <1>3, <1>7
  <2>3. thread'[t] \in Threads
    BY <2>1, <2>2, BufferFacts DEF Threads, Buffers
  <2>4. /\ thread'[t].pc = "sleeping"
        /\ thread'[t].retries = count + 1
        /\ thread'[t].backoff = BackoffAfter(count)
    BY <1>3, <2>1 DEF Threads
  <2> QED
    BY <2>1, <2>3, <2>4 DEF KeepsCount
<1> QED
  BY <1>5, <1>6, <1>7 DEF SubscriptionOver, next

LEMMA GoroutineKeepsCount ==
  ASSUME RetryInv, NEW t \in Goroutines, Send(t) \/ Break(t) \/ Goroutine(t)
  PROVE  /\ thread' = [thread EXCEPT ![t] = thread'[t]]
         /\ reconnects' = [reconnects EXCEPT ![t] = reconnects'[t]]
         /\ handled' \in [Streams -> SUBSET (1..MaxEvents)]
         /\ KeepsCount(thread'[t], reconnects'[t])
         /\ thread[t].pc # "none"
<1> DEFINE th == thread[t]
           count == reconnects[t]
<1>1. /\ t[1] \in Streams /\ log[t[1]] \in 0..MaxEvents
      /\ handled \in [Streams -> SUBSET (1..MaxEvents)]
      /\ thread = [u \in Goroutines |-> thread[u]]
      /\ reconnects = [u \in Goroutines |-> reconnects[u]]
      /\ KeepsCount(thread[t], reconnects[t])
  BY DEF RetryInv, Goroutines
<1>2. /\ th \in Threads /\ th.queue \in Buffers /\ th.cursor \in 0..MaxEvents
      /\ th.delivered \in BOOLEAN
      /\ th.retries \in 0..MaxRetries /\ th.backoff \in Nat
      /\ count \in 0..MaxRetries
  BY <1>1 DEF KeepsCount, Threads, Buffers
<1>3. MaxEvents \in Nat /\ MaxRetries \in Nat
  BY BoundAssumption
\* Steps that only change where the goroutine is with its channels.
<1>4. ASSUME UNCHANGED <<handled, reconnects>>,
             NEW r, thread' = [thread EXCEPT ![t] = r], r \in Threads,
             \/ r.pc = th.pc
             \/ th.pc \in {"polling", "waiting"} /\ r.pc \in {"polling", "waiting"},
             th.pc \in {"polling", "waiting"},
             r.delivered = th.delivered, r.retries = th.retries,
             r.backoff = th.backoff
      PROVE  /\ thread' = [thread EXCEPT ![t] = thread'[t]]
             /\ reconnects' = [reconnects EXCEPT ![t] = reconnects'[t]]
             /\ handled' \in [Streams -> SUBSET (1..MaxEvents)]
             /\ KeepsCount(thread'[t], reconnects'[t])
             /\ thread[t].pc # "none"
  <2>1. thread'[t] = r
    BY <1>1, <1>4
  <2>2. KeepsCount(r, count)
    BY <1>1, <1>4 DEF KeepsCount
  <2> QED
    BY <1>1, <1>4, <2>1, <2>2
<1>5. CASE Send(t)
  <2> DEFINE r == [th EXCEPT !.queue = Append(@, th.cursor + 1), !.cursor = @ + 1]
  <2>1. /\ th.pc \in {"polling", "waiting"} /\ UNCHANGED <<handled, reconnects>>
        /\ th.cursor < log[t[1]] /\ Len(th.queue) < Capacity
        /\ thread' = [thread EXCEPT ![t] = r]
    BY <1>1, <1>5 DEF Send, Draining
  <2>2. th.cursor + 1 \in 1..MaxEvents /\ th.cursor + 1 \in 0..MaxEvents
    BY <1>1, <1>2, <1>3, <2>1
  <2>3. Append(th.queue, th.cursor + 1) \in Buffers
    BY <1>2, <2>1, <2>2, BufferFacts
  <2>4. r \in Threads
    BY <1>2, <2>2, <2>3 DEF Threads, Buffers
  <2>5. /\ r.pc = th.pc /\ r.delivered = th.delivered
        /\ r.retries = th.retries /\ r.backoff = th.backoff
    BY <1>2 DEF Threads
  <2> HIDE DEF r
  <2> QED
    BY <1>4, <2>1, <2>4, <2>5
<1>6. CASE Break(t)
  <2>1. PICK error \in Errors : thread' = [thread EXCEPT ![t].err = error]
    BY <1>6 DEF Break
  <2> DEFINE r == [th EXCEPT !.err = error]
  <2>2. /\ th.pc \in {"polling", "waiting"} /\ UNCHANGED <<handled, reconnects>>
        /\ thread' = [thread EXCEPT ![t] = r]
    BY <1>1, <1>6, <2>1 DEF Break, Draining
  <2>3. /\ r \in Threads
        /\ r.pc = th.pc /\ r.delivered = th.delivered
        /\ r.retries = th.retries /\ r.backoff = th.backoff
    BY <1>2 DEF Threads
  <2> HIDE DEF r
  <2> QED
    BY <1>4, <2>2, <2>3
<1>7. CASE NothingPending(t)
  <2> DEFINE r == [th EXCEPT !.pc = "waiting"]
  <2>1. /\ th.pc \in {"polling", "waiting"} /\ UNCHANGED <<handled, reconnects>>
        /\ thread' = [thread EXCEPT ![t] = r]
    BY <1>1, <1>7 DEF NothingPending
  <2>2. /\ r \in Threads
        /\ r.pc = "waiting" /\ r.delivered = th.delivered
        /\ r.retries = th.retries /\ r.backoff = th.backoff
    BY <1>2 DEF Threads
  <2> HIDE DEF r
  <2> QED
    BY <1>4, <2>1, <2>2
<1>8. CASE Subscribe(t)
  <2> DEFINE start == IF Replay THEN 0 ELSE log[t[1]]
             r == [th EXCEPT !.pc = "polling", !.delivered = FALSE,
                             !.from = start, !.cursor = start]
  <2>1. /\ th.pc = "subscribing" /\ UNCHANGED <<handled, reconnects>>
        /\ thread' = [thread EXCEPT ![t] = r]
    BY <1>1, <1>8 DEF Subscribe
  <2>2. start \in 0..MaxEvents
    BY <1>1, <1>3
  <2> HIDE DEF start
  <2>3. /\ r \in Threads
        /\ r.pc = "polling" /\ r.delivered = FALSE
        /\ r.retries = th.retries /\ r.backoff = th.backoff
    BY <1>2, <2>2 DEF Threads
  <2> HIDE DEF r
  <2>4. KeepsCount(r, count)
    BY <1>1, <2>1, <2>3 DEF KeepsCount
  <2>5. thread'[t] = r
    BY <1>1, <2>1
  <2> QED
    BY <1>1, <2>1, <2>4, <2>5
<1>9. CASE SubscribeFails(t)
  <2>1. PICK error \in Errors : SubscriptionOver(t, error, FALSE)
    BY <1>9 DEF SubscribeFails
  <2>2. /\ th.pc = "subscribing" /\ UNCHANGED <<handled, reconnects>>
    BY <1>9 DEF SubscribeFails
  <2>3. th.retries = count /\ th.backoff = BackoffAfter(count)
    BY <1>1, <2>2 DEF KeepsCount
  <2>4. /\ thread' = [thread EXCEPT ![t] = thread'[t]]
        /\ KeepsCount(thread'[t], count)
    BY <1>1, <1>2, <2>1, <2>3, OverKeepsCount
  <2> QED
    BY <1>1, <2>2, <2>4
<1>10. CASE TakeEvent(t)
  <2> DEFINE e == Head(th.queue)
             r == [th EXCEPT !.pc = "polling", !.delivered = TRUE,
                             !.queue = Tail(@)]
  <2>1. /\ th.pc \in {"polling", "waiting"} /\ th.queue # <<>>
        /\ Handle(t, {e})
        /\ thread' = [thread EXCEPT ![t] = r]
    BY <1>1, <1>10 DEF TakeEvent, Draining
  <2>2. Tail(th.queue) \in Buffers /\ e \in 1..MaxEvents
    BY <1>2, <2>1, BufferFacts
  <2>3. r \in Threads /\ r.pc = "polling" /\ r.delivered
    BY <1>2, <2>2 DEF Threads, Buffers
  <2> HIDE DEF e, r
  <2>4. /\ reconnects' = [reconnects EXCEPT ![t] = 0]
        /\ handled' \in [Streams -> SUBSET (1..MaxEvents)]
    BY <1>1, <2>1, <2>2 DEF Handle
  <2>5. KeepsCount(r, 0)
    BY <1>3, <2>3 DEF KeepsCount
  <2>6. thread'[t] = r /\ reconnects'[t] = 0
    BY <1>1, <2>1, <2>4
  <2> QED
    BY <1>1, <2>1, <2>4, <2>5, <2>6
<1>11. CASE StreamEnds(t)
  <2> DEFINE left == ToSet(th.queue)
             delivered == th.delivered \/ left # {}
             after == IF left = {} THEN count ELSE 0
  <2>1. /\ th.pc \in {"polling", "waiting"}
        /\ Handle(t, left)
        /\ SubscriptionOver(t, th.err, delivered)
    BY <1>11 DEF StreamEnds, Draining, Remaining
  <2>2. left \subseteq 1..MaxEvents
    BY <1>2, BufferFacts
  <2>3. /\ reconnects' = [reconnects EXCEPT ![t] = after]
        /\ handled' \in [Streams -> SUBSET (1..MaxEvents)]
    BY <1>1, <2>1, <2>2 DEF Handle
  <2>4. /\ after \in 0..MaxRetries /\ delivered \in BOOLEAN
        /\ delivered => after = 0
        /\ ~ delivered => th.retries = after /\ th.backoff = BackoffAfter(after)
    BY <1>1, <1>2, <1>3, <2>1 DEF KeepsCount
  <2> HIDE DEF left, delivered, after
  <2>5. /\ thread' = [thread EXCEPT ![t] = thread'[t]]
        /\ KeepsCount(thread'[t], after)
    BY <1>1, <1>2, <2>1, <2>4, OverKeepsCount
  <2>6. reconnects'[t] = after
    BY <1>1, <2>3
  <2> QED
    BY <1>1, <2>1, <2>3, <2>5, <2>6
<1>12. CASE ContextDone(t) \/ SleepInterrupted(t)
  <2>1. /\ thread' = [thread EXCEPT ![t] = Fresh("stopped")]
        /\ th.pc # "none" /\ UNCHANGED <<handled, reconnects>>
    BY <1>12 DEF ContextDone, SleepInterrupted, Exit
  <2>2. thread'[t] = Fresh("stopped")
    BY <1>1, <2>1
  <2>3. KeepsCount(Fresh("stopped"), count)
    BY <1>2, FreshKeepsCount
  <2> QED
    BY <1>1, <2>1, <2>2, <2>3
<1>13. CASE Wake(t)
  <2> DEFINE grown == th.backoff * BackoffMultiplier
             delay == IF grown < MaxBackoff THEN grown ELSE MaxBackoff
             r == [th EXCEPT !.pc = "subscribing", !.backoff = delay]
  <2>1. /\ th.pc = "sleeping" /\ UNCHANGED handled
        /\ reconnects' = [reconnects EXCEPT ![t] = count + 1]
        /\ thread' = [thread EXCEPT ![t] = r]
    BY <1>1, <1>13 DEF Wake
  <2>2. th.retries = count + 1 /\ th.backoff = BackoffAfter(count)
    BY <1>1, <2>1 DEF KeepsCount
  <2>3. count \in Nat /\ count + 1 \in 0..MaxRetries
    BY <1>2, <2>2
  <2>4. delay = BackoffAfter(count + 1) /\ delay \in Nat
    BY <2>2, <2>3, BackoffGrows
  <2> HIDE DEF delay
  <2>5. /\ r \in Threads
        /\ r.pc = "subscribing" /\ r.retries = count + 1 /\ r.backoff = delay
    BY <1>2, <2>2, <2>4 DEF Threads
  <2> HIDE DEF r
  <2>6. KeepsCount(r, count + 1)
    BY <2>3, <2>4, <2>5 DEF KeepsCount
  <2>7. thread'[t] = r /\ reconnects'[t] = count + 1
    BY <1>1, <2>1
  <2> QED
    BY <1>1, <2>1, <2>6, <2>7
<1> QED
  BY <1>5, <1>6, <1>7, <1>8, <1>9, <1>10, <1>11, <1>12, <1>13 DEF Goroutine

LEMMA InitRetryInv == Init => RetryInv
<1> SUFFICES ASSUME Init PROVE RetryInv
  OBVIOUS
<1>1. MaxStarts \in Nat /\ MaxEvents \in Nat
  BY BoundAssumption
<1>2. \A t \in Goroutines : /\ thread[t] = Fresh("none") /\ reconnects[t] = 0
                            /\ thread[t].pc = "none"
  BY DEF Init, Fresh
<1>3. \A t \in Goroutines : KeepsCount(thread[t], reconnects[t])
  BY <1>2, FreshKeepsCount
<1>4. /\ running = FALSE /\ generation = 0 /\ 0 \in 0..MaxStarts /\ cancelled = {}
      /\ stopping \in [Controllers -> {"no", "waiting", "clearing"}]
      /\ thread = [t \in Goroutines |-> thread[t]]
      /\ reconnects = [t \in Goroutines |-> reconnects[t]]
  BY <1>1 DEF Init
<1>5. /\ log \in [Streams -> 0..MaxEvents]
      /\ handled \in [Streams -> SUBSET (1..MaxEvents)]
  BY <1>1 DEF Init
<1> QED
  BY <1>2, <1>3, <1>4, <1>5 DEF RetryInv

LEMMA NextRetryInv == RetryInv /\ [Next]_vars => RetryInv'
<1> SUFFICES ASSUME RetryInv, [Next]_vars PROVE RetryInv'
  OBVIOUS
<1>0. MaxStarts \in Nat /\ MaxEvents \in Nat
  BY BoundAssumption
<1>1. ASSUME NEW c \in Controllers, Start(c)
      PROVE  RetryInv'
  <2>1. ASSUME NEW t \in Goroutines
        PROVE  /\ KeepsCount(thread'[t], reconnects'[t])
               /\ t[2] > generation' => thread'[t].pc = "none"
    <3>1. t[2] \in Nat /\ generation \in Nat /\ generation' = generation + 1
      BY <1>0, <1>1 DEF Start, RetryInv, Goroutines, Generations
    <3>2. CASE t[2] = generation + 1
      <4>1. thread'[t] = Fresh("subscribing") /\ reconnects'[t] = reconnects[t]
        BY <1>1, <3>2 DEF Start
      <4>2. reconnects[t] = 0
        BY <3>1, <3>2 DEF RetryInv, KeepsCount
      <4> QED
        BY <3>1, <3>2, <4>1, <4>2, FreshKeepsCount
    <3>3. CASE t[2] # generation + 1
      <4>1. thread'[t] = thread[t] /\ reconnects'[t] = reconnects[t]
        BY <1>1, <3>3 DEF Start
      <4> QED
        BY <3>1, <3>3, <4>1 DEF RetryInv
    <3> QED
      BY <3>2, <3>3
  <2>2. /\ generation' \in 0..MaxStarts /\ generation' > 0
        /\ cancelled' \subseteq 1..generation'
    BY <1>0, <1>1 DEF Start, RetryInv
  <2>3. thread' = [t \in Goroutines |-> thread'[t]]
    BY <1>1 DEF Start
  <2> QED
    BY <1>1, <2>1, <2>2, <2>3 DEF Start, RetryInv
<1>2. ASSUME NEW c \in Controllers, StopCancels(c) \/ StopReturnsNext(c)
      PROVE  RetryInv'
  <2>1. cancelled' \subseteq 1..generation'
    BY <1>0, <1>2 DEF StopCancels, StopReturnsNext, StopWaited, StopClears, RetryInv
  <2>2. /\ stopping' \in [Controllers -> {"no", "waiting", "clearing"}]
        /\ running' = running \/ running' = FALSE
        /\ UNCHANGED <<generation, thread, log, handled, reconnects>>
    <3> USE DEF RetryInv
    <3>1. CASE StopCancels(c)
      BY <3>1 DEF StopCancels
    <3>2. CASE StopWaited(c)
      BY <3>2 DEF StopWaited
    <3>3. CASE StopClears(c)
      BY <3>3 DEF StopClears
    <3> QED
      BY <1>2, <3>1, <3>2, <3>3 DEF StopReturnsNext
  <2>3. running' \in BOOLEAN /\ (running' => generation' > 0)
    <3>1. running \in BOOLEAN /\ (running => generation > 0)
      BY DEF RetryInv
    <3>2. CASE running' = FALSE
      BY <3>2
    <3>3. CASE running' = running
      BY <2>2, <3>1, <3>3
    <3> QED
      BY <2>2, <3>2, <3>3
  <2>4. \A t \in Goroutines : /\ KeepsCount(thread'[t], reconnects'[t])
                              /\ t[2] > generation' => thread'[t].pc = "none"
    BY <2>2 DEF RetryInv
  <2> QED
    BY <2>1, <2>2, <2>3, <2>4 DEF RetryInv
<1>3. CASE CallerCancels
  <2>1. cancelled' \subseteq 1..generation'
    BY <1>0, <1>3 DEF CallerCancels, RetryInv
  <2> QED
    BY <1>3, <2>1 DEF CallerCancels, RetryInv
<1>4. ASSUME NEW s \in Streams, Produce(s)
      PROVE  RetryInv'
  <2>1. log' \in [Streams -> 0..MaxEvents]
    BY <1>0, <1>4 DEF Produce, RetryInv
  <2> QED
    BY <1>4, <2>1 DEF Produce, control, RetryInv
<1>5. ASSUME NEW t \in Goroutines, Send(t) \/ Break(t) \/ Goroutine(t)
      PROVE  RetryInv'
  <2>1. /\ thread' = [thread EXCEPT ![t] = thread'[t]]
        /\ reconnects' = [reconnects EXCEPT ![t] = reconnects'[t]]
        /\ handled' \in [Streams -> SUBSET (1..MaxEvents)]
        /\ KeepsCount(thread'[t], reconnects'[t])
        /\ thread[t].pc # "none"
    BY <1>5, GoroutineKeepsCount
  <2>2. UNCHANGED <<control, log>>
    BY <1>5 DEF Send, Break, Goroutine, Subscribe, SubscribeFails, TakeEvent,
                NothingPending, StreamEnds, ContextDone, Wake, SleepInterrupted
  <2>3. ASSUME NEW u \in Goroutines
        PROVE  /\ KeepsCount(thread'[u], reconnects'[u])
               /\ u[2] > generation => thread'[u].pc = "none"
    <3>1. CASE u = t
      BY <2>1, <3>1 DEF RetryInv
    <3>2. CASE u # t
      <4>1. thread'[u] = thread[u] /\ reconnects'[u] = reconnects[u]
        BY <2>1, <3>2 DEF RetryInv
      <4> QED
        BY <4>1 DEF RetryInv
    <3> QED
      BY <3>1, <3>2
  <2>4. /\ thread' = [u \in Goroutines |-> thread'[u]]
        /\ reconnects' = [u \in Goroutines |-> reconnects'[u]]
    BY <2>1 DEF RetryInv
  <2> QED
    BY <2>1, <2>2, <2>3, <2>4 DEF RetryInv, control
<1>6. CASE UNCHANGED vars
  BY <1>6 DEF vars, control, RetryInv
<1> QED
  BY <1>1, <1>2, <1>3, <1>4, <1>5, <1>6 DEF Next

\* What the goroutines, the channels and the counters hold has its type: the
\* retries never pass MaxRetries, nor a buffer its capacity (event_listener.go:293).
THEOREM TypeCorrect == Spec => []TypeOK
<1>1. Init => RetryInv
  BY InitRetryInv
<1>2. RetryInv /\ [Next]_vars => RetryInv'
  BY NextRetryInv
<1>3. RetryInv => TypeOK
  BY DEF RetryInv, TypeOK, KeepsCount
<1> QED
  BY <1>1, <1>2, <1>3, PTL DEF Spec

\* A stream that broke waits as long as its configuration says for the number of
\* reconnections since its last event, and OnError reports exhaustion after
\* exactly MaxRetries of them (event_listener.go:66-80), for every limit, delay
\* and multiplier.
THEOREM RetriesFollowPolicy == Spec => []RetryPolicyKept
<1>1. Init => RetryInv
  BY InitRetryInv
<1>2. RetryInv /\ [Next]_vars => RetryInv'
  BY NextRetryInv
<1>3. RetryInv => RetryPolicyKept
  <2> SUFFICES ASSUME RetryInv, NEW t \in Goroutines
               PROVE  /\ thread[t].pc = "sleeping" =>
                             /\ thread[t].backoff = BackoffAfter(reconnects[t])
                             /\ reconnects[t] < MaxRetries
                      /\ thread[t].pc = "exhausted" => reconnects[t] = MaxRetries
    BY DEF RetryPolicyKept
  <2>1. KeepsCount(thread[t], reconnects[t])
    BY DEF RetryInv
  <2>2. thread[t].retries \in 0..MaxRetries /\ reconnects[t] \in 0..MaxRetries
    BY <2>1 DEF KeepsCount, Threads
  <2>3. MaxRetries \in Nat
    BY BoundAssumption
  <2> QED
    BY <2>1, <2>2, <2>3 DEF KeepsCount
<1> QED
  BY <1>1, <1>2, <1>3, PTL DEF Spec
=============================================================================
