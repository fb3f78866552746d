------------------------------- MODULE RunLoop -------------------------------
(***************************************************************************)
(* The run loop of the embedded port (btstack_run_loop.c and               *)
(* platform/embedded/btstack_run_loop_embedded.c): one pass polls the data *)
(* sources, executes the registered callbacks and processes the timers,    *)
(* and may then sleep until the next interrupt.                            *)
(*                                                                         *)
(* A handler that the loop has called, and the application between two     *)
(* passes, may call every function of the run loop.  Time is a counter     *)
(* that wraps: left[t], how long it really is until timer t is due, is not *)
(* known to the program; neither are lag, how long a pass has been at its  *)
(* timers, done, whom a pass has called, and staying, the sources that     *)
(* have been registered since the polling began.                           *)
(***************************************************************************)
EXTENDS Integers, Sequences, SequencesExt

CONSTANTS
  Timers, Sources, Callbacks,   \* what is registered with the loop
  Nobody, Nil,
  Devices,   \* sources with an interrupt, as the UART has
  Closers,   \* sources that are removed, as the UART is and audio is not
  Half,      \* time is counted modulo 2 * Half: 2^31 in the code
  MaxDelay,  \* a timer is set to at most this many ms
  MaxLate,   \* the loop never falls behind by more than this
  Registers, \* the callbacks a callback registers
  Sleeps     \* hal_cpu_enable_irqs_and_sleep sleeps, which is up to the port

ASSUME TimeAssumption ==
  /\ Half \in Nat /\ MaxDelay \in Nat /\ MaxLate \in Nat \ {0}
  /\ MaxDelay + 1 + MaxLate < Half
ASSUME HandlersAssumption ==
  /\ Timers \cap Sources = {} /\ Timers \cap Callbacks = {} /\ Sources \cap Callbacks = {}
  /\ Nobody \notin Timers \cup Sources \cup Callbacks /\ Nil \notin Sources
  /\ Devices \subseteq Sources /\ Closers \subseteq Sources
  /\ Registers \in [Callbacks -> SUBSET Callbacks] /\ Sleeps \in BOOLEAN

VARIABLES
  now,        \* hal_time_ms
  timers,     \* btstack_run_loop_base_timers
  timeout,    \* timeout of each timer
  left,       \* time until each timer is due
  sources,    \* btstack_run_loop_base_data_sources
  next,       \* item.next of the sources that are not in the list
  callbacks,  \* btstack_run_loop_base_callbacks
  phase,      \* what the pass is at
  at,         \* the source it looks at next
  limit,      \* the time it processes timers for
  lag,        \* how long ago that was
  running,    \* whose handler runs
  raised,     \* sources whose interrupt their handler has not seen
  trigger,    \* trigger_event_received
  done,       \* sources and timers called in this phase
  staying     \* sources registered ever since the pass began

timing == <<now, timers, timeout, left, lag>>
polling == <<sources, next, at, staying>>
vars == <<timing, polling, callbacks, phase, limit, running, raised, trigger, done>>

Time == 0..2 * Half - 1
Phases == {"idle", "poll", "callbacks", "timers", "asleep"}

(* uint32_t addition, for an amount below 2 * Half, and btstack_time_delta *)
Plus(a, k) == IF a + k >= 2 * Half THEN a + k - 2 * Half ELSE a + k
Delta(a, b) ==
  IF a - b >= Half THEN a - b - 2 * Half ELSE IF a - b < -Half THEN a - b + 2 * Half ELSE a - b

Has(list, x) == \E i \in 1..Len(list) : list[i] = x
PositionOf(list, x) == CHOOSE i \in 1..Len(list) : list[i] = x

(* btstack_linked_list_remove                                              *)
Without(list, x) == IF Has(list, x) THEN RemoveAt(list, PositionOf(list, x)) ELSE list

(* Before the first timer that is due later: after those due at the same   *)
(* time.                                                                   *)
\* Fault: compares the points in time instead of their difference.
Place_Unwrapped(t, due) ==
  CHOOSE p \in 1..Len(timers) + 1 :
    /\ \A i \in 1..p - 1 : due >= timeout[timers[i]]
    /\ p <= Len(timers) => due < timeout[timers[p]]
Place(t, due) ==
  CHOOSE p \in 1..Len(timers) + 1 :
    /\ \A i \in 1..p - 1 : Delta(due, timeout[timers[i]]) >= 0
    /\ p <= Len(timers) => Delta(due, timeout[timers[p]]) < 0

----------------------------------------------------------------------------
(* Calls of handlers and of the application *)

CanCall == running # Nobody \/ phase = "idle"

(* set_timer of the embedded run loop: the current ms has partly gone      *)
DueIn(k) == k + 1

(* btstack_run_loop_set_timer, btstack_run_loop_add_timer; adding a timer  *)
(* that is registered fails an assertion                                   *)
SetTimer(t, k) ==
  /\ CanCall /\ ~Has(timers, t)
  /\ timeout' = [timeout EXCEPT ![t] = Plus(now, DueIn(k))]
  /\ left' = [left EXCEPT ![t] = DueIn(k)]
  /\ timers' = InsertAt(timers, Place(t, Plus(now, DueIn(k))), t)
  /\ UNCHANGED <<now, lag, polling, callbacks, phase, limit, running, raised, trigger, done>>

(* The timeout of a timer that is not in the list is not read before it is *)
(* set again, and is 0 here.                                               *)
Forget(t) == timeout' = [timeout EXCEPT ![t] = 0] /\ left' = [left EXCEPT ![t] = 0]

(* btstack_run_loop_remove_timer                                           *)
RemoveTimer(t) ==
  /\ CanCall /\ Has(timers, t)
  /\ timers' = Without(timers, t) /\ Forget(t)
  /\ UNCHANGED <<now, lag, polling, callbacks, phase, limit, running, raised,
                 trigger, done>>

NextOf(s) ==
  CASE ~Has(sources, s) -> next[s]
    [] Has(sources, s) /\ PositionOf(sources, s) = Len(sources) -> Nil
    [] Has(sources, s) /\ PositionOf(sources, s) < Len(sources) ->
         sources[PositionOf(sources, s) + 1]

(* btstack_uart_embedded_open and the like: a source is enabled and put    *)
(* first.  While sources are polled a handler adds none but its own.       *)
AddSource(s) ==
  /\ CanCall /\ ~Has(sources, s) /\ (phase = "poll" => running = s)
  /\ sources' = <<s>> \o sources
  /\ next' = [next EXCEPT ![s] = Nil]
  /\ UNCHANGED <<timing, at, staying, callbacks, phase, limit, running, raised, trigger, done>>

(* btstack_uart_embedded_close: a source is disabled and removed           *)
\* Fault: the link of what is removed is cleared.
RemoveSource_Clears(s) ==
  /\ CanCall /\ s \in Closers /\ Has(sources, s)
  /\ sources' = Without(sources, s)
  /\ next' = [next EXCEPT ![s] = Nil]
  /\ raised' = raised \ {s} /\ staying' = staying \ {s}
  /\ UNCHANGED <<timing, at, callbacks, phase, limit, running, trigger, done>>
RemoveSource(s) ==
  /\ CanCall /\ s \in Closers /\ Has(sources, s)
  /\ sources' = Without(sources, s)
  /\ next' = [next EXCEPT ![s] = NextOf(s)]
  /\ raised' = raised \ {s} /\ staying' = staying \ {s}
  /\ UNCHANGED <<timing, at, callbacks, phase, limit, running, trigger, done>>

(* btstack_run_loop_execute_on_main_thread: registered once               *)
ExecuteOnMainThread(c) ==
  /\ CanCall /\ (running \in Callbacks => c \in Registers[running])
  /\ callbacks' = IF Has(callbacks, c) THEN callbacks ELSE Append(callbacks, c)
  /\ trigger' = TRUE
  /\ UNCHANGED <<timing, polling, phase, limit, running, raised, done>>

----------------------------------------------------------------------------
(* btstack_run_loop_embedded_execute_once *)

Enter(p) ==
  phase' = p /\ done' = {} /\ UNCHANGED <<timing, callbacks, limit, running, raised, trigger>>

(* The links of sources that are not in the list are read in a pass only.  *)
StartPass ==
  /\ phase = "idle"
  /\ at' = IF sources = <<>> THEN Nil ELSE Head(sources)
  /\ next' = [s \in Sources |-> Nil]
  /\ staying' = ToSet(sources)
  /\ Enter("poll") /\ UNCHANGED sources

(* btstack_run_loop_base_poll_data_sources: the next source is noted       *)
(* before the handler is called, which is done for enabled sources only    *)
PollSource ==
  /\ phase = "poll" /\ running = Nobody /\ at # Nil
  /\ at' = NextOf(at)
  /\ IF Has(sources, at)
     THEN running' = at /\ raised' = raised \ {at} /\ done' = done \cup {at}
     ELSE UNCHANGED <<running, raised, done>>
  /\ UNCHANGED <<timing, sources, next, staying, callbacks, phase, limit, trigger>>

EndPoll ==
  /\ phase = "poll" /\ running = Nobody /\ at = Nil
  /\ staying' = {}
  /\ Enter("callbacks") /\ UNCHANGED <<sources, next, at>>

(* btstack_run_loop_base_execute_callbacks: a callback is removed before   *)
(* it is executed                                                          *)
\* Fault: the callback is removed when it has been executed.
ExecuteCallback_KeepsFirst ==
  /\ phase = "callbacks" /\ running = Nobody /\ callbacks # <<>>
  /\ running' = Head(callbacks) /\ UNCHANGED callbacks
  /\ UNCHANGED <<timing, polling, phase, limit, raised, trigger, done>>
ExecuteCallback ==
  /\ phase = "callbacks" /\ running = Nobody /\ callbacks # <<>>
  /\ running' = Head(callbacks) /\ callbacks' = Tail(callbacks)
  /\ UNCHANGED <<timing, polling, phase, limit, raised, trigger, done>>

EndCallbacks ==
  /\ phase = "callbacks" /\ running = Nobody /\ callbacks = <<>>
  /\ limit' = now /\ lag' = 0 /\ done' = {} /\ phase' = "timers"
  /\ UNCHANGED <<now, timers, timeout, left, polling, callbacks, running, raised, trigger>>

(* btstack_run_loop_base_process_timers                                    *)
\* Fault: compares the points in time instead of their difference.
Expired_Unwrapped(t) == timeout[t] <= limit
Expired(t) == Delta(timeout[t], limit) <= 0
FireTimer ==
  /\ phase = "timers" /\ running = Nobody /\ timers # <<>> /\ Expired(Head(timers))
  /\ running' = Head(timers) /\ timers' = Tail(timers) /\ done' = done \cup {Head(timers)}
  /\ Forget(Head(timers))
  /\ UNCHANGED <<now, lag, polling, callbacks, phase, limit, raised, trigger>>

(* The trigger is tested with interrupts disabled.                         *)
\* Fault: the trigger is reset although the pass may have missed its cause.
EndTimers_Resets ==
  /\ phase = "timers" /\ running = Nobody
  /\ timers # <<>> => ~Expired(Head(timers))
  /\ phase' = IF Sleeps THEN "asleep" ELSE "idle"
  /\ trigger' = FALSE /\ limit' = 0 /\ lag' = 0 /\ done' = {}
  /\ UNCHANGED <<now, timers, timeout, left, polling, callbacks, running, raised>>
EndTimers ==
  /\ phase = "timers" /\ running = Nobody
  /\ timers # <<>> => ~Expired(Head(timers))
  /\ phase' = IF trigger \/ ~Sleeps THEN "idle" ELSE "asleep"
  /\ trigger' = FALSE /\ limit' = 0 /\ lag' = 0 /\ done' = {}
  /\ UNCHANGED <<now, timers, timeout, left, polling, callbacks, running, raised>>

Return ==
  /\ running # Nobody /\ running' = Nobody
  /\ UNCHANGED <<timing, polling, callbacks, phase, limit, raised, trigger, done>>

----------------------------------------------------------------------------
(* Interrupts *)

WakeUp == phase' = IF phase = "asleep" THEN "idle" ELSE phase

(* btstack_run_loop_poll_data_sources_from_irq by the device of a source   *)
Interrupt(s) ==
  /\ s \in Devices /\ Has(sources, s)
  /\ raised' = raised \cup {s} /\ trigger' = TRUE /\ WakeUp
  /\ UNCHANGED <<timing, polling, callbacks, limit, running, done>>

(* The next ms: no timer is kept waiting, and no pass stays at its timers, *)
(* for longer than MaxLate.                                                *)
Tick ==
  /\ \A i \in 1..Len(timers) : left[timers[i]] > -MaxLate
  /\ phase = "timers" => lag < MaxLate
  /\ now' = Plus(now, 1)
  /\ left' = [t \in Timers |-> IF Has(timers, t) THEN left[t] - 1 ELSE 0]
  /\ lag' = IF phase = "timers" THEN lag + 1 ELSE lag
  /\ WakeUp
  /\ UNCHANGED <<timers, timeout, polling, callbacks, limit, running, raised, trigger, done>>

Init ==
  /\ now = 0 /\ timers = <<>>
  /\ timeout = [t \in Timers |-> 0] /\ left = [t \in Timers |-> 0]
  /\ sources = <<>> /\ next = [s \in Sources |-> Nil] /\ at = Nil
  /\ callbacks = <<>> /\ phase = "idle" /\ limit = 0 /\ lag = 0
  /\ running = Nobody /\ raised = {} /\ trigger = FALSE /\ done = {} /\ staying = {}

Loop ==
  \/ StartPass \/ PollSource \/ EndPoll \/ ExecuteCallback \/ EndCallbacks \/ FireTimer
  \/ EndTimers \/ Return

Next ==
  \/ Loop \/ Tick
  \/ \E t \in Timers : RemoveTimer(t) \/ \E k \in 0..MaxDelay : SetTimer(t, k)
  \/ \E s \in Sources : AddSource(s) \/ RemoveSource(s) \/ Interrupt(s)
  \/ \E c \in Callbacks : ExecuteOnMainThread(c)

Spec == Init /\ [][Next]_vars

(* The loop is executed and time goes on.                                  *)
FairSpec == Spec /\ WF_vars(Loop) /\ WF_vars(Tick)

----------------------------------------------------------------------------
(* Properties *)

TypeOK ==
  /\ now \in Time /\ timers \in Seq(Timers) /\ timeout \in [Timers -> Time]
  /\ left \in [Timers -> -MaxLate..MaxDelay + 1] /\ lag \in 0..MaxLate /\ limit \in Time
  /\ sources \in Seq(Sources) /\ next \in [Sources -> Sources \cup {Nil}]
  /\ at \in Sources \cup {Nil} /\ callbacks \in Seq(Callbacks) /\ phase \in Phases
  /\ running \in {Nobody} \cup Timers \cup Sources \cup Callbacks
  /\ raised \subseteq Sources /\ trigger \in BOOLEAN
  /\ done \subseteq Timers \cup Sources /\ staying \subseteq Sources

(* The list of timers is in the order in which they are really due, also   *)
(* when the counter has wrapped between them.                              *)
DueFirst == \A i, j \in 1..Len(timers) : i < j => left[timers[i]] <= left[timers[j]]

Calls(S) == running = Nobody /\ running' \in S

(* No timer fires before its time.                                         *)
NotEarly == [][\A t \in Timers : Calls({t}) => left[t] <= 0]_vars

(* A pass calls a timer or a source once, whatever their handlers add or   *)
(* remove, and polls every source that stays registered.                   *)
CalledOnce(S) == \A x \in S : Calls({x}) => x \notin done
AllPolled == phase = "poll" /\ running = Nobody /\ at = Nil => staying \subseteq done
OncePerPass == [][CalledOnce(Timers \cup Sources) /\ AllPolled']_vars

(* The loop goes to sleep only when no handler has anything to do: no      *)
(* interrupt is missed between the poll and the test of the trigger.       *)
AsleepIdle == phase = "asleep" => raised = {} /\ callbacks = <<>>

(* Every pass comes to its end, so that the next one follows.              *)
PassesEnd == []<>(phase = "idle")
=============================================================================
