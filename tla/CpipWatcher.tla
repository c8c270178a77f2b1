---------------------------- MODULE CpipWatcher -----------------------------
(***************************************************************************)
(* The life of the CPIP watcher's background task in the desktop backend   *)
(* (backend/cpip_watcher.py): POST /cpip/watcher/start and /stop, the      *)
(* loop, and the clients of the event stream /cpip/watcher/events.         *)
(*                                                                         *)
(* Everything runs on one event loop, so what stands between two awaits is *)
(* one action.  start_watcher has no await; stop_watcher has one, on the   *)
(* task it cancelled; the loop sleeps once per round; _watch_iteration     *)
(* has none, and what it does to files is the subject of CpipUpdate.       *)
(* Of the events only watcher_started and watcher_stopped are kept.        *)
(***************************************************************************)
EXTENDS Naturals, Sequences, FiniteSets

CONSTANTS
    Client,       \* concurrent callers of start and stop
    Subscriber,   \* clients of the event stream
    MaxTasks      \* bound: tasks ever created

ASSUME TasksAssumption == MaxTasks \in Nat

VARIABLES
    running,      \* _watcher_state.running
    current,      \* _watcher_task; 0 stands for None
    task,         \* the state of each task
    cancelled,    \* tasks cancel() was called on
    awaiting,     \* the task each client's stop_watcher awaits, 0 for none
    settled,      \* the last call, if no two calls overlapped so far
    stream        \* per subscriber: queue, and what it was told of running

watcherVars == <<running, current, task, cancelled, awaiting, settled, stream>>

Task == 1..MaxTasks

TaskState == {"none", "created", "sleeping", "done"}

\* seen: "off" until subscribed, "subscribed" until the first state event.
Stream == [seen: {"off", "subscribed", "stopped", "started"},
           queue: Seq({"started", "stopped"})]

NoStream == [seen |-> "off", queue |-> <<>>]

WatcherTypeOK ==
    /\ running \in BOOLEAN
    /\ current \in {0} \cup Task
    /\ task \in [Task -> TaskState]
    /\ cancelled \subseteq Task
    /\ awaiting \in [Client -> {0} \cup Task]
    /\ settled \in {"start", "stop", "mixed"}
    /\ stream \in [Subscriber -> Stream]
    /\ current # 0 => task[current] # "none"
    /\ \A c \in Client : awaiting[c] # 0 => awaiting[c] \in cancelled

Alive == {t \in Task : task[t] \in {"created", "sleeping"}}
Busy == {c \in Client : awaiting[c] # 0}

WatcherInit ==
    /\ running = FALSE
    /\ current = 0
    /\ task = [t \in Task |-> "none"]
    /\ cancelled = {}
    /\ awaiting = [c \in Client |-> 0]
    /\ settled = "stop"
    /\ stream = [s \in Subscriber |-> NoStream]

\* _broadcast_event: into the queue of every subscriber.
Broadcast(event) ==
    stream' = [s \in Subscriber |->
                 IF stream[s].seen = "off" THEN stream[s]
                 ELSE [stream[s] EXCEPT !.queue = Append(@, event)]]

-----------------------------------------------------------------------------
(* Calls. *)

\* Once two calls overlapped, nothing is said of what the calls leave behind.
Overlaps(call) == IF Busy = {} /\ settled # "mixed" THEN call ELSE "mixed"

\* Mutation: the task is not looked at.
AlreadyRunningNever == FALSE

AlreadyRunning == current # 0 /\ task[current] # "done"

\* start_watcher: nothing, if the task it knows of is not done.
StartWatcher(c) ==
    /\ awaiting[c] = 0
    /\ \/ AlreadyRunning /\ UNCHANGED <<current, task>>
       \/ /\ ~AlreadyRunning
          /\ \E t \in Task :
               /\ task[t] = "none" /\ \A u \in Task : task[u] = "none" => t <= u
               /\ task' = [task EXCEPT ![t] = "created"]
               /\ current' = t
    /\ settled' = Overlaps("start")
    /\ UNCHANGED <<running, cancelled, awaiting, stream>>

\* Mutation: the flag alone is to stop the loop.
StopWatcherByFlag(c) ==
    /\ awaiting[c] = 0
    /\ running' = FALSE
    /\ current' = 0
    /\ settled' = Overlaps("stop")
    /\ UNCHANGED <<task, cancelled, awaiting, stream>>

\* Mutation: the task is awaited and not cancelled.
StopWatcherAwaits(c) ==
    /\ awaiting[c] = 0
    /\ running' = FALSE
    /\ IF current # 0 /\ task[current] # "done"
         THEN awaiting' = [awaiting EXCEPT ![c] = current] /\ UNCHANGED current
         ELSE current' = 0 /\ UNCHANGED awaiting
    /\ settled' = Overlaps("stop")
    /\ UNCHANGED <<task, cancelled, stream>>

\* stop_watcher up to its await; without a task to wait for it is done at once.
StopWatcher(c) ==
    /\ awaiting[c] = 0
    /\ running' = FALSE
    /\ IF current # 0 /\ task[current] # "done"
         THEN /\ cancelled' = cancelled \cup {current}
              /\ awaiting' = [awaiting EXCEPT ![c] = current]
              /\ UNCHANGED current
         ELSE /\ current' = 0
              /\ UNCHANGED <<cancelled, awaiting>>
    /\ settled' = Overlaps("stop")
    /\ UNCHANGED <<task, stream>>

\* stop_watcher after its await: it forgets whatever task is current by then.
StopWatcherReturns(c) ==
    /\ awaiting[c] # 0
    /\ task[awaiting[c]] = "done"
    /\ current' = 0
    /\ awaiting' = [awaiting EXCEPT ![c] = 0]
    /\ UNCHANGED <<running, task, cancelled, settled, stream>>

-----------------------------------------------------------------------------
(* The task. *)

\* Mutation: no watcher_started event.
LoopBeginsQuietly(t) ==
    /\ task[t] = "created"
    /\ t \notin cancelled
    /\ task' = [task EXCEPT ![t] = "sleeping"]
    /\ running' = TRUE
    /\ UNCHANGED <<current, cancelled, awaiting, settled, stream>>

\* _watcher_loop up to its first sleep.
LoopBegins(t) ==
    /\ task[t] = "created"
    /\ t \notin cancelled
    /\ task' = [task EXCEPT ![t] = "sleeping"]
    /\ running' = TRUE
    /\ Broadcast("started")
    /\ UNCHANGED <<current, cancelled, awaiting, settled>>

\* It wakes up and the flag is down.  (With the flag up it goes round again.)
LoopEnds(t) ==
    /\ task[t] = "sleeping"
    /\ t \notin cancelled
    /\ ~running
    /\ task' = [task EXCEPT ![t] = "done"]
    /\ Broadcast("stopped")
    /\ UNCHANGED <<running, current, cancelled, awaiting, settled>>

\* CancelledError, at the sleep or before the first step: no event is sent.
LoopCancelled(t) ==
    /\ t \in cancelled
    /\ task[t] \in {"created", "sleeping"}
    /\ task' = [task EXCEPT ![t] = "done"]
    /\ UNCHANGED <<running, current, cancelled, awaiting, settled, stream>>

-----------------------------------------------------------------------------
(* The event stream. *)

\* cpip_watcher_sse registers its queue when the request arrives.
Subscribe(s) ==
    /\ stream[s].seen = "off"
    /\ stream' = [stream EXCEPT ![s].seen = "subscribed"]
    /\ UNCHANGED <<running, current, task, cancelled, awaiting, settled>>

\* event_generator begins, later: it sends the state of that moment first.
FirstEvent(s) ==
    /\ stream[s].seen = "subscribed"
    /\ stream' = [stream EXCEPT ![s].seen = IF running THEN "started" ELSE "stopped"]
    /\ UNCHANGED <<running, current, task, cancelled, awaiting, settled>>

NextEvent(s) ==
    /\ stream[s].seen \in {"started", "stopped"}
    /\ stream[s].queue # <<>>
    /\ stream' = [stream EXCEPT ![s] = [seen |-> Head(@.queue), queue |-> Tail(@.queue)]]
    /\ UNCHANGED <<running, current, task, cancelled, awaiting, settled>>

Disconnect(s) ==
    /\ stream[s].seen # "off"
    /\ stream' = [stream EXCEPT ![s] = NoStream]
    /\ UNCHANGED <<running, current, task, cancelled, awaiting, settled>>

WatcherNext ==
    \/ \E c \in Client :
         \/ StartWatcher(c)
         \/ StopWatcher(c)
         \/ StopWatcherReturns(c)
    \/ \E t \in Task :
         \/ LoopBegins(t)
         \/ LoopEnds(t)
         \/ LoopCancelled(t)
    \/ \E s \in Subscriber :
         \/ Subscribe(s)
         \/ FirstEvent(s)
         \/ NextEvent(s)
         \/ Disconnect(s)

WatcherSpec == WatcherInit /\ [][WatcherNext]_watcherVars

\* The event loop runs what is ready: a created or cancelled task, a client
\* whose task is done, a loop whose sleep is over.
WatcherFairSpec ==
    /\ WatcherSpec
    /\ \A c \in Client : WF_watcherVars(StopWatcherReturns(c))
    /\ \A t \in Task : WF_watcherVars(LoopBegins(t) \/ LoopEnds(t) \/ LoopCancelled(t))

-----------------------------------------------------------------------------
(* Properties. *)

\* One caller at a time: a stop that returned left no loop and no flag, however
\* soon it followed the start (stop_watcher cancels, and awaits the cancelled).
StopSettles ==
    Busy = {} /\ settled = "stop" => Alive = {} /\ ~running

\* One caller at a time: after a start there is exactly one loop, the one the
\* next stop will find (start_watcher's test of the old task).
StartSettles ==
    Busy = {} /\ settled = "start" => Alive = {current} /\ current \notin cancelled

\* However calls overlap: a subscriber that has read all its events knows of a
\* watcher that runs (subscription before the state event; one queue for all).
RunningIsShown ==
    \A s \in Subscriber :
        running /\ stream[s].queue = <<>> /\ stream[s].seen \notin {"off", "subscribed"}
          => stream[s].seen = "started"

\* However calls overlap, a caller of stop_watcher gets its answer: whatever it
\* awaits is done in the end.
StopReturns ==
    \A c \in Client : awaiting[c] # 0 ~> awaiting[c] = 0

\* "CPIP watcher already running": there are never two loops.
AtMostOneLoop == Cardinality(Alive \ cancelled) <= 1
=============================================================================
