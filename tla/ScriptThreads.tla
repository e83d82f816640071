--------------------------- MODULE ScriptThreads ---------------------------
(* The threads of the script engine. A script runs in a virtual machine until it waits,
   pauses or ends; entities, threads and groups of threads (script classes) are listeners
   that threads wait for. All of it happens on one native thread: a notification runs the
   threads it wakes inside the command that notifies, and deleting a listener deletes others.
   `stack` is the native call stack: its head is the function that runs, and an action is
   the part of a function from one call to the next.

   Scripts wait for labels of entities and for the end of threads and groups. Times are
   relative to the time of the server frame. *)
EXTENDS Integers, Sequences, SequencesExt

CONSTANTS
    Entities,       \* listeners that are no part of the script engine
    MaxThreads,     \* how many threads are created
    Labels,         \* names of what is waited for
    LabelLists,     \* arguments of waittill and waittill_any
    TimeoutLabel,   \* the label that the first argument of waittill_any_timeout spells
    Delays,         \* arguments of waits and timeouts
    FrameTime,      \* time from frame to frame
    MaxCommands,    \* commands of scripts and calls of entities in one behaviour
    NULL

Threads == 1 .. MaxThreads                  \* in the order they are created
Group(t) == -t                              \* the script class that thread t founds
Groups == {Group(t) : t \in Threads}
Listeners == Entities \cup Threads \cup Groups
STRING_NULL == ""                           \* the name of the end of a thread or group
Names == Labels \cup {TimeoutLabel, STRING_NULL}

VARIABLES
    life,           \* of a listener: "none", "alive", "dying" in its destructor, "dead"
    vm,             \* of a thread: ScriptVM::state ("FREED" when deleted), m_ThreadState,
                    \*   m_ScriptClass; those with the same form its m_Threads, the newest first
    waits,          \* m_NotifyList of `on` and m_WaitForList of `by`, in the order of Register
    ends,           \* m_EndList of `on`, in the order of EndOn
    timer,          \* con_timer: m_Elements, m_inttime, m_bDirty
    inttime,        \* level.inttime
    eventQueue,     \* Event::EventQueue
    currentThread,  \* ScriptMaster::m_CurrentThread
    iPaused,        \* ScriptMaster::iPaused
    stack,          \* the native calls, the innermost first
    commands,       \* how many commands were given
    idle,           \* history: the threads that paused themselves
    deadDelete      \* history: something dead or dying was deleted again

listVars == <<waits, ends>>
timeVars == <<inttime, eventQueue>>
directorVars == <<currentThread, iPaused>>
historyVars == <<idle, deadDelete>>
worldVars == <<life, vm, listVars, timer, timeVars, directorVars, historyVars>>
vars == <<worldVars, stack, commands>>

(* The native calls. *)
Executing(t) == [op |-> "Execute", on |-> t]
Returning(t) == [op |-> "ScriptExecuteInternal", on |-> t]
Running(time) == [op |-> "ExecuteRunning", on |-> time]
Unregistering(l, n) == [op |-> "Unregister", on |-> l, name |-> n]
UnregisteringAll(l) == [op |-> "UnregisterAll", on |-> l]
Waking(list, n, deleting) ==
    [op |-> "StoppedWaitFor", on |-> list, name |-> n, deleting |-> deleting]
Quieting(list) == [op |-> "StoppedNotify", on |-> list]
Deleting(list) == [op |-> "delete", on |-> list]
NotifyingDelete(t) == [op |-> "NotifyDelete", on |-> t]
Killing(t) == [op |-> "KillThreads", on |-> t]
Destroying(l) == [op |-> "~Listener", on |-> l]
Forgetting(l) == [op |-> "~Class", on |-> l]
Native(function) == [op |-> function, on |-> NULL]

Calling(op) == stack # <<>> /\ Head(stack).op = op
Top == Head(stack).on

(* A call on top of the function that runs, and in its place; a loop over nothing is over. *)
Loops == {"StoppedWaitFor", "StoppedNotify", "delete"}
Unfinished(calls) == SelectSeq(calls, LAMBDA c : c.op \in Loops => c.on # <<>>)
Call(calls) == stack' = Unfinished(calls) \o stack
Continue(calls) == stack' = Unfinished(calls) \o Tail(stack)

Init ==
    /\ life = [l \in Listeners |-> IF l \in Entities THEN "alive" ELSE "none"]
    /\ vm = [t \in Threads |->
               [state |-> "EXECUTION", threadState |-> "RUNNING", group |-> NULL]]
    /\ waits = <<>> /\ ends = <<>>
    /\ timer = [elements |-> <<>>, inttime |-> 0, dirty |-> FALSE]
    /\ inttime = 0
    /\ eventQueue = <<>>
    /\ currentThread = NULL
    /\ iPaused = 0
    /\ stack = <<>>
    /\ commands = 0
    /\ idle = {} /\ deadDelete = FALSE

-----------------------------------------------------------------------------
(* Timers, events and waiting. *)

(* Stop on a thread that waits for no listener; StartTiming. *)
Untimed(t) == [timer EXCEPT !.elements = SelectSeq(@, LAMBDA e : e.obj # t)]
Timed(t, time) ==
    LET due == IF time < inttime THEN inttime ELSE time
    IN  [Untimed(t) EXCEPT !.elements = Append(@, [obj |-> t, inttime |-> due]),
                           !.dirty = @ \/ due <= timer.inttime]

(* PostEvent: before the events of the same time. *)
Posted(l, event, delay) ==
    LET time == inttime + delay
        earlier == SelectSeq(eventQueue, LAMBDA e : e.inttime < time)
    IN  InsertAt(eventQueue, Len(earlier) + 1,
                 [obj |-> l, event |-> event, inttime |-> time])

WaitsOf(t) == SelectSeq(waits, LAMBDA w : w.by = t)
IsWaiting(t) == WaitsOf(t) # <<>>

(* Register, for each of the names; StartedWaitFor comes with the first. *)
Registered(l, names, t) ==
    waits \o [i \in DOMAIN names |-> [on |-> l, name |-> names[i], by |-> t]]
StartedWaitFor(t) ==
    IF IsWaiting(t) THEN vm
    ELSE [vm EXCEPT ![t].threadState = "SUSPENDED",
                    ![t].state = IF @ = "RUNNING" THEN "SUSPENDED" ELSE @]

(* CancelWaitingAll, and the calls that follow: the thread is told, and the listeners
   nobody else waits for. *)
CancelWaitingAll(t) == waits' = SelectSeq(waits, LAMBDA w : w.by # t)
CancelCalls(t) ==
    LET sources == {WaitsOf(t)[i].on : i \in DOMAIN WaitsOf(t)}
        stopped == {l \in sources : \A i \in DOMAIN waits : waits[i].on = l => waits[i].by = t}
    IN  IF IsWaiting(t)
        THEN <<Waking(<<t>>, STRING_NULL, FALSE), Quieting(SetToSeq(stopped))>>
        ELSE <<>>

(* ScriptExecuteInternal and ExecuteRunning up to the call of ScriptVM::Execute. *)
Entered(v, t) == [v EXCEPT ![t].state = "RUNNING", ![t].threadState = "RUNNING"]
EnterCalls(t) == <<Executing(t), Returning(currentThread)>>

\* Mutant: the stack of scripts is not asked for.
ExecuteRunning_Always(calls) ==
    IF timer.dirty THEN <<Running(inttime)>> \o calls ELSE calls

\* ExecuteRunning begins when no script runs and the timer is dirty.
ExecuteRunning(calls) ==
    IF timer.dirty /\ \A i \in DOMAIN calls : calls[i].op # "Execute"
    THEN <<Running(inttime)>> \o calls ELSE calls

-----------------------------------------------------------------------------
(* Commands of the thread that runs. They act on the current thread. *)

Runs(t) == Calling("Execute") /\ t = Top /\ vm[t].state = "RUNNING"
Command(t) == Runs(t) /\ commands < MaxCommands /\ commands' = commands + 1

EventWait(t, delay) ==
    /\ Command(t)
    /\ timer' = Timed(t, inttime + delay)
    /\ vm' = [vm EXCEPT ![t].state = "SUSPENDED", ![t].threadState = "WAITING"]
    /\ UNCHANGED <<life, listVars, timeVars, directorVars, stack, historyVars>>

EventPause(t) ==
    /\ Command(t)
    /\ vm' = [vm EXCEPT ![t].state = "SUSPENDED"]
    /\ idle' = idle \cup {t}
    /\ UNCHANGED <<life, listVars, timer, timeVars, directorVars, stack, deadDelete>>

(* waittill for one label, waittill_any for several, and both with a timeout:
   waittill_any_timeout registers its first argument, too. *)
WaitTill(t, l, labels, delay) ==
    LET any == Len(labels) > 1 /\ delay # NULL
        names == IF any THEN <<TimeoutLabel>> \o labels ELSE labels
    IN  /\ Command(t)
        /\ life[l] = "alive"
        /\ waits' = Registered(l, names, currentThread)
        /\ vm' = StartedWaitFor(currentThread)
        /\ eventQueue' = IF delay = NULL THEN eventQueue
                         ELSE Posted(currentThread, "CancelWaiting", delay)
        /\ UNCHANGED <<life, ends, timer, inttime, directorVars, stack, historyVars>>

EventEndOn(t, l, n) ==
    LET end == [on |-> l, name |-> n, by |-> currentThread]
    IN  /\ Command(t)
        /\ life[l] = "alive" /\ end \notin ToSet(ends)
        /\ ends' = Append(ends, end)
        /\ UNCHANGED <<life, vm, waits, timer, timeVars, directorVars, stack, historyVars>>

EventNotify(t, l, n) ==
    /\ Command(t)
    /\ life[l] = "alive"
    /\ Call(<<Unregistering(l, n)>>)
    /\ UNCHANGED worldVars

(* remove and delete post the event, immediateremove is the event. *)
ScriptRemove(t, l) ==
    /\ Command(t)
    /\ life[l] = "alive"
    /\ eventQueue' = Posted(l, "Remove", 0)
    /\ UNCHANGED <<life, vm, listVars, timer, inttime, directorVars, stack, historyVars>>

ImmediateRemove(t, l) ==
    /\ Command(t)
    /\ life[l] = "alive"
    /\ Call(<<Deleting(<<l>>)>>)
    /\ UNCHANGED worldVars

Unborn == {t \in Threads : life[t] = "none"}
NewThread == CHOOSE t \in Unborn : \A u \in Unborn : t <= u

(* A new thread in group g, which is new as well when the thread founds it. *)
Created(v, u, g) == [v EXCEPT ![u].group = g, ![u].state = "RUNNING"]
Born(u, g) == [life EXCEPT ![u] = "alive", ![g] = "alive"]

(* thread and exec start a thread and go on when it first stops; waitthread registers for
   the end of the thread, waitexec for the end of its group. *)
CreateThread(t, g, waitsFor) ==
    LET u == NewThread
    IN  /\ Command(t)
        /\ Unborn # {}
        /\ g \in {vm[t].group, Group(u)} /\ waitsFor \in {NULL, u, g}
        /\ waitsFor = g => g = Group(u)
        /\ life' = Born(u, g)
        /\ IF waitsFor = NULL
           THEN vm' = Created(vm, u, g) /\ UNCHANGED waits
           ELSE /\ waits' = Registered(waitsFor, <<STRING_NULL>>, currentThread)
                /\ vm' = Created(StartedWaitFor(currentThread), u, g)
        /\ currentThread' = u
        /\ Call(EnterCalls(u))
        /\ UNCHANGED <<ends, timer, timeVars, iPaused, historyVars>>

(* OP_DONE and end. *)
End(t) ==
    /\ Runs(t)
    /\ Call(<<Deleting(<<t>>)>>)
    /\ UNCHANGED <<worldVars, commands>>

-----------------------------------------------------------------------------
(* Running threads. *)

(* The loop of ScriptVM::Execute ends when the state is not RUNNING. *)
ExecuteEnds ==
    /\ Calling("Execute") /\ vm[Top].state # "RUNNING"
    /\ vm' = [vm EXCEPT ![Top].state =
                IF @ = "SUSPENDED" THEN "EXECUTION" ELSE IF @ = "DESTROYED" THEN "FREED" ELSE @]
    /\ Continue(<<>>)
    /\ UNCHANGED <<life, listVars, timer, timeVars, directorVars, commands, historyVars>>

(* ScriptExecuteInternal behind the call: the current thread is a safe pointer. *)
ScriptExecuteReturns ==
    /\ Calling("ScriptExecuteInternal")
    /\ currentThread' = IF Top # NULL /\ life[Top] = "dead" THEN NULL ELSE Top
    /\ stack' = ExecuteRunning(Tail(stack))
    /\ UNCHANGED <<life, vm, listVars, timer, timeVars, iPaused, commands, historyVars>>

(* GetNextElement takes the first of those due first. *)
IsDue(i) == timer.elements[i].inttime <= timer.inttime
IsNext(i) ==
    /\ IsDue(i)
    /\ \A j \in DOMAIN timer.elements :
        \/ timer.elements[i].inttime < timer.elements[j].inttime
        \/ timer.elements[i].inttime = timer.elements[j].inttime /\ i <= j

ExecuteNext ==
    /\ Calling("ExecuteRunning")
    /\ \E i \in DOMAIN timer.elements : LET t == timer.elements[i].obj IN
        /\ IsNext(i)
        /\ timer' = [timer EXCEPT !.elements = RemoveAt(@, i)]
        /\ inttime' = timer.elements[i].inttime
        /\ currentThread' = t
        /\ vm' = Entered(vm, t)
        /\ Call(<<Executing(t)>>)
    /\ UNCHANGED <<life, listVars, eventQueue, iPaused, commands, historyVars>>

ExecuteRunningEnds ==
    /\ Calling("ExecuteRunning")
    /\ ~ \E i \in DOMAIN timer.elements : IsDue(i)
    /\ timer' = [timer EXCEPT !.dirty = FALSE]
    /\ currentThread' = NULL
    /\ inttime' = Top
    /\ Continue(<<>>)
    /\ UNCHANGED <<life, vm, listVars, eventQueue, iPaused, commands, historyVars>>

-----------------------------------------------------------------------------
(* Notifications. *)

WaitersOf(list) == [i \in DOMAIN list |-> list[i].by]

(* Unregister begins with the threads that the name ends, from the last to the first. *)
EndThreads ==
    LET ended == SelectSeq(ends, LAMBDA e : e.on = Top /\ e.name = Head(stack).name)
    IN  /\ Calling("Unregister") /\ ended # <<>>
        /\ ends' = SelectSeq(ends, LAMBDA e : e \notin ToSet(ended))
        /\ Call(<<Deleting(Reverse(WaitersOf(ended)))>>)
        /\ UNCHANGED <<life, vm, waits, timer, timeVars, directorVars, commands, historyVars>>

(* UnregisterTargets: what waits for any of the names of l waits for them no more. Stopped
   are those who wait for nothing else. *)
Concerns(w, l, names) == w.on = l /\ w.name \in names
UnregisterTargets(l, names) == waits' = SelectSeq(waits, LAMBDA w : ~Concerns(w, l, names))
Stopped(l, names) ==
    WaitersOf(SelectSeq(waits, LAMBDA w : /\ Concerns(w, l, names)
                                         /\ \A i \in DOMAIN waits :
                                              waits[i].by = w.by => Concerns(waits[i], l, names)))

(* An entity, and any listener in its destructor, ignores StoppedNotify. *)
Unregister ==
    /\ Calling("Unregister")
    /\ \A i \in DOMAIN ends : ~Concerns(ends[i], Top, {Head(stack).name})
    /\ UnregisterTargets(Top, {Head(stack).name})
    /\ Continue(<<Waking(Stopped(Top, {Head(stack).name}), Head(stack).name, FALSE)>>)
    /\ UNCHANGED <<life, vm, ends, timer, timeVars, directorVars, commands, historyVars>>

(* UnregisterAll behind Unregister(0): the names come in the order of a hash table. *)
UnregisterAll ==
    /\ Calling("UnregisterAll")
    /\ ends' = SelectSeq(ends, LAMBDA e : e.on # Top)
    /\ UnregisterTargets(Top, Names)
    /\ \E list \in SetToSeqs(ToSet(Stopped(Top, Names))) :
         Continue(<<Waking(list, STRING_NULL, TRUE)>>)
    /\ UNCHANGED <<life, vm, timer, timeVars, directorVars, commands, historyVars>>

(* StoppedWaitFor is called for one thread of the list after the other. Those that died are
   skipped, and a thread does not wake inside its own command, so it is never resumed. *)
Woken == Head(Top)
WakeRest == [Head(stack) EXCEPT !.on = Tail(@)]
Wakes == Calling("StoppedWaitFor")
IsWoken == Wakes /\ life[Woken] = "alive" /\ ~Head(stack).deleting
           /\ vm[Woken].threadState = "SUSPENDED"
RunsAtOnce == Head(stack).name # STRING_NULL /\ iPaused <= 0   \* as in EntityStartsThread
\* Mutant: the timeout stays pending when the thread is woken before it.
WithoutTimeout_Stays(t) == eventQueue

\* CancelEventsOfType.
WithoutTimeout(t) ==
    SelectSeq(eventQueue, LAMBDA e : ~(e.obj = t /\ e.event = "CancelWaiting"))

StoppedWaitForRuns ==
    /\ IsWoken /\ RunsAtOnce /\ vm[Woken].state = "EXECUTION"
    /\ eventQueue' = WithoutTimeout(Woken)
    /\ currentThread' = Woken
    /\ vm' = Entered(vm, Woken)
    /\ Continue(EnterCalls(Woken) \o <<WakeRest>>)
    /\ UNCHANGED <<life, listVars, timer, inttime, iPaused, commands, historyVars>>

StoppedWaitForTimes ==
    /\ IsWoken /\ ~RunsAtOnce
    /\ Head(stack).name # STRING_NULL => vm[Woken].state = "EXECUTION"
    /\ eventQueue' = WithoutTimeout(Woken)
    /\ timer' = Timed(Woken, inttime)
    /\ vm' = [vm EXCEPT ![Woken].threadState = "WAITING"]
    /\ Continue(<<WakeRest>>)
    /\ UNCHANGED <<life, listVars, inttime, directorVars, commands, historyVars>>

(* The listener they waited for is deleted. *)
StoppedWaitForDeletes ==
    /\ Wakes /\ life[Woken] = "alive" /\ Head(stack).deleting
    /\ Continue(<<Deleting(<<Woken>>), WakeRest>>)
    /\ UNCHANGED <<worldVars, commands>>

StoppedWaitForSkips ==
    /\ Wakes
    /\ \/ life[Woken] # "alive"
       \/ ~Head(stack).deleting /\ vm[Woken].threadState # "SUSPENDED"
    /\ eventQueue' = IF life[Woken] = "alive" THEN WithoutTimeout(Woken) ELSE eventQueue
    /\ Continue(<<WakeRest>>)
    /\ UNCHANGED <<life, vm, listVars, timer, inttime, directorVars, commands, historyVars>>

(* The list of a group has the newest thread first. *)
Members(g) == {t \in Threads : vm[t].group = g}
Newest(threads) == CHOOSE t \in threads \cup {NULL} : \A u \in threads : t # NULL /\ u <= t

(* StoppedNotify of a thread or a group deletes it: nobody waits for it any more. *)

StoppedNotify ==
    /\ Calling("StoppedNotify")
    /\ LET l == Head(Top)
           obeys == life[l] = "alive" /\ l \notin Entities
       IN  /\ life' = IF obeys /\ l \in Groups THEN [life EXCEPT ![l] = "dying"] ELSE life
           /\ Continue((IF ~obeys THEN <<>> ELSE IF l \in Groups
                        THEN <<Killing(Newest(Members(l))), Destroying(l)>>
                        ELSE <<Deleting(<<l>>)>>) \o <<Quieting(Tail(Top))>>)
    /\ UNCHANGED <<vm, listVars, timer, timeVars, directorVars, commands, historyVars>>

-----------------------------------------------------------------------------
(* Deleting. *)

(* `delete` of the first of a list. Whatever is on such a list is alive when its turn comes:
   otherwise nothing could go on here. *)
DeleteEntity ==
    /\ Calling("delete")
    /\ Head(Top) \in Entities /\ life[Head(Top)] = "alive"
    /\ life' = [life EXCEPT ![Head(Top)] = "dying"]
    /\ Continue(<<Destroying(Head(Top)), Deleting(Tail(Top))>>)
    /\ UNCHANGED <<vm, listVars, timer, timeVars, directorVars, commands, historyVars>>

(* ~ScriptThread. *)
DeleteThread ==
    /\ Calling("delete")
    /\ LET t == Head(Top)
       IN  /\ t \in Threads /\ life[t] = "alive"
           /\ life' = [life EXCEPT ![t] = "dying"]
           /\ vm' = [vm EXCEPT ![t].threadState = "RUNNING"]
           /\ timer' = IF vm[t].threadState = "WAITING" THEN Untimed(t) ELSE timer
           /\ IF vm[t].threadState = "SUSPENDED"
              THEN /\ CancelWaitingAll(t)
                   /\ Continue(CancelCalls(t)
                        \o <<NotifyingDelete(t), Destroying(t), Deleting(Tail(Top))>>)
              ELSE /\ UNCHANGED waits
                   /\ Continue(<<NotifyingDelete(t), Destroying(t), Deleting(Tail(Top))>>)
    /\ UNCHANGED <<ends, timeVars, directorVars, commands, historyVars>>

(* ScriptVM::NotifyDelete and RemoveThread: a virtual machine that runs is freed when its
   loop ends; a group is deleted with its last thread. *)
NotifyDelete ==
    /\ Calling("NotifyDelete")
    /\ LET t == Top
           g == vm[t].group
           last == g # NULL /\ Members(g) = {t}
       IN  /\ vm' = [vm EXCEPT ![t].group = NULL,
                               ![t].state = IF @ = "EXECUTION" THEN "FREED" ELSE "DESTROYED"]
           /\ deadDelete' = (\/ deadDelete \/ vm[t].state \in {"DESTROYED", "FREED"}
                             \/ g # NULL /\ life[g] # "alive")
           /\ life' = IF last THEN [life EXCEPT ![g] = "dying"] ELSE life
           /\ Continue(IF last THEN <<Destroying(g)>> ELSE <<>>)
    /\ UNCHANGED <<listVars, timer, timeVars, directorVars, commands, idle>>

(* KillThreads goes from thread to thread by plain pointers, each read before the thread
   in front of it is deleted. *)
KillThreads ==
    /\ Calling("KillThreads") /\ Top # NULL
    /\ vm' = [vm EXCEPT ![Top].group = NULL]
    /\ deadDelete' = (deadDelete \/ life[Top] # "alive")
    /\ LET next == Newest({t \in Members(vm[Top].group) : t < Top})
       IN  Continue(<<Deleting(<<Top>>), Killing(next)>>)
    /\ UNCHANGED <<life, listVars, timer, timeVars, directorVars, commands, idle>>

ThreadsKilled ==
    /\ Calling("KillThreads") /\ Top = NULL
    /\ Continue(<<>>)
    /\ UNCHANGED <<worldVars, commands>>

(* ~Listener: CancelPendingEvents, then UnregisterAll, which begins with Unregister(0). *)
DestroyListener ==
    /\ Calling("~Listener")
    /\ eventQueue' = SelectSeq(eventQueue, LAMBDA e : e.obj # Top)
    /\ Continue(<<Unregistering(Top, STRING_NULL), UnregisteringAll(Top), Forgetting(Top)>>)
    /\ UNCHANGED <<life, vm, listVars, timer, inttime, directorVars, commands, historyVars>>

(* ~Class: safe pointers become NULL. *)
ForgetListener ==
    /\ Calling("~Class")
    /\ life' = [life EXCEPT ![Top] = "dead"]
    /\ ends' = SelectSeq(ends, LAMBDA e : e.by # Top)
    /\ currentThread' = IF currentThread = Top THEN NULL ELSE currentThread
    /\ idle' = idle \ {Top}
    /\ Continue(<<>>)
    /\ UNCHANGED <<vm, waits, timer, timeVars, iPaused, commands, deadDelete>>

-----------------------------------------------------------------------------
(* The server frame. *)

(* L_ProcessPendingEvents. *)
ProcessEvent ==
    /\ Calling("L_ProcessPendingEvents")
    /\ eventQueue # <<>> /\ Head(eventQueue).inttime <= inttime
    /\ eventQueue' = Tail(eventQueue)
    /\ LET l == Head(eventQueue).obj
       IN  IF Head(eventQueue).event = "Remove"
           THEN Call(<<Deleting(<<l>>)>>) /\ UNCHANGED waits
           ELSE CancelWaitingAll(l) /\ Call(CancelCalls(l))
    /\ UNCHANGED <<life, vm, ends, timer, inttime, directorVars, commands, historyVars>>

EventsProcessed ==
    /\ Calling("L_ProcessPendingEvents")
    /\ eventQueue # <<>> => Head(eventQueue).inttime > inttime
    /\ Continue(<<>>)
    /\ UNCHANGED <<worldVars, commands>>

(* G_RunFrame. Relative to the new frame everything is earlier by FrameTime. *)
Earlier(list) == [i \in DOMAIN list |-> [list[i] EXCEPT !.inttime = @ - FrameTime]]

RunFrame ==
    /\ stack = <<>>
    /\ timer' = [timer EXCEPT !.elements = Earlier(@), !.inttime = -FrameTime]
    /\ eventQueue' = Earlier(eventQueue)
    /\ iPaused' = -1
    /\ Call(<<Native("L_ProcessPendingEvents"), Native("SetTime"), Native("Think"),
              Native("Unpause"), Native("L_ProcessPendingEvents"), Native("Think"),
              Native("L_ProcessPendingEvents")>>)
    /\ UNCHANGED <<life, vm, listVars, inttime, currentThread, commands, historyVars>>

(* AllowPause, Pause and SetTime. *)
SetTime ==
    /\ Calling("SetTime")
    /\ iPaused' = 1
    /\ timer' = [timer EXCEPT !.inttime = inttime, !.dirty = TRUE]
    /\ Continue(<<>>)
    /\ UNCHANGED <<life, vm, listVars, timeVars, currentThread, commands, historyVars>>

Unpause ==
    /\ Calling("Unpause")
    /\ iPaused' = iPaused - 1
    /\ stack' = IF iPaused' = 0 THEN ExecuteRunning(Tail(stack)) ELSE Tail(stack)
    /\ UNCHANGED <<life, vm, listVars, timer, timeVars, currentThread, commands, historyVars>>

(* What entities do when they think: nothing more, or notify, start a script, remove. *)
Thinking == Calling("Think") /\ commands < MaxCommands /\ commands' = commands + 1

ThinkEnds ==
    /\ Calling("Think")
    /\ Continue(<<>>)
    /\ UNCHANGED <<worldVars, commands>>

EntityNotifies(l, n) ==
    /\ Thinking
    /\ life[l] = "alive"
    /\ Call(<<Unregistering(l, n)>>)
    /\ UNCHANGED worldVars

(* ScriptThread::Execute without arguments: before Unpause the new thread is not entered but
   put on the timer list, and the current thread stays what it is. *)
EntityStartsThread ==
    LET u == NewThread
        started == [vm EXCEPT ![u].group = Group(u)]
    IN  /\ Thinking
        /\ Unborn # {}
        /\ life' = Born(u, Group(u))
        /\ \/ /\ iPaused > 0
              /\ timer' = Timed(u, inttime)
              /\ vm' = [started EXCEPT ![u].threadState = "WAITING"]
              /\ UNCHANGED <<currentThread, stack>>
           \/ /\ iPaused <= 0
              /\ vm' = Entered(started, u)
              /\ currentThread' = u
              /\ Call(EnterCalls(u))
              /\ UNCHANGED timer
        /\ UNCHANGED <<listVars, timeVars, iPaused, historyVars>>

(* With arguments (those of an event, or two listeners) it is entered at once, paused or not. *)
EntityExecutesThread ==
    LET u == NewThread
    IN  /\ Thinking
        /\ Unborn # {}
        /\ life' = Born(u, Group(u))
        /\ vm' = Created(vm, u, Group(u))
        /\ currentThread' = u
        /\ Call(EnterCalls(u))
        /\ UNCHANGED <<listVars, timer, timeVars, iPaused, historyVars>>

EntityRemoved(l) ==
    /\ Thinking
    /\ life[l] = "alive"
    /\ eventQueue' = Posted(l, "Remove", 0)
    /\ UNCHANGED <<life, vm, listVars, timer, inttime, directorVars, stack, historyVars>>

-----------------------------------------------------------------------------

Commands ==
    \E t \in Threads :
        \/ \E delay \in Delays : EventWait(t, delay)
        \/ EventPause(t)
        \/ \E l \in Entities, labels \in LabelLists, delay \in Delays \cup {NULL} :
              WaitTill(t, l, labels, delay)
        \/ \E l \in Entities, n \in Labels : EventEndOn(t, l, n) \/ EventNotify(t, l, n)
        \/ \E l \in Entities \cup Threads : ScriptRemove(t, l) \/ ImmediateRemove(t, l)
        \/ \E g \in Groups, w \in Threads \cup Groups \cup {NULL} : CreateThread(t, g, w)
        \/ End(t)

Calls ==
    \/ ExecuteEnds \/ ScriptExecuteReturns \/ ExecuteNext \/ ExecuteRunningEnds
    \/ EndThreads \/ Unregister \/ UnregisterAll
    \/ StoppedWaitForRuns \/ StoppedWaitForTimes \/ StoppedWaitForDeletes
    \/ StoppedWaitForSkips \/ StoppedNotify
    \/ DeleteEntity \/ DeleteThread
    \/ NotifyDelete \/ KillThreads \/ ThreadsKilled \/ DestroyListener \/ ForgetListener

Frame ==
    \/ RunFrame \/ ProcessEvent \/ EventsProcessed \/ SetTime \/ Unpause \/ ThinkEnds
    \/ EntityStartsThread \/ EntityExecutesThread
    \/ \E l \in Entities : EntityRemoved(l) \/ \E n \in Labels : EntityNotifies(l, n)

Next == Commands \/ Calls \/ Frame

Spec == Init /\ [][Next]_vars

-----------------------------------------------------------------------------
(* Properties. *)

OnStack(t) == \E i \in DOMAIN stack : stack[i] = Executing(t)
Pending(t) ==
    \E i \in DOMAIN stack :
        stack[i].op \in {"StoppedWaitFor", "delete"} /\ t \in ToSet(stack[i].on)

(* A thread that is alive and does not run has something that will wake it. *)
EverybodyWaits ==
    \A t \in Threads : life[t] = "alive" /\ ~OnStack(t) =>
        \/ vm[t].threadState = "WAITING"
             /\ \E i \in DOMAIN timer.elements : timer.elements[i].obj = t
        \/ vm[t].threadState = "SUSPENDED" /\ (IsWaiting(t) \/ Pending(t))
        \/ t \in idle

(* The timer list holds plain pointers: nothing dead is in it, and nobody twice. *)
TimersMatch ==
    \A i \in DOMAIN timer.elements : LET t == timer.elements[i].obj IN
        /\ life[t] = "alive" /\ vm[t].threadState = "WAITING"
        /\ \A j \in DOMAIN timer.elements : timer.elements[j].obj = t => i = j

(* Who waits is alive and suspended, and waits for something that lives. A timeout is
   pending only for a thread that waits: none is left to cut a later wait short. *)
WaitsMatch ==
    /\ \A i \in DOMAIN waits :
        /\ life[waits[i].by] = "alive" /\ vm[waits[i].by].threadState = "SUSPENDED"
        /\ life[waits[i].on] # "dead"
    /\ \A i \in DOMAIN eventQueue : LET e == eventQueue[i] IN
        /\ life[e.obj] \in {"alive", "dying"}
        /\ e.event = "CancelWaiting" /\ life[e.obj] = "alive" =>
              IsWaiting(e.obj) \/ Pending(e.obj)

(* When a frame ends, everything due before it has run, timeouts due in it, too, and the
   time is that of the frame again. *)
OnTime ==
    stack = <<>> =>
        /\ inttime = 0
        /\ \A i \in DOMAIN timer.elements : timer.elements[i].inttime >= 0
        /\ \A i \in DOMAIN eventQueue : eventQueue[i].inttime > 0

(* Nobody is forgotten: through notifications, timeouts and deletions that run inside each
   other, the lists of waiting threads (Listener's and con_timer's) and the state of each
   thread agree, and a thread that waits is woken in the frame its time comes. *)
NobodyForgotten == EverybodyWaits /\ TimersMatch /\ WaitsMatch /\ OnTime

(* Although commands run and delete threads from inside other threads' calls, nothing is
   deleted twice, a virtual machine is neither freed while it runs (ScriptVM::Execute goes
   on behind every command) nor entered twice, and a command acts on the thread that gives
   it (ScriptMaster::m_CurrentThread). *)
ExecutionSound ==
    /\ ~deadDelete
    /\ \A i \in DOMAIN stack : stack[i].op = "Execute" =>
        /\ vm[stack[i].on].state \notin {"EXECUTION", "FREED"}
        /\ \A j \in DOMAIN stack : stack[j] = stack[i] => i = j
    /\ Calling("Execute") /\ vm[Top].state = "RUNNING" => currentThread = Top
=============================================================================
