----------------------------- MODULE OsalTasks ------------------------------
(***************************************************************************)
(* OSALTaskCreate, OSALTaskDelete and OSALGetCurrentTaskID on the four     *)
(* systems: osal_posix.cpp and osal_win32.cpp keep a map from thread to    *)
(* task id to which the new thread adds itself; osal_freertos.cpp keeps a  *)
(* list of nodes on the tasks' own stacks; osal_tirtos.cpp keeps nothing.  *)
(* The thread functions are external: they return, or they are deleted.    *)
(***************************************************************************)
EXTENDS Naturals

CONSTANTS Tasks,         \* OSALTask objects, one per call of OSALTaskCreate
          ThreadIds,     \* pthread_t or DWORD values, stacks with FreeRTOS
          NoId,          \* none of them
          Ports,         \* which of the four systems are looked at
          IdsReused      \* the system gives the id of an ended thread to a new one

ASSUME TaskAssumption == Ports \subseteq {"posix", "win32", "freertos", "tirtos"}

VARIABLES
  taskPort,      \* the system, the same for ever
  taskState,     \* per task: none, starting, running, ended, terminated
  taskThread,    \* per task: the id of its thread
  taskObject,    \* per task: the object is allocated
  taskIdMap,     \* osal_IdMap, or the list that OSALGetCurrentTaskID searches
  taskUsedIds    \* thread ids of all threads so far

taskVars == <<taskPort, taskState, taskThread, taskObject, taskIdMap, taskUsedIds>>

TaskInit ==
  /\ taskPort \in Ports
  /\ taskState = [k \in Tasks |-> "none"]
  /\ taskThread = [k \in Tasks |-> NoId]
  /\ taskObject = [k \in Tasks |-> FALSE]
  /\ taskIdMap = [i \in ThreadIds |-> {}]
  /\ taskUsedIds = {}

\* The system has the thread and has not ended it.
Lives(k) == taskState[k] \in {"starting", "running"}

-----------------------------------------------------------------------------
(* Creating.                                                               *)

\* The object, and a thread with an id no living thread has; with FreeRTOS the
\* id is the stack, which belongs to the caller's task.
NewThread(k) ==
  /\ taskState[k] = "none"
  /\ \E i \in ThreadIds :
       /\ \A j \in Tasks : Lives(j) => taskThread[j] # i
       /\ IdsReused \/ i \notin taskUsedIds
       /\ taskThread' = [taskThread EXCEPT ![k] = i]
       /\ taskUsedIds' = taskUsedIds \cup {i}
  /\ taskState' = [taskState EXCEPT ![k] = "starting"]
  /\ taskObject' = [taskObject EXCEPT ![k] = TRUE]
  /\ UNCHANGED <<taskPort, taskIdMap>>

\* The thread may run before the constructor returns.
OSALTaskCreate(k) == taskPort = "posix" /\ NewThread(k)
OSALTaskCreate_Win32(k) == taskPort = "win32" /\ NewThread(k)
OSALTaskCreate_FreeRtos(k) == taskPort = "freertos" /\ NewThread(k)
osal_Task(k) == taskPort = "tirtos" /\ NewThread(k)

-----------------------------------------------------------------------------
(* The threads.                                                            *)

ThreadRuns(k) ==
  /\ taskState[k] = "starting"
  /\ taskState' = [taskState EXCEPT ![k] = "running"]
  /\ UNCHANGED <<taskPort, taskThread, taskObject, taskUsedIds>>

\* The map is written under the lock; what it held for the id is overwritten, if
\* the assertion that it held nothing is compiled out.
osalTaskFxn(k) ==
  /\ taskPort = "posix" /\ ThreadRuns(k)
  /\ taskIdMap' = [taskIdMap EXCEPT ![taskThread[k]] = {k}]

osal_ThreadTask(k) ==
  /\ taskPort = "win32" /\ ThreadRuns(k)
  /\ taskIdMap' = [taskIdMap EXCEPT ![taskThread[k]] = {k}]

\* The node on the task's stack goes to the end of the list.
OSALTaskCreateTaskCb(k) ==
  /\ taskPort = "freertos" /\ ThreadRuns(k)
  /\ taskIdMap' = [taskIdMap EXCEPT ![taskThread[k]] = @ \cup {k}]

\* The function is called, nothing else.
osalTaskFxn_TiRtos(k) ==
  taskPort = "tirtos" /\ ThreadRuns(k) /\ UNCHANGED taskIdMap

ThreadEnds(k) ==
  /\ taskState[k] = "running"
  /\ taskState' = [taskState EXCEPT ![k] = "ended"]
  /\ UNCHANGED <<taskPort, taskThread, taskObject, taskUsedIds>>

\* The task's function returns: nothing leaves the map.
TaskReturns(k) ==
  taskPort # "freertos" /\ ThreadEnds(k) /\ UNCHANGED taskIdMap

\* (variant: the node stays listed)
TaskCbReturns_Listed(k) ==
  taskPort = "freertos" /\ ThreadEnds(k) /\ UNCHANGED taskIdMap

\* The node leaves the list and the task deletes itself, so that nobody comes
\* back to free the object.
TaskCbReturns(k) ==
  /\ taskPort = "freertos" /\ ThreadEnds(k)
  /\ taskIdMap' = [taskIdMap EXCEPT ![taskThread[k]] = @ \ {k}]

-----------------------------------------------------------------------------
(* Deleting.                                                               *)

\* (variant: no pthread_join)
JoinTask_Not(k) == taskObject[k]

\* ~OSALTask joins, so it waits for the function to return.
JoinTask(k) == taskObject[k] /\ taskState[k] = "ended"

OSALTaskDelete(k) ==
  /\ taskPort = "posix" /\ JoinTask(k)
  /\ taskObject' = [taskObject EXCEPT ![k] = FALSE]
  /\ UNCHANGED <<taskPort, taskState, taskThread, taskIdMap, taskUsedIds>>

\* The thread is terminated wherever it is; the object is never freed.
OSALTaskDelete_Win32(k) ==
  /\ taskPort = "win32" /\ taskObject[k] /\ taskState[k] # "terminated"
  /\ taskState' = [taskState EXCEPT ![k] = "terminated"]
  /\ UNCHANGED <<taskPort, taskThread, taskObject, taskIdMap, taskUsedIds>>

\* Task_delete, then the object is freed.
OSALTaskDelete_TiRtos(k) ==
  /\ taskPort = "tirtos" /\ taskObject[k]
  /\ taskState' = [taskState EXCEPT ![k] = "terminated"]
  /\ taskObject' = [taskObject EXCEPT ![k] = FALSE]
  /\ UNCHANGED <<taskPort, taskThread, taskIdMap, taskUsedIds>>

\* For a task that has not returned: its node stays in the list.
OSALTaskDelete_FreeRtos(k) ==
  /\ taskPort = "freertos" /\ Lives(k)
  /\ taskState' = [taskState EXCEPT ![k] = "terminated"]
  /\ taskObject' = [taskObject EXCEPT ![k] = FALSE]
  /\ UNCHANGED <<taskPort, taskThread, taskIdMap, taskUsedIds>>

-----------------------------------------------------------------------------
(* What a running task is told: nobody's number is 0.                      *)

OSALGetCurrentTaskID(k) == taskIdMap[taskThread[k]]
OSALGetCurrentTaskID_Win32(k) == taskIdMap[taskThread[k]]

\* The first node with a stack around the caller's: earlier nodes hide later ones.
OSALGetCurrentTaskID_FreeRtos(k) ==
  IF \E j \in taskIdMap[taskThread[k]] : taskState[j] = "terminated"
  THEN {j \in taskIdMap[taskThread[k]] : taskState[j] = "terminated"}
  ELSE taskIdMap[taskThread[k]]

CurrentTaskID(k) ==
  CASE taskPort = "posix" -> OSALGetCurrentTaskID(k)
    [] taskPort = "win32" -> OSALGetCurrentTaskID_Win32(k)
    [] taskPort = "freertos" -> OSALGetCurrentTaskID_FreeRtos(k)

TaskNext ==
  \E k \in Tasks :
    \/ OSALTaskCreate(k) \/ OSALTaskCreate_Win32(k) \/ OSALTaskCreate_FreeRtos(k)
    \/ osal_Task(k)
    \/ osalTaskFxn(k) \/ osal_ThreadTask(k) \/ OSALTaskCreateTaskCb(k)
    \/ osalTaskFxn_TiRtos(k)
    \/ TaskReturns(k) \/ TaskCbReturns(k)
    \/ OSALTaskDelete(k) \/ OSALTaskDelete_Win32(k) \/ OSALTaskDelete_TiRtos(k)
    \/ OSALTaskDelete_FreeRtos(k)

-----------------------------------------------------------------------------
(* Properties.                                                             *)

\* A task that runs is told its own id, also when its thread has the id, or its
\* stack the memory, of a task that has ended; with FreeRTOS as long as no task
\* on that stack was deleted from outside (osal_posix.cpp 725-737, osal_win32.cpp
\* 615-625, osal_freertos.cpp 370-391).
TaskIdsRight ==
  \A k \in Tasks :
    (taskState[k] = "running" /\ taskPort # "tirtos") =>
      CurrentTaskID(k) = {k}
        \/ \E j \in Tasks : /\ taskPort = "freertos" /\ taskState[j] = "terminated"
                            /\ taskThread[j] = taskThread[k]

\* The object that a starting thread reads is not freed under it, whatever the
\* other side does; on Windows that is because it is never freed.
TaskObjectKept == \A k \in Tasks : Lives(k) => taskObject[k]
=============================================================================
