------------------------------- MODULE Celery -------------------------------
(***************************************************************************)
(* The worker processes that run the background tasks of the other         *)
(* modules.  A worker takes one task at a time.  It is killed when a task  *)
(* reaches CELERY_TASK_TIME_LIMIT (thirty minutes), by a deployment or by  *)
(* the kernel, and its task is then lost: Celery acknowledges a message    *)
(* before it runs the task.                                                *)
(***************************************************************************)
CONSTANTS
    Workers,   \* Celery worker processes
    Nothing    \* what a worker without a task is working on

\* The steps of a task move a worker from one place in the code to the next.
At(pc, w, places) == pc[w] \in places
Moved(pc, w, place) == [pc EXCEPT ![w] = place]
=============================================================================
