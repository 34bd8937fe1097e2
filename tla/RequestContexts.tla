-------------------------- MODULE RequestContexts --------------------------
(***************************************************************************)
(* Which request a thread of the application is working for, as the Java  *)
(* agent sees it: RequestContext, ThreadState, the entry and exit of a    *)
(* servlet and the hand-off of a task to an executor.                     *)
(*                                                                         *)
(* A thread runs a stack of frames.  "owner" is a servlet frame that      *)
(* closes the context, "nested" one that does not; "wrapped" is a task    *)
(* that carries the context of whoever submitted it, "raw" one that       *)
(* carries none.  Below each is the request the thread returns to, 0 for  *)
(* none.  A context is its number, 0 is none.                             *)
(***************************************************************************)
EXTENDS Naturals, Sequences, SequencesExt

CONSTANTS Thread

VARIABLES
    req,        \* thread -> the request it really works for, 0 when idle
    stack,      \* thread -> its frames, outermost first
    ctx,        \* ThreadState.context
    of,         \* the contexts begun, each with the request it was begun for
    live,       \* the contexts whose table no end() has released
    arrived,    \* requests so far
    tasks,      \* submitted to an executor and not started
    submitted,  \* tasks so far
    strayed     \* history: the contexts an error left behind or another request's task ran under

lifecycle == <<req, stack, ctx, of, live, arrived, tasks, submitted, strayed>>

Servlet == {"owner", "nested"}
Task == {"wrapped", "raw"}
Frame == [kind : Servlet \cup Task, back : Nat]
Idle(t) == stack[t] = << >>
Top(t) == Last(stack[t])
Push(t, kind) == stack' = [stack EXCEPT ![t] = Append(@, [kind |-> kind, back |-> req[t]])]
Pop(t) ==
    /\ stack' = [stack EXCEPT ![t] = Front(@)]
    /\ req' = [req EXCEPT ![t] = Top(t).back]

LifeInit ==
    /\ req = [t \in Thread |-> 0]
    /\ stack = [t \in Thread |-> << >>]
    /\ ctx = [t \in Thread |-> 0]
    /\ of = << >>
    /\ live = {}
    /\ arrived = 0
    /\ tasks = {}
    /\ submitted = 0
    /\ strayed = {}

-----------------------------------------------------------------------------
(* Frames of a servlet.  Only the frame that opened a context closes it.    *)

\* RequestContext.begin
BeginContext(t, r) ==
    /\ ctx[t] = 0
    /\ of' = Append(of, r)
    /\ ctx' = [ctx EXCEPT ![t] = Len(of) + 1]
    /\ live' = live \cup {Len(of) + 1}

\* An Error out of describe() is caught after begin(): the frame is told that it
\* does not own the context, and nobody closes it.
OnRequestEnter(t, r) ==
    \/ ctx[t] # 0 /\ Push(t, "nested") /\ UNCHANGED <<ctx, of, live, strayed>>
    \/ BeginContext(t, r) /\ Push(t, "owner") /\ UNCHANGED strayed
    \/ BeginContext(t, r) /\ Push(t, "nested") /\ strayed' = strayed \cup {Len(of) + 1}

\* A request arrives at an idle thread of the container.
EnterRequest(t) ==
    /\ Idle(t)
    /\ arrived' = arrived + 1
    /\ req' = [req EXCEPT ![t] = arrived + 1]
    /\ OnRequestEnter(t, arrived + 1)
    /\ UNCHANGED <<tasks, submitted>>

\* A servlet calls, includes or forwards to another within the same request.
EnterNested(t) ==
    /\ ~Idle(t)
    /\ OnRequestEnter(t, req[t])
    /\ UNCHANGED <<req, arrived, tasks, submitted>>

\* The frame returns or throws: onRequestExit runs in a finally.
LeaveServlet(t) ==
    /\ ~Idle(t) /\ Top(t).kind \in Servlet
    /\ Pop(t)
    /\ IF Top(t).kind = "owner"
       THEN ctx' = [ctx EXCEPT ![t] = 0] /\ live' = live \ {ctx[t]}
       ELSE UNCHANGED <<ctx, live>>
    /\ UNCHANGED <<of, arrived, tasks, submitted, strayed>>

-----------------------------------------------------------------------------
(* Hand-off.  wrapForHandoff captures the context of the submitting thread. *)

KindOf(c) == IF c = 0 THEN "raw" ELSE "wrapped"

HandOff(t) ==
    /\ ~Idle(t)
    /\ submitted' = submitted + 1
    /\ tasks' = tasks \cup {[id |-> submitted + 1, context |-> ctx[t], req |-> req[t]]}
    /\ UNCHANGED <<req, stack, ctx, of, live, arrived, strayed>>

\* A thread of the pool takes the task, an idle one or, in a ForkJoinPool, one
\* that helps while a task of its own waits.  The wrapper adopts the context;
\* a task that has none runs under whatever context the thread has.
StartTask(t, task) ==
    /\ ~Idle(t) => Head(stack[t]).kind \in Task
    /\ tasks' = tasks \ {task}
    /\ req' = [req EXCEPT ![t] = task.req]
    /\ Push(t, KindOf(task.context))
    /\ IF task.context # 0
       THEN ctx' = [ctx EXCEPT ![t] = task.context] /\ UNCHANGED strayed
       ELSE /\ strayed' = strayed \cup {c \in {ctx[t]} \ {0} : of[c] # task.req}
            /\ UNCHANGED ctx
    /\ UNCHANGED <<of, live, arrived, submitted>>

\* A full executor hands the task back and the submitter runs it (CallerRunsPolicy).
RunInPlace(t) ==
    /\ ~Idle(t)
    /\ submitted' = submitted + 1
    /\ Push(t, KindOf(ctx[t]))
    /\ UNCHANGED <<req, ctx, of, live, arrived, tasks, strayed>>

FinishAttached(t) ==    \* mutant: the wrapper forgets to detach
    /\ ~Idle(t) /\ Top(t).kind \in Task
    /\ Pop(t)
    /\ UNCHANGED <<ctx, of, live, arrived, tasks, submitted, strayed>>
\* Detach, whatever thread it is: nothing of what it carried before comes back.
FinishTask(t) ==
    /\ ~Idle(t) /\ Top(t).kind \in Task
    /\ Pop(t)
    /\ ctx' = IF Top(t).kind = "wrapped" THEN [ctx EXCEPT ![t] = 0] ELSE ctx
    /\ UNCHANGED <<of, live, arrived, tasks, submitted, strayed>>

LifeNext ==
    \E t \in Thread :
        \/ EnterRequest(t)
        \/ EnterNested(t)
        \/ LeaveServlet(t)
        \/ HandOff(t)
        \/ \E task \in tasks : StartTask(t, task)
        \/ RunInPlace(t)
        \/ FinishTask(t)

LifeSpec == LifeInit /\ [][LifeNext]_lifecycle

-----------------------------------------------------------------------------
\* What a thread reports is reported for the request it works for, and a
\* thread back in its pool reports for none: RequestContext.adopt, detach and
\* end never leave one request's context to the next (AgentRuntime
\* onRequestEnter, onRequestExit, wrapForHandoff).  Two kinds of contexts stray:
\* one left behind by an Error of describe(), and one under which a helping
\* worker ran a task that had none.
ContextIsHome ==
    \A t \in Thread : ctx[t] # 0 => of[ctx[t]] = req[t] \/ ctx[t] \in strayed
=============================================================================
