-------------------------------- MODULE Drm --------------------------------
(* deadlock_demolition/libdrm.c: locks ("drms") whose users register in a     *)
(* global resource allocation graph before they would wait.  The library has  *)
(* no mutex: one step is one access to drm->locked or to the global pointer,  *)
(* or one call into the graph, whose functions are external and taken to be   *)
(* atomic (adding what is there changes nothing, what was removed has no      *)
(* neighbors).  drm_init makes the graph when it finds none: two threads that *)
(* are the first may both do so, and the later one replaces a graph that is   *)
(* perhaps in use (lost).                                                     *)
EXTENDS Integers, Sequences, FiniteSets

CONSTANTS DrmThread, DRM, Nobody

ASSUME DrmAssumption == DrmThread \intersect DRM = {}

VARIABLES alive,              \* drms that drm_init returned and drm_destroy did not get
          locked,             \* of drm_t; owner is written and never read
          created,            \* resource_allocation_graph is not NULL
          vertices, edges,    \* resource_allocation_graph
          drm_pc, arg,        \* per thread: program point, the drm of its call
          search,             \* per thread: the variables of graph_has_cycle
          held,               \* ghost: per thread, the drms drm_wait gave it
          lost                \* ghost: a graph with vertices was replaced

drms == <<alive, locked>>
rag == <<created, vertices, edges, lost>>
drmVars == <<drms, rag, drm_pc, arg, search, held>>

Neighbors(E, v) == {e[2] : e \in {f \in E : f[1] = v}}
Antineighbors(E, v) == {e[1] : e \in {f \in E : f[2] = v}}

NoSearch == [starts |-> {}, visited |-> {}, path |-> <<>>]

GraphInit == /\ alive = {}
             /\ locked = [d \in DRM |-> 0]
             /\ created = FALSE /\ vertices = {} /\ edges = {} /\ lost = FALSE
             /\ drm_pc = [t \in DrmThread |-> "idle"] /\ arg = [t \in DrmThread |-> Nobody]
             /\ search = [t \in DrmThread |-> NoSearch]
             /\ held = [t \in DrmThread |-> {}]

DrmGoto(t, p) == drm_pc' = [drm_pc EXCEPT ![t] = p]
\* Back to the caller.
Return(t) == DrmGoto(t, "idle") /\ arg' = [arg EXCEPT ![t] = Nobody]
\* Another point of the same call.
Continue(t, p) == DrmGoto(t, p) /\ UNCHANGED arg

\* A call of t for d.  What is not alive is used by nobody but the one thread
\* that makes or destroys it: that is the part of the callers.
Quiet(d) == \A t \in DrmThread : arg[t] # d
EnterCall(t, d, p) == /\ drm_pc[t] = "idle"
                      /\ arg' = [arg EXCEPT ![t] = d]
                      /\ DrmGoto(t, p)
                      /\ UNCHANGED <<rag, search>>
CallDrm(t, d, p) == d \in alive /\ EnterCall(t, d, p) /\ UNCHANGED <<drms, held>>
CallInit(t, d) == d \notin alive /\ Quiet(d) /\ EnterCall(t, d, "init") /\ UNCHANGED <<drms, held>>
CallDestroy(t, d) == /\ d \in alive /\ Quiet(d) /\ EnterCall(t, d, "destroy")
                     /\ alive' = alive \ {d}
                     /\ locked' = [locked EXCEPT ![d] = 0]
                     /\ held' = [u \in DrmThread |-> held[u] \ {d}]
-----------------------------------------------------------------------------
(* drm_init and drm_destroy. *)

CheckGraph(t) == /\ drm_pc[t] = "init"
                 /\ Continue(t, IF created THEN "new_drm" ELSE "create")
                 /\ UNCHANGED <<drms, rag, search, held>>

CreateGraph(t) == /\ drm_pc[t] = "create"
                  /\ created' = TRUE /\ vertices' = {} /\ edges' = {}
                  /\ lost' = (lost \/ vertices # {})
                  /\ Continue(t, "new_drm")
                  /\ UNCHANGED <<drms, search, held>>

NewDrm(t) == /\ drm_pc[t] = "new_drm"
             /\ alive' = alive \union {arg[t]}
             /\ locked' = [locked EXCEPT ![arg[t]] = 0]
             /\ Return(t)
             /\ UNCHANGED <<rag, search, held>>

FindDrm(t) == /\ drm_pc[t] = "destroy"
              /\ IF arg[t] \in vertices THEN Continue(t, "remove") ELSE Return(t)
              /\ UNCHANGED <<drms, rag, search, held>>

RemoveDrm(t) == /\ drm_pc[t] = "remove"
                /\ vertices' = vertices \ {arg[t]}
                /\ edges' = {e \in edges : e[2] # arg[t]}
                /\ Return(t)
                /\ UNCHANGED <<drms, created, lost, search, held>>
-----------------------------------------------------------------------------
(* drm_wait. *)

\* graph_contains_vertex for the drm and then for the thread, each before the
\* vertex is added.
SeeVertex(t, here, v, add, next) ==
    /\ drm_pc[t] = here
    /\ Continue(t, IF v \in vertices THEN next ELSE add)
    /\ UNCHANGED <<drms, rag, search, held>>

AddVertex(t, here, v, next) ==
    /\ drm_pc[t] = here
    /\ vertices' = vertices \union {v}
    /\ Continue(t, next)
    /\ UNCHANGED <<drms, created, edges, lost, search, held>>

AddVertices(t) == \/ SeeVertex(t, "wait", arg[t], "add_drm", "see_thread")
                  \/ AddVertex(t, "add_drm", arg[t], "see_thread")
                  \/ SeeVertex(t, "see_thread", t, "add_thread", "check_edge")
                  \/ AddVertex(t, "add_thread", t, "check_edge")

\* A thread that holds the drm gets 0.
CheckEdge(t) == /\ drm_pc[t] = "check_edge"
                /\ IF <<t, arg[t]>> \in edges THEN Return(t) ELSE Continue(t, "check_locked")
                /\ UNCHANGED <<drms, rag, search, held>>

\* drm->locked is read once before the request and, if there is no cycle, over
\* and over in the waiting loop.
ReadLocked(t) == /\ drm_pc[t] \in {"check_locked", "spin"}
                 /\ Continue(t, IF locked[arg[t]] = 0 THEN "take"
                                ELSE IF drm_pc[t] = "spin" THEN "spin" ELSE "request")
                 /\ UNCHANGED <<drms, rag, search, held>>

Request(t) == /\ drm_pc[t] = "request"
              /\ edges' = edges \union {<<t, arg[t]>>}
              /\ Continue(t, "check_cycle")
              /\ UNCHANGED <<drms, created, vertices, lost, search, held>>

\* Fault: a refused request stays in the graph.
GiveUpKeepsEdge(t) == /\ drm_pc[t] = "give_up"
                      /\ Return(t)
                      /\ UNCHANGED <<drms, rag, search, held>>

\* "Deadlock detected": the request is withdrawn and drm_wait returns 0.
GiveUp(t) == /\ drm_pc[t] = "give_up"
             /\ edges' = edges \ {<<t, arg[t]>>}
             /\ Return(t)
             /\ UNCHANGED <<drms, created, vertices, lost, search, held>>

TakeDrm(t) == /\ drm_pc[t] = "take"
              /\ locked' = [locked EXCEPT ![arg[t]] = 1]
              /\ Continue(t, "hold")
              /\ UNCHANGED <<alive, rag, search, held>>

\* drm_wait returns 1.
Hold(t) == /\ drm_pc[t] = "hold"
           /\ edges' = edges \union {<<t, arg[t]>>}
           /\ held' = [held EXCEPT ![t] = @ \union {arg[t]}]
           /\ Return(t)
           /\ UNCHANGED <<drms, created, vertices, lost, search>>
-----------------------------------------------------------------------------
(* graph_has_cycle and graph_has_cycle_util: a search with one call into the  *)
(* graph per step, while other threads change the graph.  path is the stack   *)
(* of recursive calls, each with the adjacent vertices that its loop has left *)
(* to look at and whether this is the second loop; its vertices are those in  *)
(* rec_stack.                                                                 *)

\* Fault: there is no second loop, as in an ordinary cycle check.
SecondLoopLeftOut(E, v) == {}

\* The vertices that the second loop goes over.
SecondLoop(E, v) == Antineighbors(E, v)

Frame(v, left, second) == [at |-> v, left |-> left, second |-> second]
OnPath(path) == {path[n].at : n \in DOMAIN path}
Top(path) == path[Len(path)]
Below(path) == SubSeq(path, 1, Len(path) - 1)

Searching(t, s) == /\ search' = [search EXCEPT ![t] = s]
                   /\ UNCHANGED <<drms, rag, held>>
Answer(t, p) == Continue(t, p) /\ Searching(t, NoSearch)
SearchOn(t, s) == Continue(t, "search") /\ Searching(t, s)

\* The recursive call for v.
Visited(s, path, v) == [s EXCEPT !.visited = @ \union {v},
                                 !.path = Append(path, Frame(v, Neighbors(edges, v), FALSE))]

StartSearch(t) == /\ drm_pc[t] = "check_cycle"
                  /\ SearchOn(t, [NoSearch EXCEPT !.starts = vertices])

NextStart(t) == LET s == search[t]
                IN  /\ drm_pc[t] = "search" /\ s.path = <<>>
                    /\ \/ s.starts \subseteq s.visited /\ Answer(t, "spin")
                       \/ \E v \in s.starts \ s.visited : SearchOn(t, Visited(s, <<>>, v))

LookAt(t) == LET s == search[t]
                 top == Top(s.path)
                 rest(u) == Append(Below(s.path), [top EXCEPT !.left = @ \ {u}])
             IN  /\ drm_pc[t] = "search" /\ s.path # <<>>
                 /\ \E u \in top.left :
                      \/ u \in OnPath(s.path) /\ Answer(t, "give_up")
                      \/ /\ u \in s.visited \ OnPath(s.path)
                         /\ SearchOn(t, [s EXCEPT !.path = rest(u)])
                      \/ u \notin s.visited /\ SearchOn(t, Visited(s, rest(u), u))

EndLoop(t) == LET s == search[t]
                  top == Top(s.path)
              IN  /\ drm_pc[t] = "search" /\ s.path # <<>> /\ top.left = {}
                  /\ SearchOn(t, [s EXCEPT !.path =
                       IF top.second THEN Below(@)
                       ELSE Append(Below(@), Frame(top.at, SecondLoop(edges, top.at), TRUE))])

CheckCycle(t) == StartSearch(t) \/ NextStart(t) \/ LookAt(t) \/ EndLoop(t)
-----------------------------------------------------------------------------
(* drm_post. *)

PostTest(t, here, passed, next) ==
    /\ drm_pc[t] = here
    /\ IF passed THEN Continue(t, next) ELSE Return(t)
    /\ UNCHANGED <<drms, rag, search, held>>

PostCheck(t) == \/ PostTest(t, "post", arg[t] \in vertices, "post_thread")
                \/ PostTest(t, "post_thread", t \in vertices, "post_edge")
                \/ PostTest(t, "post_edge", <<t, arg[t]>> \in edges, "unhold")

Unhold(t) == /\ drm_pc[t] = "unhold"
             /\ edges' = edges \ {<<t, arg[t]>>}
             /\ held' = [held EXCEPT ![t] = @ \ {arg[t]}]
             /\ Continue(t, "unlock")
             /\ UNCHANGED <<drms, created, vertices, lost, search>>

UnlockDrm(t) == /\ drm_pc[t] = "unlock"
                /\ locked' = [locked EXCEPT ![arg[t]] = 0]
                /\ Return(t)
                /\ UNCHANGED <<alive, rag, search, held>>
-----------------------------------------------------------------------------
DrmStep(t) == \/ CheckGraph(t) \/ CreateGraph(t) \/ NewDrm(t) \/ FindDrm(t) \/ RemoveDrm(t)
              \/ AddVertices(t) \/ CheckEdge(t) \/ ReadLocked(t) \/ Request(t)
              \/ CheckCycle(t) \/ GiveUp(t) \/ TakeDrm(t) \/ Hold(t)
              \/ PostCheck(t) \/ Unhold(t) \/ UnlockDrm(t)

DrmNext == \E t \in DrmThread :
              \/ \E d \in DRM : \/ CallInit(t, d) \/ CallDestroy(t, d)
                                \/ CallDrm(t, d, "wait") \/ CallDrm(t, d, "post")
              \/ DrmStep(t)

\* Runnable threads are scheduled.
DrmSpec == GraphInit /\ [][DrmNext]_drmVars /\ \A t \in DrmThread : WF_drmVars(DrmStep(t))
-----------------------------------------------------------------------------
(* No drm stays locked with nobody left to unlock it: a locked drm has a      *)
(* thread registered for it in the graph, one about to register or one about  *)
(* to unlock it, in spite of the unprotected accesses.                        *)
LockedIsOwned ==
    \A d \in alive : locked[d] = 1 =>
        \E t \in DrmThread : \/ d \in held[t]
                             \/ arg[t] = d /\ drm_pc[t] \in {"hold", "unlock"}

\* The drms that drm_destroy has still to take out of the graph.
Leaving == {arg[t] : t \in {u \in DrmThread : drm_pc[u] \in {"destroy", "remove"}}}

(* Outside of its calls a thread is registered for exactly the drms it was    *)
(* given: a request that was refused leaves no edge behind.                   *)
EdgesAreHoldings ==
    \A t \in DrmThread : drm_pc[t] = "idle" => Neighbors(edges, t) \ Leaving = held[t]

(* The fields of the drms and the graph, which are written without a lock,    *)
(* agree unless the graph was lost (libdrm.c:75-77): only threads and drms    *)
(* in use are in the graph (libdrm.c:140-147), every locked drm has somebody  *)
(* to unlock it, refused requests are gone.                                   *)
GraphAndLocksAgree ==
    ~lost => /\ vertices \subseteq DrmThread \union alive \union Leaving
             /\ edges \subseteq DrmThread \X (alive \union Leaving)
             /\ LockedIsOwned /\ EdgesAreHoldings

(* The library's reason to exist: no call of drm_wait or drm_post hangs, even *)
(* when every thread wants what another one holds, unless the graph was lost: *)
(* a drm_post that finds no edge leaves the drm locked.                       *)
CallsReturn == \A t \in DrmThread : (drm_pc[t] # "idle") ~> (drm_pc[t] = "idle" \/ lost)

\* u is in the way of t: t asks for, or waits for, a drm that u was given.
Blocks(t, u) == /\ drm_pc[t] \in {"check_cycle", "search", "give_up", "spin"}
                /\ t # u /\ arg[t] \in held[u]
Deadlocked(t) == \E u \in DrmThread : Blocks(t, u) /\ \E v \in DrmThread : Blocks(u, v)

(* libdrm.c:125 calls the refusal "Deadlock detected": a thread only gives up *)
(* when the thread that holds the drm is itself held up.                      *)
RefusedOnlyInDeadlock == \A t \in DrmThread : drm_pc[t] = "give_up" => lost \/ Deadlocked(t)
=============================================================================
