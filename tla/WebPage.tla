------------------------------- MODULE WebPage -------------------------------
(***************************************************************************)
(* What every page of the web interface is made of: a component with       *)
(* reactive state, handlers written as async functions, the HTTP calls they *)
(* wait for, and the confirmation dialog they share.                       *)
(*                                                                         *)
(* JavaScript runs one handler at a time up to its next await, so a step of *)
(* a page is the code between two awaits.  An async function that waits is  *)
(* a task: the requests it sent, the replies that are back, and the local   *)
(* variables it goes on with.  The server takes requests one at a time in   *)
(* any order; a request may be refused, or applied with its reply lost.     *)
(*                                                                         *)
(* A page module EXTENDS this one, keeps its reactive state in the record   *)
(* page, and names its own actions.  page.busy is the set of flags (loading,*)
(* saving, ...) that are up; a task's lower is the set of flags that its    *)
(* finally blocks take down.                                                *)
(***************************************************************************)
EXTENDS Integers, FiniteSets

CONSTANTS
    None,       \* nothing: no selection, no text, no reply
    MaxTasks,   \* bound: async functions waiting at one time
    MaxCalls,   \* bound: async functions started in a behaviour
    MaxFaults,  \* bound: requests that fail in a behaviour
    Slots       \* numbers under which the server files new entries

ASSUME BoundsAssumption == MaxTasks \in Nat \ {0} /\ MaxCalls \in Nat /\ MaxFaults \in Nat
ASSUME SlotsAssumption == Slots \subseteq Nat \ {0}

VARIABLES
    page,       \* the reactive state of the page that is open
    server,     \* what the server keeps, by resource
    tasks,      \* the async functions that wait, by number
    dialog,     \* the task whose confirmation is on the screen, or None
    spent       \* async functions started and requests failed so far

webVars == <<page, server, tasks, dialog, spent>>

Ids == 1..MaxTasks

ASSUME NoneAssumption == None \notin Ids

Nothing == [x \in {} |-> None]

Extend(f, x, v) == [y \in DOMAIN f \cup {x} |-> IF y = x THEN v ELSE f[y]]

Without(f, x) == [y \in DOMAIN f \ {x} |-> f[y]]

-----------------------------------------------------------------------------
(* Requests.  A resource is read or replaced; a resource with named parts has *)
(* one of them set or dropped at the moment the server takes the request, or  *)
(* gets a new one under the next free number; a patch replaces some fields   *)
(* and answers with all.  A call starts work that does not show in what the  *)
(* server keeps.                                                             *)

Get(key) == [op |-> "get", key |-> key, at |-> None, val |-> None]
Put(key, val) == [op |-> "put", key |-> key, at |-> None, val |-> val]
Set(key, at, val) == [op |-> "set", key |-> key, at |-> at, val |-> val]
Drop(key, at) == [op |-> "drop", key |-> key, at |-> at, val |-> None]
Add(key, val) == [op |-> "add", key |-> key, at |-> None, val |-> val]
Patch(key, val) == [op |-> "patch", key |-> key, at |-> None, val |-> val]
Call(key, at) == [op |-> "call", key |-> key, at |-> at, val |-> None]
Question == [op |-> "confirm", key |-> None, at |-> None, val |-> None]

One(request) == [r \in {"only"} |-> request]
GetAll(keys) == [k \in keys |-> Get(k)]

Good(val) == [ok |-> TRUE, val |-> val]
Failed == [ok |-> FALSE, val |-> None]

-----------------------------------------------------------------------------
(* Tasks                                                                     *)

HasRoom == spent.calls < MaxCalls /\ Ids \ DOMAIN tasks # {}

NewId == CHOOSE i \in Ids \ DOMAIN tasks : TRUE

Task(fn, ask, mem, lower) ==
    [fn |-> fn, ask |-> ask, got |-> Nothing, mem |-> mem, lower |-> lower]

(* An event handler that reaches its first await.                            *)
Begin(fn, ask, mem, lower) ==
    /\ HasRoom
    /\ tasks' = Extend(tasks, NewId, Task(fn, ask, mem, lower))
    /\ spent' = [spent EXCEPT !.calls = @ + 1]

(* The same task reaches its next await.                                     *)
Await(i, fn, ask, mem, lower) ==
    /\ tasks' = [tasks EXCEPT ![i] = Task(fn, ask, mem, lower)]
    /\ UNCHANGED spent

End(i) ==
    /\ tasks' = Without(tasks, i)
    /\ UNCHANGED spent

(* A handler without an await.                                               *)
OnlyPage == UNCHANGED <<server, tasks, dialog, spent>>

Replied(fn) ==
    {i \in DOMAIN tasks : tasks[i].fn = fn /\ DOMAIN tasks[i].got = DOMAIN tasks[i].ask}

(* Promise.all is rejected by the first of these requests that fails, while   *)
(* others may still be waited for.                                           *)
Rejected(fn, keys) ==
    {i \in DOMAIN tasks : tasks[i].fn = fn /\ \E k \in keys \cap DOMAIN tasks[i].got : ~tasks[i].got[k].ok}

Reply(i) == tasks[i].got["only"]

(* What Promise.allSettled and per-request catch blocks leave of a reply.    *)
Settled(i, k, otherwise) == IF tasks[i].got[k].ok THEN tasks[i].got[k].val ELSE otherwise

AllGood(i) == \A k \in DOMAIN tasks[i].ask : tasks[i].got[k].ok

Raise(p, flags) == [p EXCEPT !.busy = @ \cup flags]
Lower(p, i) == [p EXCEPT !.busy = @ \ tasks[i].lower]

-----------------------------------------------------------------------------
(* The server                                                                *)

(* Requests of the op "special" are served by the module that sends them.    *)
Waiting(i) == DOMAIN tasks[i].ask \ DOMAIN tasks[i].got
Unanswered(i) == {k \in Waiting(i) : tasks[i].ask[k].op \notin {"confirm", "special"}}

Patched(request) ==
    [x \in DOMAIN server[request.key] |->
        IF x \in DOMAIN request.val THEN request.val[x] ELSE server[request.key][x]]

Answer(request) ==
    CASE request.op = "get"   -> server[request.key]
      [] request.op = "put"   -> request.val
      [] request.op = "patch" -> Patched(request)
      [] OTHER                -> None

FreeSlot(parts) == CHOOSE n \in Slots \ DOMAIN parts : \A m \in Slots \ DOMAIN parts : n <= m

Added(parts, val) == IF Slots \ DOMAIN parts = {} THEN parts ELSE Extend(parts, FreeSlot(parts), val)

Applied(request) ==
    CASE request.op \in {"get", "call"} -> server
      [] request.op = "put"  -> [server EXCEPT ![request.key] = request.val]
      [] request.op = "patch" -> [server EXCEPT ![request.key] = Patched(request)]
      [] request.op = "set"  -> [server EXCEPT ![request.key] = Extend(@, request.at, request.val)]
      [] request.op = "drop" -> [server EXCEPT ![request.key] = Without(@, request.at)]
      [] request.op = "add"  -> [server EXCEPT ![request.key] = Added(@, request.val)]

GiveReply(i, k, reply) == tasks' = [tasks EXCEPT ![i].got = Extend(@, k, reply)]

Fault == spent.faults < MaxFaults /\ spent' = [spent EXCEPT !.faults = @ + 1]

Serve(i, k) ==
    /\ GiveReply(i, k, Good(Answer(tasks[i].ask[k])))
    /\ server' = Applied(tasks[i].ask[k])
    /\ UNCHANGED <<page, dialog, spent>>

Refuse(i, k) ==
    /\ Fault
    /\ GiveReply(i, k, Failed)
    /\ UNCHANGED <<page, server, dialog>>

LoseReply(i, k) ==
    /\ tasks[i].ask[k].op # "get"
    /\ Fault
    /\ GiveReply(i, k, Failed)
    /\ server' = Applied(tasks[i].ask[k])
    /\ UNCHANGED <<page, dialog>>

ServerStep == \E i \in DOMAIN tasks : \E k \in Unanswered(i) :
    Serve(i, k) \/ Refuse(i, k) \/ LoseReply(i, k)

-----------------------------------------------------------------------------
(* The confirmation dialog: there is one, and opening it for another caller  *)
(* answers the caller that had it with "no".                                 *)

Superseded(all) ==
    IF dialog = None THEN all ELSE [all EXCEPT ![dialog].got = One(Good(FALSE))]

AskFirst(fn, mem) ==
    /\ HasRoom
    /\ tasks' = Superseded(Extend(tasks, NewId, Task(fn, One(Question), mem, {})))
    /\ dialog' = NewId
    /\ spent' = [spent EXCEPT !.calls = @ + 1]

(* The same for a task that is under way.                                    *)
AskNext(i, fn, mem, lower) ==
    /\ tasks' = Superseded([tasks EXCEPT ![i] = Task(fn, One(Question), mem, lower)])
    /\ dialog' = i
    /\ UNCHANGED spent

AnswerDialog(yes) ==
    /\ dialog # None
    /\ GiveReply(dialog, "only", Good(yes))
    /\ dialog' = None
    /\ UNCHANGED <<page, server, spent>>

DialogStep == \E yes \in BOOLEAN : AnswerDialog(yes)

(* Bound: a visit of a page, from the moment it is opened to the moment it   *)
(* is left, uses one of the page's parts; what runs by itself always runs.   *)
Visiting(part) == page.visit = part

(* Clicks reach the page only while the dialog's mask is not over it, and    *)
(* not before a function whose promise is settled without the server goes on.*)
Answered(i) == \A k \in DOMAIN tasks[i].ask : tasks[i].ask[k].op = "confirm" /\ k \in DOMAIN tasks[i].got
Clickable == page.mounted /\ dialog = None /\ \A i \in DOMAIN tasks : ~Answered(i)

=============================================================================
