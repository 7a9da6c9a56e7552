---------------------------- MODULE LearnedTable ----------------------------
(****************************************************************************)
(* What the plugin that learns names promises to those who use it:  a name  *)
(* stays in the table until a flush, or while learning is switched off; a   *)
(* request is answered after its flush has been done; a new process knows   *)
(* what the file holds.  The file itself may hold anything at any time.     *)
(****************************************************************************)
CONSTANTS Domains, Requests

VARIABLES
    table,   \* names learned, those on their way to the table included
    file,    \* names in the file
    on,      \* learning is switched on
    request  \* where each request to the API is

tableVars == <<table, file, on, request>>

Asks == {"flush", "save"}

TableInit ==
    /\ table = {} /\ file = {} /\ on = TRUE
    /\ request = [r \in Requests |-> "idle"]

Becomes(r, p) == request' = [request EXCEPT ![r] = p]

Learn(d) == on /\ table' = table \cup {d} /\ UNCHANGED <<file, on, request>>

Drop == ~on /\ table' \in SUBSET table /\ UNCHANGED <<file, on, request>>

Dump == file' \in SUBSET Domains /\ UNCHANGED <<table, on, request>>

Ask(r, what) == request[r] = "idle" /\ Becomes(r, what) /\ UNCHANGED <<table, file, on>>

\* Names on their way when the table is emptied get there after it.
Flush(r) ==
    /\ request[r] = "flush" /\ Becomes(r, "save")
    /\ table' \in SUBSET table /\ UNCHANGED <<file, on>>

Answer(r) ==
    /\ request[r] = "save" /\ Becomes(r, "answered")
    /\ file' \in SUBSET Domains /\ UNCHANGED <<table, on>>

Collect(r) == request[r] = "answered" /\ Becomes(r, "idle") /\ UNCHANGED <<table, file, on>>

TurnOff(r) ==
    /\ on /\ on' = FALSE
    /\ request[r] = "idle" /\ Becomes(r, "flush") /\ UNCHANGED <<table, file>>

TurnOn == ~on /\ on' = TRUE /\ UNCHANGED <<table, file, request>>

Reload ==
    /\ table' = file
    /\ request' = [r \in Requests |-> "idle"] /\ UNCHANGED <<file, on>>

TableNext ==
    \/ \E d \in Domains : Learn(d)
    \/ Drop \/ Dump \/ TurnOn \/ Reload
    \/ \E r \in Requests :
        \/ \E what \in Asks : Ask(r, what)
        \/ Flush(r) \/ Answer(r) \/ Collect(r) \/ TurnOff(r)

TableSpec == TableInit /\ [][TableNext]_tableVars
=============================================================================
