---------------------------- MODULE DomainOutput ----------------------------
(****************************************************************************)
(* A plugin that learns domains (plugin/executable/domain_output).  Exec    *)
(* puts the names of a query in a channel and never waits; one worker       *)
(* counts them; performWrite dumps what is known to files.  It is run       *)
(* by the worker, by the API (/save, /flush), by the handler that switches  *)
(* the generation off (coremain/api_domain_generation.go), and by Close.    *)
(* Only the snapshot is taken under d.mu: the files are written without it. *)
(*                                                                          *)
(* Counts and dates are left out: what is known of a domain is that it is   *)
(* known.  The rule files, written after the stat file from the same        *)
(* snapshot and never read back, and the copy that is posted to the         *)
(* domain_set plugin are left out too.                                      *)
(****************************************************************************)
EXTENDS Naturals, Sequences, FiniteSets

CONSTANTS
    Domains,     \* names that are asked
    Requests,    \* goroutines of the HTTP server that run performWrite
    BufferLimit, \* RecordBufferLimit
    MaxEntries,  \* max_entries
    MaxRecords,  \* bound: names recorded by queries of clients
    MaxRequests, \* bound: requests to the API and switches
    MaxCrashes   \* bound: crashes, and files that cannot be opened

ASSUME OutputBounds ==
    /\ BufferLimit \in Nat \ {0} /\ MaxEntries \in Nat \ {0}
    /\ MaxRecords \in Nat /\ MaxRequests \in Nat /\ MaxCrashes \in Nat

ASSUME RequestsTyped == Requests \cap {"worker", "closer"} = {}

NoDomain == "none"

\* What the worker's hands hold beside names.
ASSUME NamesTyped == Domains \cap {NoDomain, "counting"} = {}

Writers == Requests \cup {"worker", "closer"}

VARIABLES
    stats,      \* d.stats
    recordChan, \* d.recordChan
    counter,    \* d.entryCounter
    signal,     \* d.writeSignalChan holds a signal
    stopChan,   \* d.stopChan is closed
    worker,     \* where startWorker is
    item,       \* the record it holds
    enabled,    \* generationEnabled()
    at,         \* where each performWrite is: its mode until the snapshot
    snap,       \* its statsToDump
    stat,       \* the stat file
    exited,     \* Close has returned
    known,      \* history: names accepted before Close, since the last flush
    fillers,    \* writers whose lines may be in a file that is open
    records, requests, crashes

outputVars == <<stats, recordChan, counter, signal, stopChan, worker, item, enabled, at,
                snap, stat, exited, known, fillers, records, requests, crashes>>

memory == <<stats, recordChan, counter, signal, stopChan, worker, item>>
writing == <<at, snap>>
disk == <<stat, fillers>>
bounds == <<records, requests, crashes>>

Modes == {"periodic", "flush", "save", "shutdown"}

OutputInit ==
    /\ stats = {} /\ known = {} /\ stat = {} /\ fillers = {} /\ enabled = TRUE
    /\ recordChan = <<>> /\ counter = 0 /\ signal = FALSE /\ stopChan = FALSE
    /\ worker = "select" /\ item = NoDomain /\ exited = FALSE
    /\ at = [w \in Writers |-> "idle"]
    /\ snap = [w \in Writers |-> {}]
    /\ records = 0 /\ requests = 0 /\ crashes = 0

-----------------------------------------------------------------------------
(* Exec.                                                                    *)

\* Mutant: the name is counted as accepted and never sent.
AcceptLost(d) ==
    IF ~enabled \/ Len(recordChan) = BufferLimit
    THEN UNCHANGED <<recordChan, known>>
    ELSE /\ UNCHANGED recordChan
         /\ known' = IF stopChan THEN known ELSE known \cup {d}

\* Mutant: the channel takes any number of names.
AcceptAll(d) ==
    IF ~enabled
    THEN UNCHANGED <<recordChan, known>>
    ELSE /\ recordChan' = Append(recordChan, d)
         /\ known' = IF stopChan THEN known ELSE known \cup {d}

\* The send is dropped when the channel is full.
Accept(d) ==
    IF ~enabled \/ Len(recordChan) = BufferLimit
    THEN UNCHANGED <<recordChan, known>>
    ELSE /\ recordChan' = Append(recordChan, d)
         /\ known' = IF stopChan THEN known ELSE known \cup {d}

ClientRecord(d) ==
    /\ records < MaxRecords
    /\ records' = records + 1
    /\ Accept(d)
    /\ UNCHANGED <<stats, counter, signal, stopChan, worker, item, enabled, writing, disk,
                   exited, requests, crashes>>

-----------------------------------------------------------------------------
(* startWorker and processRecord.                                           *)

Receiving == \/ worker = "select" /\ at["worker"] = "idle"
             \/ worker = "drain"

\* A record is received and dropped when the generation is switched off.
TakeRecord ==
    /\ Receiving /\ item = NoDomain /\ recordChan # <<>>
    /\ recordChan' = Tail(recordChan)
    /\ item' = IF enabled THEN Head(recordChan) ELSE NoDomain
    /\ UNCHANGED <<stats, counter, signal, stopChan, worker, enabled, writing, disk, exited,
                   known, bounds>>

\* The critical section of processRecord.
AddRecord ==
    /\ Receiving /\ item \in Domains
    /\ stats' = stats \cup {item}
    /\ item' = "counting"
    /\ UNCHANGED <<recordChan, counter, signal, stopChan, worker, enabled, writing, disk,
                   exited, known, bounds>>

\* The counter after it; from max_entries on each record asks for a write.
CountRecord ==
    /\ Receiving /\ item = "counting"
    /\ counter' = IF counter + 1 < MaxEntries THEN counter + 1 ELSE counter
    /\ signal' = (signal \/ counter + 1 >= MaxEntries)
    /\ item' = NoDomain
    /\ UNCHANGED <<stats, recordChan, stopChan, worker, enabled, writing, disk, exited, known,
                   bounds>>

WorkerIdle == worker = "select" /\ at["worker"] = "idle" /\ item = NoDomain

\* performWrite(WriteModePeriodic) returns at once when switched off.
WorkerWrites ==
    IF enabled THEN at' = [at EXCEPT !["worker"] = "periodic"] ELSE UNCHANGED at

Tick ==
    /\ WorkerIdle /\ WorkerWrites
    /\ UNCHANGED <<memory, enabled, snap, disk, exited, known, bounds>>

TakeSignal ==
    /\ WorkerIdle /\ signal /\ signal' = FALSE
    /\ WorkerWrites
    /\ UNCHANGED <<stats, recordChan, counter, stopChan, worker, item, enabled, snap, disk,
                   exited, known, bounds>>

SeeStop ==
    /\ WorkerIdle /\ stopChan
    /\ worker' = "drain"
    /\ UNCHANGED <<stats, recordChan, counter, signal, stopChan, item, enabled, writing, disk,
                   exited, known, bounds>>

\* Mutant: the end of the drain is the end of its loop only.
DrainBreaks ==
    /\ worker = "drain" /\ item = NoDomain /\ recordChan = <<>>
    /\ worker' = "select"
    /\ UNCHANGED <<stats, recordChan, counter, signal, stopChan, item, enabled, writing, disk,
                   exited, known, bounds>>

\* The channel is empty.
DrainEnds ==
    /\ worker = "drain" /\ item = NoDomain /\ recordChan = <<>>
    /\ worker' = "stopped"
    /\ UNCHANGED <<stats, recordChan, counter, signal, stopChan, item, enabled, writing, disk,
                   exited, known, bounds>>

-----------------------------------------------------------------------------
(* performWrite by writer w: the snapshot, then the file, which is opened   *)
(* with O_TRUNC and then filled line by line.                               *)

Goes(w, p) == at' = [at EXCEPT ![w] = p]

\* Mutant: the periodic dump waits for max_entries.
SnapshotWhenFull(w) ==
    /\ at[w] \in Modes
    /\ snap' = [snap EXCEPT ![w] = IF at[w] = "flush" THEN {} ELSE stats]
    /\ stats' = IF at[w] = "flush" THEN {} ELSE stats
    /\ known' = IF at[w] = "flush" THEN {} ELSE known
    /\ IF at[w] = "periodic" /\ ~signal
       THEN Goes(w, "idle") /\ UNCHANGED counter
       ELSE Goes(w, "open") /\ counter' = 0
    /\ UNCHANGED <<recordChan, signal, stopChan, worker, item, enabled, disk, exited, bounds>>

Snapshot(w) ==
    /\ at[w] \in Modes
    /\ snap' = [snap EXCEPT ![w] = IF at[w] = "flush" THEN {} ELSE stats]
    /\ stats' = IF at[w] = "flush" THEN {} ELSE stats
    /\ known' = IF at[w] = "flush" THEN {} ELSE known
    /\ IF at[w] = "periodic" /\ stats = {}
       THEN Goes(w, "idle") /\ UNCHANGED counter
       ELSE Goes(w, "open") /\ counter' = 0
    /\ UNCHANGED <<recordChan, signal, stopChan, worker, item, enabled, disk, exited,
                   bounds>>

OpenStat(w) ==
    /\ at[w] = "open" /\ Goes(w, "write")
    /\ stat' = {}
    /\ fillers' = {w} \cup {v \in Writers : at[v] = "write"}
    /\ UNCHANGED <<memory, enabled, snap, exited, known, bounds>>

\* The end of a write.
Written(w) ==
    /\ Goes(w, IF w \in Requests THEN "answered" ELSE "idle")
    /\ snap' = [snap EXCEPT ![w] = {}]
    /\ exited' = (exited \/ w = "closer")

\* The file cannot be opened: nothing is written, and nobody is told.
OpenFails(w) ==
    /\ at[w] = "open" /\ crashes < MaxCrashes
    /\ crashes' = crashes + 1
    /\ Written(w)
    /\ UNCHANGED <<memory, enabled, disk, known, records, requests>>

\* Some of the lines.  Those of writers that have the file open at once
\* overwrite each other.
FillStat(w) ==
    /\ at[w] = "write"
    /\ \E lines \in SUBSET (stat \cup snap[w]) :
        (fillers = {w} => stat \subseteq lines) /\ stat' = lines
    /\ UNCHANGED <<memory, enabled, writing, exited, known, fillers, bounds>>

\* The last of them.
WriteStat(w) ==
    /\ at[w] = "write" /\ Written(w)
    /\ IF fillers = {w} THEN stat' = snap[w]
                        ELSE \E lines \in SUBSET (stat \cup snap[w]) : stat' = lines
    /\ fillers' = IF \E v \in Writers \ {w} : at[v] = "write" THEN fillers ELSE {}
    /\ UNCHANGED <<memory, enabled, known, bounds>>

WriteStep(w) == Snapshot(w) \/ OpenStat(w) \/ WriteStat(w)

-----------------------------------------------------------------------------
(* The HTTP handlers.                                                       *)

\* A free goroutine of the server takes the request.
Serve(r, m) ==
    at[r] = "idle" /\ Goes(r, m)

RequestWrite(r, m) ==
    /\ requests < MaxRequests /\ requests' = requests + 1
    /\ Serve(r, m)
    /\ UNCHANGED <<memory, enabled, snap, disk, exited, known, records, crashes>>

\* handleSetDomainGenerationSettings: the setting, then FlushGeneratedData.
SwitchOff(r) ==
    /\ requests < MaxRequests /\ requests' = requests + 1
    /\ enabled /\ enabled' = FALSE
    /\ known' = {}
    /\ Serve(r, "flush")
    /\ UNCHANGED <<memory, snap, disk, exited, records, crashes>>

SwitchOn ==
    /\ requests < MaxRequests /\ requests' = requests + 1
    /\ ~enabled /\ enabled' = TRUE
    /\ UNCHANGED <<memory, writing, disk, exited, known, records, crashes>>

\* The response of a request nobody waits for any more.
Answered(r) ==
    /\ at[r] = "answered" /\ Goes(r, "idle")
    /\ UNCHANGED <<memory, enabled, snap, disk, exited, known, bounds>>

-----------------------------------------------------------------------------
(* Close and the end of the process.                                        *)

CloseBegins ==
    /\ ~stopChan /\ stopChan' = TRUE
    /\ UNCHANGED <<stats, recordChan, counter, signal, worker, item, enabled, writing, disk,
                   exited, known, bounds>>

\* Close goes on once the worker has stopped.
CloseWrites ==
    /\ worker = "stopped" /\ at["closer"] = "idle" /\ ~exited
    /\ Goes("closer", "shutdown")
    /\ UNCHANGED <<memory, enabled, snap, disk, exited, known, bounds>>

\* Mutant: the new process does not read the file.
RestartEmpty ==
    /\ exited \/ crashes < MaxCrashes
    /\ crashes' = IF exited THEN crashes ELSE crashes + 1
    /\ stats' = {} /\ known' = stat
    /\ recordChan' = <<>> /\ counter' = 0 /\ signal' = FALSE /\ stopChan' = FALSE
    /\ worker' = "select" /\ item' = NoDomain /\ exited' = FALSE
    /\ at' = [w \in Writers |-> "idle"]
    /\ snap' = [w \in Writers |-> {}]
    /\ UNCHANGED <<enabled, disk, records, requests>>

\* The process is killed, or has closed; another one starts: loadFromFile.
Restart ==
    /\ exited \/ crashes < MaxCrashes
    /\ crashes' = IF exited THEN crashes ELSE crashes + 1
    /\ stats' = stat /\ known' = stat
    /\ recordChan' = <<>> /\ counter' = 0 /\ signal' = FALSE /\ stopChan' = FALSE
    /\ worker' = "select" /\ item' = NoDomain /\ exited' = FALSE
    /\ at' = [w \in Writers |-> "idle"]
    /\ snap' = [w \in Writers |-> {}]
    /\ UNCHANGED <<enabled, disk, records, requests>>

-----------------------------------------------------------------------------
Worker == TakeRecord \/ AddRecord \/ CountRecord \/ Tick \/ TakeSignal \/ SeeStop \/ DrainEnds

OutputNext ==
    \/ \E d \in Domains : ClientRecord(d)
    \/ Worker \/ SwitchOn \/ CloseBegins \/ CloseWrites \/ Restart
    \/ \E w \in Writers : WriteStep(w) \/ OpenFails(w) \/ FillStat(w)
    \/ \E r \in Requests : SwitchOff(r) \/ Answered(r) \/ RequestWrite(r, "save")
                                                  \/ RequestWrite(r, "flush")

OutputSpec == OutputInit /\ [][OutputNext]_outputVars

\* Go's select chooses among the channels that are ready, so it ignores none
\* for ever; what has been taken is worked on, and Close goes on.
OutputFairSpec ==
    /\ OutputSpec
    /\ SF_outputVars(Tick) /\ SF_outputVars(TakeRecord) /\ SF_outputVars(SeeStop)
    /\ WF_outputVars(AddRecord \/ CountRecord \/ DrainEnds \/ CloseWrites)
    /\ \A w \in Writers : WF_outputVars(WriteStep(w))

OutputTypeOK ==
    /\ stats \subseteq Domains /\ known \subseteq Domains
    /\ recordChan \in Seq(Domains) /\ Len(recordChan) <= BufferLimit
    /\ counter \in 0 .. MaxEntries /\ signal \in BOOLEAN /\ stopChan \in BOOLEAN
    /\ worker \in {"select", "drain", "stopped"} /\ item \in Domains \cup {NoDomain, "counting"}
    /\ enabled \in BOOLEAN /\ exited \in BOOLEAN
    /\ at \in [Writers -> Modes \cup {"idle", "open", "write", "answered"}]
    /\ snap \in [Writers -> SUBSET Domains]
    /\ stat \subseteq Domains /\ fillers \subseteq Writers
    /\ records \in Nat /\ requests \in Nat /\ crashes \in Nat

Held == {recordChan[i] : i \in 1 .. Len(recordChan)} \cup {item}

\* What users of the plugin see of it.
Learned == INSTANCE LearnedTable WITH
    table <- stats \cup (Held \cap Domains),
    file <- stat,
    on <- enabled,
    request <- [r \in Requests |-> IF at[r] \in {"open", "write"} THEN "save" ELSE at[r]]

\* The worker, its channel and the writers keep the promise of LearnedTable: a
\* name is never lost on its way from Exec to the table, a flush is over before
\* its answer, and nothing of it depends on the order in which they run.
KeepsItsPromise == Learned!TableSpec

\* Every name accepted by Exec before Close and not flushed since is in the
\* table, in the channel or in the hands of the worker.
NoLostRecord == known \subseteq stats \cup Held

\* A name that was accepted reaches the file, is forgotten by a flush, or is left to
\* the last write of Close.
RecordsReachFile == \A d \in Domains : d \in known ~> (d \in stat \/ d \notin known \/ exited)

\* Close returns.
CloseReturns == stopChan ~> (exited \/ ~stopChan)

=============================================================================
