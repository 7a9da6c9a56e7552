------------------------- MODULE DomainOutput_proofs -------------------------
(* Theorems about DomainOutput, for every set of names, any number of       *)
(* goroutines that run performWrite and every size of the channel.  IInv    *)
(* says which writes each writer can be at (AtModes) and that a name that   *)
(* was accepted is never only in the channel of a plugin that is switched   *)
(* off (OffKeepsNothing).  The last theorem is that the plugin implements   *)
(* LearnedTable: each step is one of the table's, or none.                  *)
EXTENDS DomainOutput, TLAPS

AtModes ==
    /\ at["worker"] \in {"idle", "periodic", "open", "write"}
    /\ at["closer"] \in {"idle", "shutdown", "open", "write"}
    /\ \A r \in Requests : at[r] \in {"idle", "flush", "save", "open", "write", "answered"}

OffKeepsNothing == ~ enabled => known \subseteq stats

IInv == OutputTypeOK /\ AtModes /\ OffKeepsNothing /\ NoLostRecord

-----------------------------------------------------------------------------
(* The channel as a set.                                                    *)

Queued == {recordChan[i] : i \in 1 .. Len(recordChan)}

LEMMA ChannelSends ==
    ASSUME NEW s \in Seq(Domains), NEW d \in Domains
    PROVE  /\ Append(s, d) \in Seq(Domains) /\ Len(Append(s, d)) = Len(s) + 1
           /\ {Append(s, d)[i] : i \in 1 .. Len(Append(s, d))} = {s[i] : i \in 1 .. Len(s)} \cup {d}
<1>1. Append(s, d) \in Seq(Domains) /\ Len(Append(s, d)) = Len(s) + 1
  OBVIOUS
<1>2. Append(s, d)[Len(s) + 1] = d /\ \A i \in 1 .. Len(s) : Append(s, d)[i] = s[i]
  OBVIOUS
<1>3. Len(s) \in Nat
  OBVIOUS
<1>4. 1 .. Len(s) + 1 = (1 .. Len(s)) \cup {Len(s) + 1}
  BY <1>3
<1> QED
  BY <1>1, <1>2, <1>4

LEMMA ChannelReceives ==
    ASSUME NEW s \in Seq(Domains), s # <<>>
    PROVE  /\ Head(s) \in Domains /\ Tail(s) \in Seq(Domains) /\ Len(Tail(s)) = Len(s) - 1
           /\ {s[i] : i \in 1 .. Len(s)} = {Tail(s)[i] : i \in 1 .. Len(Tail(s))} \cup {Head(s)}
<1>1. Len(s) \in Nat \ {0} /\ Head(s) = s[1]
  OBVIOUS
<1>2. Head(s) \in Domains /\ Tail(s) \in Seq(Domains) /\ Len(Tail(s)) = Len(s) - 1
  OBVIOUS
<1>3. \A i \in 1 .. Len(s) - 1 : Tail(s)[i] = s[i + 1]
  BY <1>1
<1>4. \A i \in 1 .. Len(s) : i = 1 \/ (i - 1 \in 1 .. Len(s) - 1 /\ s[i] = Tail(s)[i - 1])
  <2> TAKE i \in 1 .. Len(s)
  <2>1. i # 1 => i - 1 \in 1 .. Len(s) - 1 /\ (i - 1) + 1 = i
    BY <1>1
  <2> QED
    BY <1>3, <2>1
<1>5. \A i \in 1 .. Len(s) - 1 : i + 1 \in 1 .. Len(s) /\ Tail(s)[i] = s[i + 1]
  BY <1>1, <1>3
<1>6. 1 \in 1 .. Len(s)
  BY <1>1
<1> DEFINE all == {s[i] : i \in 1 .. Len(s)}
           rest == {Tail(s)[i] : i \in 1 .. Len(s) - 1}
<1>7. ASSUME NEW d \in all PROVE d \in rest \cup {Head(s)}
  <2>1. PICK i \in 1 .. Len(s) : d = s[i]
    OBVIOUS
  <2> QED
    BY <2>1, <1>1, <1>4
<1>8. ASSUME NEW d \in rest \cup {Head(s)} PROVE d \in all
  <2>1. CASE d \in rest
    <3>1. PICK i \in 1 .. Len(s) - 1 : d = Tail(s)[i]
      BY <2>1
    <3> QED
      BY <3>1, <1>5
  <2>2. CASE d = Head(s)
    BY <2>2, <1>1, <1>6
  <2> QED
    BY <2>1, <2>2
<1>9. all = rest \cup {Head(s)}
  BY <1>7, <1>8
<1> QED
  BY <1>2, <1>9

-----------------------------------------------------------------------------
(* The invariant.                                                           *)

ModesTyped == Modes \cup {"idle", "open", "write", "answered"}

\* Where a writer goes is the only entry of at that changes.
LEMMA GoesTyped ==
    ASSUME OutputTypeOK, AtModes, NEW w \in Writers, NEW p, Goes(w, p),
           w = "worker" => p \in {"idle", "periodic", "open", "write"},
           w = "closer" => p \in {"idle", "shutdown", "open", "write"},
           w \in Requests => p \in {"idle", "flush", "save", "open", "write", "answered"}
    PROVE  at' \in [Writers -> ModesTyped] /\ AtModes'
<1>1. p \in ModesTyped /\ at \in [Writers -> ModesTyped]
  BY DEF Writers, OutputTypeOK, ModesTyped, Modes
<1>2. at' = [at EXCEPT ![w] = p]
  BY DEF Goes
<1>3. \A v \in Writers : at'[v] = IF v = w THEN p ELSE at[v]
  BY <1>1, <1>2
<1>4. "worker" \in Writers /\ "closer" \in Writers /\ Requests \subseteq Writers
  BY DEF Writers
<1>5. AtModes'
  BY <1>3, <1>4 DEF AtModes
<1> QED
  BY <1>1, <1>2, <1>5

LEMMA InitInv == OutputInit => IInv
<1> SUFFICES ASSUME OutputInit PROVE IInv
  OBVIOUS
<1>1. OutputTypeOK
  <2>1. recordChan \in Seq(Domains) /\ Len(recordChan) = 0
    BY DEF OutputInit
  <2>2. BufferLimit \in Nat /\ MaxEntries \in Nat
    BY OutputBounds
  <2>3. /\ counter \in 0 .. MaxEntries /\ records \in Nat /\ requests \in Nat /\ crashes \in Nat
        /\ Len(recordChan) <= BufferLimit
    BY <2>1, <2>2 DEF OutputInit
  <2>4. at \in [Writers -> Modes \cup {"idle", "open", "write", "answered"}]
    BY DEF OutputInit
  <2>5. snap \in [Writers -> SUBSET Domains]
    BY DEF OutputInit
  <2>6. /\ stats \subseteq Domains /\ known \subseteq Domains /\ stat \subseteq Domains
        /\ fillers \subseteq Writers /\ signal \in BOOLEAN /\ stopChan \in BOOLEAN
        /\ enabled \in BOOLEAN /\ exited \in BOOLEAN
        /\ worker \in {"select", "drain", "stopped"} /\ item \in Domains \cup {NoDomain, "counting"}
    BY DEF OutputInit
  <2> QED
    BY <2>1, <2>3, <2>4, <2>5, <2>6 DEF OutputTypeOK
<1>2. AtModes
  BY DEF OutputInit, AtModes, Writers
<1> QED
  BY <1>1, <1>2 DEF OutputInit, IInv, OffKeepsNothing, NoLostRecord

\* A step that touches neither the names nor the switch.
Names == <<stats, recordChan, item, enabled, known>>

LEMMA NamesKept ==
    ASSUME IInv, UNCHANGED Names
    PROVE  OffKeepsNothing' /\ NoLostRecord'
BY DEF IInv, Names, OffKeepsNothing, NoLostRecord, Held

\* A writer moves on: the names and the counters stay.
LEMMA WriterMoves ==
    ASSUME IInv, at' \in [Writers -> ModesTyped] /\ AtModes', requests' \in Nat,
           UNCHANGED <<memory, enabled, snap, disk, exited, known, records, crashes>>
    PROVE  IInv'
<1>1. OutputTypeOK'
  BY DEF IInv, OutputTypeOK, memory, disk, ModesTyped
<1>2. OffKeepsNothing' /\ NoLostRecord'
  BY NamesKept DEF memory, Names
<1> QED
  BY <1>1, <1>2 DEF IInv

LEMMA RecordKeeps ==
    ASSUME IInv, NEW d \in Domains, ClientRecord(d) PROVE IInv'
<1>1. CASE UNCHANGED <<recordChan, known>>
  <2>1. OutputTypeOK' /\ AtModes'
    BY <1>1 DEF ClientRecord, IInv, OutputTypeOK, AtModes, writing, disk
  <2>2. OffKeepsNothing' /\ NoLostRecord'
    BY <1>1, NamesKept DEF ClientRecord, Names
  <2> QED
    BY <2>1, <2>2 DEF IInv
<1>2. CASE /\ enabled /\ Len(recordChan) # BufferLimit
           /\ recordChan' = Append(recordChan, d) /\ known' \in {known, known \cup {d}}
  <2>1. /\ recordChan' \in Seq(Domains) /\ Len(recordChan') = Len(recordChan) + 1
        /\ Queued' = Queued \cup {d}
    BY <1>2, ChannelSends DEF IInv, OutputTypeOK, Queued
  <2>2. Len(recordChan) \in Nat /\ BufferLimit \in Nat /\ Len(recordChan) <= BufferLimit
    BY OutputBounds DEF IInv, OutputTypeOK
  <2>3. Len(recordChan') <= BufferLimit
    BY <1>2, <2>1, <2>2
  <2>4. known' \subseteq Domains /\ records' \in Nat
    BY <1>2 DEF IInv, OutputTypeOK, ClientRecord
  <2>5. OutputTypeOK' /\ AtModes'
    BY <2>1, <2>3, <2>4 DEF ClientRecord, IInv, OutputTypeOK, AtModes, writing, disk
  <2>6. OffKeepsNothing'
    BY <1>2 DEF ClientRecord, OffKeepsNothing
  <2>7. NoLostRecord'
    BY <1>2, <2>1 DEF ClientRecord, IInv, NoLostRecord, Held, Queued
  <2> QED
    BY <2>5, <2>6, <2>7 DEF IInv
<1> QED
  BY <1>1, <1>2 DEF ClientRecord, Accept

LEMMA TakeKeeps ==
    ASSUME IInv, TakeRecord PROVE IInv'
<1>1. /\ Head(recordChan) \in Domains /\ recordChan' \in Seq(Domains)
      /\ Len(recordChan') = Len(recordChan) - 1
      /\ Queued = Queued' \cup {Head(recordChan)}
  BY ChannelReceives DEF IInv, OutputTypeOK, TakeRecord, Queued
<1>2. Len(recordChan) \in Nat /\ BufferLimit \in Nat /\ Len(recordChan) <= BufferLimit
  BY OutputBounds DEF IInv, OutputTypeOK
<1>3. Len(recordChan') <= BufferLimit
  BY <1>1, <1>2
<1>4. item' \in Domains \cup {NoDomain, "counting"}
  BY <1>1 DEF TakeRecord
<1>5. OutputTypeOK' /\ AtModes'
  BY <1>1, <1>3, <1>4 DEF TakeRecord, IInv, OutputTypeOK, AtModes, writing, disk, bounds
<1>6. OffKeepsNothing'
  BY DEF TakeRecord, IInv, OffKeepsNothing
<1>7. NoLostRecord'
  <2>1. CASE enabled
    <3>1. item' = Head(recordChan) /\ item = NoDomain /\ known \subseteq Domains /\ NoDomain \notin Domains
      BY <2>1, NamesTyped DEF TakeRecord, IInv, OutputTypeOK
    <3> QED
      BY <3>1, <1>1 DEF TakeRecord, IInv, NoLostRecord, Held, Queued
  <2>2. CASE ~ enabled
    BY <2>2 DEF TakeRecord, IInv, OffKeepsNothing, NoLostRecord
  <2> QED
    BY <2>1, <2>2
<1> QED
  BY <1>5, <1>6, <1>7 DEF IInv

LEMMA AddKeeps ==
    ASSUME IInv, AddRecord PROVE IInv'
<1>1. OutputTypeOK' /\ AtModes'
  BY DEF AddRecord, IInv, OutputTypeOK, AtModes, writing, disk, bounds
<1>2. OffKeepsNothing' /\ NoLostRecord'
  BY DEF AddRecord, IInv, OffKeepsNothing, NoLostRecord, Held
<1> QED
  BY <1>1, <1>2 DEF IInv

LEMMA CountKeeps ==
    ASSUME IInv, CountRecord PROVE IInv'
<1>1. counter' \in 0 .. MaxEntries
  <2>1. counter \in 0 .. MaxEntries /\ MaxEntries \in Nat
    BY OutputBounds DEF IInv, OutputTypeOK
  <2> QED
    BY <2>1 DEF CountRecord
<1>2. signal' \in BOOLEAN
  BY DEF CountRecord, IInv, OutputTypeOK
<1>3. OutputTypeOK' /\ AtModes'
  BY <1>1, <1>2 DEF CountRecord, IInv, OutputTypeOK, AtModes, writing, disk, bounds
<1>4. OffKeepsNothing' /\ NoLostRecord'
  <2>1. known \subseteq Domains /\ item \notin Domains
    BY NamesTyped DEF CountRecord, IInv, OutputTypeOK
  <2> QED
    BY <2>1 DEF CountRecord, IInv, OffKeepsNothing, NoLostRecord, Held
<1> QED
  BY <1>3, <1>4 DEF IInv

\* Tick and TakeSignal.
LEMMA WorkerWritesKeeps ==
    ASSUME IInv, Tick \/ TakeSignal PROVE IInv'
<1>1. at' \in [Writers -> ModesTyped] /\ AtModes'
  <2>1. CASE enabled
    <3>1. Goes("worker", "periodic")
      BY <2>1 DEF Tick, TakeSignal, WorkerWrites, Goes
    <3>2. "worker" \in Writers /\ "worker" \notin Requests
      BY RequestsTyped DEF Writers
    <3> QED
      BY <3>1, <3>2, GoesTyped DEF IInv
  <2>2. CASE ~ enabled
    BY <2>2 DEF Tick, TakeSignal, WorkerWrites, IInv, OutputTypeOK, AtModes, ModesTyped
  <2> QED
    BY <2>1, <2>2
<1>2. OutputTypeOK'
  BY <1>1 DEF Tick, TakeSignal, IInv, OutputTypeOK, ModesTyped, memory, disk, bounds
<1>3. OffKeepsNothing' /\ NoLostRecord'
  BY NamesKept DEF Tick, TakeSignal, Names, memory
<1> QED
  BY <1>1, <1>2, <1>3 DEF IInv

\* The steps of the worker and of Close that only say where they are.
LEMMA StopKeeps ==
    ASSUME IInv, SeeStop \/ DrainEnds \/ CloseBegins PROVE IInv'
<1>1. OutputTypeOK' /\ AtModes'
  BY DEF SeeStop, DrainEnds, CloseBegins, IInv, OutputTypeOK, AtModes, writing, disk, bounds
<1>2. OffKeepsNothing' /\ NoLostRecord'
  BY NamesKept DEF SeeStop, DrainEnds, CloseBegins, Names
<1> QED
  BY <1>1, <1>2 DEF IInv

LEMMA SnapshotKeeps ==
    ASSUME IInv, NEW w \in Writers, Snapshot(w) PROVE IInv'
<1>1. at' \in [Writers -> ModesTyped] /\ AtModes'
  <2>1. Goes(w, "idle") \/ Goes(w, "open")
    BY DEF Snapshot
  <2> QED
    BY <2>1, GoesTyped DEF IInv
<1>2. stats' \in SUBSET Domains /\ known' \in SUBSET Domains /\ snap' \in [Writers -> SUBSET Domains]
  BY DEF Snapshot, IInv, OutputTypeOK
<1>3. counter' \in 0 .. MaxEntries
  BY OutputBounds DEF Snapshot, IInv, OutputTypeOK
<1>4. OutputTypeOK'
  BY <1>1, <1>2, <1>3 DEF Snapshot, IInv, OutputTypeOK, ModesTyped, disk, bounds
<1>5. OffKeepsNothing' /\ NoLostRecord'
  BY DEF Snapshot, IInv, OffKeepsNothing, NoLostRecord, Held
<1> QED
  BY <1>1, <1>4, <1>5 DEF IInv

LEMMA OpenKeeps ==
    ASSUME IInv, NEW w \in Writers, OpenStat(w) PROVE IInv'
<1>1. at' \in [Writers -> ModesTyped] /\ AtModes'
  BY GoesTyped DEF IInv, OpenStat
<1>2. OutputTypeOK'
  BY <1>1 DEF OpenStat, IInv, OutputTypeOK, ModesTyped, memory, bounds
<1>3. OffKeepsNothing' /\ NoLostRecord'
  BY NamesKept DEF OpenStat, Names, memory
<1> QED
  BY <1>1, <1>2, <1>3 DEF IInv

LEMMA WrittenTyped ==
    ASSUME IInv, NEW w \in Writers, Written(w)
    PROVE  at' \in [Writers -> ModesTyped] /\ AtModes'
<1>1. w \in Requests => w # "worker" /\ w # "closer"
  BY RequestsTyped
<1> QED
  BY <1>1, GoesTyped DEF IInv, Written

LEMMA OpenFailsKeeps ==
    ASSUME IInv, NEW w \in Writers, OpenFails(w) PROVE IInv'
<1>1. at' \in [Writers -> ModesTyped] /\ AtModes'
  BY WrittenTyped DEF OpenFails
<1>2. snap' \in [Writers -> SUBSET Domains] /\ exited' \in BOOLEAN /\ crashes' \in Nat
  BY DEF OpenFails, Written, IInv, OutputTypeOK
<1>3. OutputTypeOK'
  BY <1>1, <1>2 DEF OpenFails, IInv, OutputTypeOK, ModesTyped, memory, disk
<1>4. OffKeepsNothing' /\ NoLostRecord'
  BY NamesKept DEF OpenFails, Names, memory
<1> QED
  BY <1>1, <1>3, <1>4 DEF IInv

LEMMA FillKeeps ==
    ASSUME IInv, NEW w \in Writers, FillStat(w) PROVE IInv'
<1>1. stat' \subseteq Domains
  <2>1. stat \subseteq Domains /\ snap[w] \subseteq Domains
    BY DEF IInv, OutputTypeOK
  <2> QED
    BY <2>1 DEF FillStat
<1>2. OutputTypeOK' /\ AtModes'
  BY <1>1 DEF FillStat, IInv, OutputTypeOK, AtModes, memory, writing, bounds
<1>3. OffKeepsNothing' /\ NoLostRecord'
  BY NamesKept DEF FillStat, Names, memory
<1> QED
  BY <1>2, <1>3 DEF IInv

LEMMA WriteKeeps ==
    ASSUME IInv, NEW w \in Writers, WriteStat(w) PROVE IInv'
<1>1. at' \in [Writers -> ModesTyped] /\ AtModes'
  BY WrittenTyped DEF WriteStat
<1>2. stat' \subseteq Domains
  <2>1. stat \subseteq Domains /\ snap[w] \subseteq Domains
    BY DEF IInv, OutputTypeOK
  <2> QED
    BY <2>1 DEF WriteStat
<1>3. snap' \in [Writers -> SUBSET Domains] /\ fillers' \subseteq Writers /\ exited' \in BOOLEAN
  BY DEF WriteStat, Written, IInv, OutputTypeOK
<1>4. OutputTypeOK'
  BY <1>1, <1>2, <1>3 DEF WriteStat, IInv, OutputTypeOK, ModesTyped, memory, bounds
<1>5. OffKeepsNothing' /\ NoLostRecord'
  BY NamesKept DEF WriteStat, Names, memory
<1> QED
  BY <1>1, <1>4, <1>5 DEF IInv

LEMMA ApiKeeps ==
    ASSUME IInv, NEW r \in Requests, NEW m \in {"save", "flush"},
           SwitchOff(r) \/ Answered(r) \/ RequestWrite(r, m)
    PROVE  IInv'
<1>1. r \in Writers /\ r # "worker" /\ r # "closer"
  BY RequestsTyped DEF Writers
<1>2. requests \in Nat
  BY DEF IInv, OutputTypeOK
<1>3. CASE RequestWrite(r, m)
  <2>1. at' \in [Writers -> ModesTyped] /\ AtModes' /\ requests' \in Nat
    BY <1>1, <1>2, <1>3, GoesTyped DEF IInv, RequestWrite, Serve
  <2> QED
    BY <1>3, <2>1, WriterMoves DEF RequestWrite
<1>4. CASE Answered(r)
  <2>1. at' \in [Writers -> ModesTyped] /\ AtModes' /\ requests' \in Nat
    BY <1>1, <1>2, <1>4, GoesTyped DEF IInv, Answered, bounds
  <2> QED
    BY <1>4, <2>1, WriterMoves DEF Answered, bounds
<1>5. CASE SwitchOff(r)
  <2>1. at' \in [Writers -> ModesTyped] /\ AtModes' /\ requests' \in Nat
    BY <1>1, <1>2, <1>5, GoesTyped DEF IInv, SwitchOff, Serve
  <2>2. OutputTypeOK'
    BY <1>5, <2>1 DEF SwitchOff, IInv, OutputTypeOK, ModesTyped, memory, disk
  <2>3. OffKeepsNothing' /\ NoLostRecord'
    BY <1>5 DEF SwitchOff, OffKeepsNothing, NoLostRecord
  <2> QED
    BY <2>1, <2>2, <2>3 DEF IInv
<1> QED
  BY <1>3, <1>4, <1>5

LEMMA SwitchOnKeeps ==
    ASSUME IInv, SwitchOn PROVE IInv'
<1>1. OutputTypeOK' /\ AtModes'
  BY DEF SwitchOn, IInv, OutputTypeOK, AtModes, memory, writing, disk
<1>2. OffKeepsNothing' /\ NoLostRecord'
  BY DEF SwitchOn, IInv, OffKeepsNothing, NoLostRecord, Held, memory
<1> QED
  BY <1>1, <1>2 DEF IInv

LEMMA RestartKeeps ==
    ASSUME IInv, Restart PROVE IInv'
<1>1. at' \in [Writers -> ModesTyped] /\ AtModes'
  BY DEF Restart, AtModes, Writers, ModesTyped
<1>2. recordChan' \in Seq(Domains) /\ Len(recordChan') <= BufferLimit /\ counter' \in 0 .. MaxEntries
  BY OutputBounds DEF Restart
<1>3. snap' \in [Writers -> SUBSET Domains] /\ crashes' \in Nat
  BY DEF Restart, IInv, OutputTypeOK
<1>4. OutputTypeOK'
  BY <1>1, <1>2, <1>3 DEF Restart, IInv, OutputTypeOK, ModesTyped, disk
<1>5. OffKeepsNothing' /\ NoLostRecord'
  BY DEF Restart, OffKeepsNothing, NoLostRecord
<1> QED
  BY <1>1, <1>4, <1>5 DEF IInv

LEMMA StutterKeeps ==
    ASSUME IInv, UNCHANGED outputVars PROVE IInv'
<1>1. OutputTypeOK' /\ AtModes'
  BY DEF outputVars, IInv, OutputTypeOK, AtModes
<1>2. OffKeepsNothing' /\ NoLostRecord'
  BY NamesKept DEF outputVars, Names
<1> QED
  BY <1>1, <1>2 DEF IInv

LEMMA IInvInductive == IInv /\ [OutputNext]_outputVars => IInv'
<1> SUFFICES ASSUME IInv, [OutputNext]_outputVars PROVE IInv'
  OBVIOUS
<1>1. CASE Worker
  BY <1>1, TakeKeeps, AddKeeps, CountKeeps, WorkerWritesKeeps, StopKeeps DEF Worker
<1>2. ASSUME NEW w \in Writers, WriteStep(w) \/ OpenFails(w) \/ FillStat(w) PROVE IInv'
  BY <1>2, SnapshotKeeps, OpenKeeps, WriteKeeps, OpenFailsKeeps, FillKeeps DEF WriteStep
<1>3. ASSUME NEW r \in Requests,
             SwitchOff(r) \/ Answered(r) \/ RequestWrite(r, "save") \/ RequestWrite(r, "flush")
      PROVE  IInv'
  BY <1>3, ApiKeeps
<1>4. CASE CloseWrites
  <2>1. at' \in [Writers -> ModesTyped] /\ AtModes' /\ requests' \in Nat
    BY <1>4, GoesTyped, RequestsTyped DEF IInv, OutputTypeOK, CloseWrites, Writers, bounds
  <2> QED
    BY <1>4, <2>1, WriterMoves DEF CloseWrites, bounds
<1> QED
  BY <1>1, <1>2, <1>3, <1>4, RecordKeeps, StopKeeps, SwitchOnKeeps, RestartKeeps, StutterKeeps
  DEF OutputNext

\* Every variable keeps its type and the channel its size.
THEOREM OutputTypeCorrect == OutputSpec => []OutputTypeOK
<1>1. OutputSpec => []IInv
  BY InitInv, IInvInductive, PTL DEF OutputSpec
<1>2. IInv => OutputTypeOK
  BY DEF IInv
<1> QED
  BY <1>1, <1>2, PTL

\* A name that Exec accepted before Close is in the table, in the channel or in
\* the hands of the worker until a flush.
THEOREM NoLostRecordCorrect == OutputSpec => []NoLostRecord
<1>1. OutputSpec => []IInv
  BY InitInv, IInvInductive, PTL DEF OutputSpec
<1>2. IInv => NoLostRecord
  BY DEF IInv
<1> QED
  BY <1>1, <1>2, PTL

-----------------------------------------------------------------------------
(* The plugin implements LearnedTable.                                      *)

Known == stats \cup (Held \cap Domains)
Asked == [r \in Requests |-> IF at[r] \in {"open", "write"} THEN "save" ELSE at[r]]

LEMMA InitRefines == OutputInit => Learned!TableInit
<1> SUFFICES ASSUME OutputInit PROVE Learned!TableInit
  OBVIOUS
<1>1. stats \cup (Held \cap Domains) = {}
  BY NamesTyped DEF OutputInit, Held
<1>2. [r \in Requests |-> IF at[r] \in {"open", "write"} THEN "save" ELSE at[r]]
        = [r \in Requests |-> "idle"]
  BY DEF OutputInit, Writers
<1> QED
  BY <1>1, <1>2 DEF OutputInit, Learned!TableInit

\* What the table holds and where the requests are, step by step.
LEMMA SameRequests ==
    ASSUME UNCHANGED at PROVE Asked' = Asked
BY DEF Asked

LEMMA RequestMoves ==
    ASSUME IInv, NEW r \in Requests, NEW p, Goes(r, p)
    PROVE  Asked' = [Asked EXCEPT ![r] = IF p \in {"open", "write"} THEN "save" ELSE p]
<1>1. r \in Writers /\ Requests \subseteq Writers
  BY DEF Writers
<1>2. at \in [Writers -> ModesTyped]
  BY DEF IInv, OutputTypeOK, ModesTyped
<1>3. \A q \in Requests : at'[q] = IF q = r THEN p ELSE at[q]
  BY <1>1, <1>2 DEF Goes
<1> QED
  BY <1>3 DEF Asked

\* The worker and Close are no request.
LEMMA OthersMove ==
    ASSUME IInv, NEW w \in {"worker", "closer"}, NEW p, Goes(w, p)
    PROVE  Asked' = Asked
<1>1. w \in Writers /\ Requests \subseteq Writers /\ w \notin Requests
  BY RequestsTyped DEF Writers
<1>2. \A q \in Requests : at'[q] = at[q]
  BY <1>1 DEF Goes, IInv, OutputTypeOK
<1> QED
  BY <1>2 DEF Asked

LEMMA SameTable ==
    ASSUME UNCHANGED <<stats, recordChan, item>> PROVE Known' = Known
BY DEF Known, Held

TableStutter == UNCHANGED <<Known, stat, enabled, Asked>>

LEMMA RecordRefines ==
    ASSUME IInv, NEW d \in Domains, ClientRecord(d)
    PROVE  TableStutter \/ Learned!Learn(d)
<1>1. Asked' = Asked /\ stat' = stat /\ enabled' = enabled
  BY SameRequests DEF ClientRecord, writing, disk
<1>2. CASE UNCHANGED recordChan
  BY <1>1, <1>2, SameTable DEF ClientRecord, TableStutter
<1>3. CASE enabled /\ recordChan' = Append(recordChan, d)
  <2>1. Queued' = Queued \cup {d}
    BY <1>3, ChannelSends DEF IInv, OutputTypeOK, Queued
  <2>2. Known' = Known \cup {d}
    BY <2>1 DEF ClientRecord, Known, Held, Queued
  <2> QED
    BY <1>1, <1>3, <2>2 DEF Learned!Learn, Known, Asked
<1> QED
  BY <1>2, <1>3 DEF ClientRecord, Accept

LEMMA TakeRefines ==
    ASSUME IInv, TakeRecord PROVE TableStutter \/ Learned!Drop
<1>1. Asked' = Asked /\ stat' = stat /\ enabled' = enabled /\ stats' = stats
  BY SameRequests DEF TakeRecord, writing, disk
<1>2. Queued = Queued' \cup {Head(recordChan)} /\ Head(recordChan) \in Domains
  BY ChannelReceives DEF IInv, OutputTypeOK, TakeRecord, Queued
<1>3. NoDomain \notin Domains /\ item = NoDomain
  BY NamesTyped DEF TakeRecord
<1>4. CASE enabled
  <2>1. item' = Head(recordChan)
    BY <1>4 DEF TakeRecord
  <2>2. Known' = Known
    BY <1>1, <1>2, <1>3, <2>1 DEF Known, Held, Queued
  <2> QED
    BY <1>1, <2>2 DEF TableStutter
<1>5. CASE ~ enabled
  <2>1. item' = NoDomain
    BY <1>5 DEF TakeRecord
  <2>2. Known' \in SUBSET Known
    BY <1>1, <1>2, <1>3, <2>1 DEF Known, Held, Queued
  <2> QED
    BY <1>1, <1>5, <2>2 DEF Learned!Drop, Known, Asked
<1> QED
  BY <1>4, <1>5

LEMMA AddRefines ==
    ASSUME IInv, AddRecord \/ CountRecord PROVE TableStutter
<1>1. Asked' = Asked /\ stat' = stat /\ enabled' = enabled
  BY SameRequests DEF AddRecord, CountRecord, writing, disk
<1>2. NoDomain \notin Domains /\ "counting" \notin Domains
  BY NamesTyped
<1>3. Known' = Known
  BY <1>2 DEF AddRecord, CountRecord, Known, Held
<1> QED
  BY <1>1, <1>3 DEF TableStutter

LEMMA StopRefines ==
    ASSUME IInv, SeeStop \/ DrainEnds \/ CloseBegins \/ UNCHANGED outputVars PROVE TableStutter
<1>1. UNCHANGED <<stats, recordChan, item, at, stat, enabled>>
  BY DEF SeeStop, DrainEnds, CloseBegins, outputVars, writing, disk
<1> QED
  BY <1>1, SameTable, SameRequests DEF TableStutter

LEMMA WorkerWritesRefines ==
    ASSUME IInv, Tick \/ TakeSignal \/ CloseWrites PROVE TableStutter
<1>1. UNCHANGED <<stats, recordChan, item, stat, enabled>>
  BY DEF Tick, TakeSignal, CloseWrites, memory, disk
<1>2. UNCHANGED at \/ Goes("worker", "periodic") \/ Goes("closer", "shutdown")
  BY DEF Tick, TakeSignal, CloseWrites, WorkerWrites, Goes
<1>3. Asked' = Asked
  BY <1>2, SameRequests, OthersMove
<1> QED
  BY <1>1, <1>3, SameTable DEF TableStutter

LEMMA SnapshotRefines ==
    ASSUME IInv, NEW w \in Writers, Snapshot(w)
    PROVE  TableStutter \/ (w \in Requests /\ Learned!Flush(w))
<1>1. UNCHANGED <<recordChan, item, stat, enabled>>
  BY DEF Snapshot, disk
<1>2. CASE w \in Requests
  <2>1. at[w] \in {"flush", "save"}
    BY <1>2 DEF Snapshot, IInv, AtModes, Modes
  <2>2. Asked' = [Asked EXCEPT ![w] = "save"]
    BY <1>2, <2>1, RequestMoves DEF Snapshot
  <2>3. Asked[w] = at[w]
    BY <1>2, <2>1 DEF Asked
  <2>4. CASE at[w] = "save"
    <3>1. Asked' = Asked
      BY <2>2, <2>3, <2>4 DEF Asked
    <3> QED
      BY <1>1, <2>4, <3>1, SameTable DEF Snapshot, TableStutter
  <2>5. CASE at[w] = "flush"
    <3>1. Known' \in SUBSET Known
      BY <1>1, <2>5 DEF Snapshot, Known, Held
    <3> QED
      BY <1>1, <1>2, <2>2, <2>3, <2>5, <3>1
      DEF Learned!Flush, Learned!Becomes, Known, Asked
  <2> QED
    BY <2>1, <2>4, <2>5
<1>3. CASE w \notin Requests
  <2>1. w \in {"worker", "closer"} /\ at[w] # "flush"
    BY <1>3 DEF Writers, IInv, AtModes
  <2>2. Goes(w, "idle") \/ Goes(w, "open")
    BY DEF Snapshot
  <2>3. Asked' = Asked
    BY <2>1, <2>2, OthersMove
  <2> QED
    BY <1>1, <2>1, <2>3, SameTable DEF Snapshot, TableStutter
<1> QED
  BY <1>2, <1>3

LEMMA OpenRefines ==
    ASSUME IInv, NEW w \in Writers, OpenStat(w) PROVE Learned!Dump
<1>1. UNCHANGED <<stats, recordChan, item, enabled>> /\ stat' \in SUBSET Domains
  BY DEF OpenStat, memory
<1>2. Asked' = Asked
  <2>1. CASE w \in Requests
    <3>1. Asked' = [Asked EXCEPT ![w] = "save"]
      BY <2>1, RequestMoves DEF OpenStat
    <3>2. Asked[w] = "save"
      BY <2>1 DEF OpenStat, Asked
    <3> QED
      BY <3>1, <3>2 DEF Asked
  <2>2. CASE w \notin Requests
    BY <2>2, OthersMove DEF Writers, OpenStat
  <2> QED
    BY <2>1, <2>2
<1> QED
  BY <1>1, <1>2, SameTable DEF Learned!Dump, Known, Asked

LEMMA FillRefines ==
    ASSUME IInv, NEW w \in Writers, FillStat(w) PROVE Learned!Dump
<1>1. UNCHANGED <<stats, recordChan, item, enabled, at>>
  BY DEF FillStat, memory, writing
<1>2. stat' \in SUBSET Domains
  BY FillKeeps DEF IInv, OutputTypeOK
<1> QED
  BY <1>1, <1>2, SameTable, SameRequests DEF Learned!Dump, Known, Asked

\* The end of a write, of the file or without it.
LEMMA WriteRefines ==
    ASSUME IInv, NEW w \in Writers, WriteStat(w) \/ OpenFails(w)
    PROVE  Learned!Dump \/ (w \in Requests /\ Learned!Answer(w))
<1>1. UNCHANGED <<stats, recordChan, item, enabled>> /\ Written(w) /\ at[w] \in {"open", "write"}
  BY DEF WriteStat, OpenFails, memory
<1>2. stat' \in SUBSET Domains
  BY WriteKeeps, OpenFailsKeeps DEF IInv, OutputTypeOK
<1>3. CASE w \in Requests
  <2>1. Asked' = [Asked EXCEPT ![w] = "answered"]
    BY <1>1, <1>3, RequestMoves DEF Written
  <2>2. Asked[w] = "save"
    BY <1>1, <1>3 DEF Asked
  <2> QED
    BY <1>1, <1>2, <1>3, <2>1, <2>2, SameTable DEF Learned!Answer, Learned!Becomes, Known, Asked
<1>4. CASE w \notin Requests
  <2>1. Asked' = Asked
    BY <1>1, <1>4, OthersMove DEF Writers, Written
  <2> QED
    BY <1>1, <1>2, <2>1, SameTable DEF Learned!Dump, Known, Asked
<1> QED
  BY <1>3, <1>4

LEMMA RequestRefines ==
    ASSUME IInv, NEW r \in Requests, NEW m \in {"save", "flush"}, RequestWrite(r, m)
    PROVE  Learned!Ask(r, m)
<1>1. UNCHANGED <<stats, recordChan, item, stat, enabled>> /\ at[r] = "idle" /\ Goes(r, m)
  BY DEF RequestWrite, Serve, memory, disk
<1>2. Asked' = [Asked EXCEPT ![r] = m] /\ Asked[r] = "idle"
  BY <1>1, RequestMoves DEF Asked
<1> QED
  BY <1>1, <1>2, SameTable DEF Learned!Ask, Learned!Becomes, Known, Asked

LEMMA SwitchOffRefines ==
    ASSUME IInv, NEW r \in Requests, SwitchOff(r) PROVE Learned!TurnOff(r)
<1>1. /\ UNCHANGED <<stats, recordChan, item, stat>> /\ enabled /\ enabled' = FALSE
      /\ at[r] = "idle" /\ Goes(r, "flush")
  BY DEF SwitchOff, Serve, memory, disk
<1>2. Asked' = [Asked EXCEPT ![r] = "flush"] /\ Asked[r] = "idle"
  BY <1>1, RequestMoves DEF Asked
<1> QED
  BY <1>1, <1>2, SameTable DEF Learned!TurnOff, Learned!Becomes, Known, Asked

LEMMA AnsweredRefines ==
    ASSUME IInv, NEW r \in Requests, Answered(r) PROVE Learned!Collect(r)
<1>1. UNCHANGED <<stats, recordChan, item, stat, enabled>> /\ at[r] = "answered" /\ Goes(r, "idle")
  BY DEF Answered, memory, disk
<1>2. Asked' = [Asked EXCEPT ![r] = "idle"] /\ Asked[r] = "answered"
  BY <1>1, RequestMoves DEF Asked
<1> QED
  BY <1>1, <1>2, SameTable DEF Learned!Collect, Learned!Becomes, Known, Asked

LEMMA SwitchOnRefines ==
    ASSUME IInv, SwitchOn PROVE Learned!TurnOn
BY SameTable, SameRequests DEF SwitchOn, memory, writing, disk, Learned!TurnOn, Known, Asked

LEMMA RestartRefines ==
    ASSUME IInv, Restart PROVE Learned!Reload
<1>1. Held' \cap Domains = {}
  BY NamesTyped DEF Restart, Held
<1>2. Asked' = [r \in Requests |-> "idle"]
  BY DEF Restart, Asked, Writers
<1> QED
  BY <1>1, <1>2 DEF Restart, disk, Learned!Reload, Asked

LEMMA StepRefines ==
    IInv /\ [OutputNext]_outputVars => [Learned!TableNext]_(Learned!tableVars)
<1> SUFFICES ASSUME IInv, [OutputNext]_outputVars
             PROVE  TableStutter \/ Learned!TableNext
  BY DEF TableStutter, Learned!tableVars, Known, Asked
<1>1. ASSUME NEW d \in Domains, ClientRecord(d) PROVE TableStutter \/ Learned!TableNext
  BY <1>1, RecordRefines DEF Learned!TableNext
<1>2. CASE Worker
  BY <1>2, TakeRefines, AddRefines, WorkerWritesRefines, StopRefines
  DEF Worker, Learned!TableNext
<1>3. ASSUME NEW w \in Writers, WriteStep(w) \/ OpenFails(w) \/ FillStat(w)
      PROVE  TableStutter \/ Learned!TableNext
  BY <1>3, SnapshotRefines, OpenRefines, FillRefines, WriteRefines DEF WriteStep, Learned!TableNext
<1>4. ASSUME NEW r \in Requests,
             SwitchOff(r) \/ Answered(r) \/ RequestWrite(r, "save") \/ RequestWrite(r, "flush")
      PROVE  Learned!TableNext
  BY <1>4, SwitchOffRefines, AnsweredRefines, RequestRefines
  DEF Learned!TableNext, Learned!Asks
<1>5. CASE SwitchOn \/ CloseBegins \/ CloseWrites \/ Restart
  BY <1>5, SwitchOnRefines, StopRefines, WorkerWritesRefines, RestartRefines
  DEF Learned!TableNext
<1>6. CASE UNCHANGED outputVars
  BY <1>6, StopRefines
<1> QED
  BY <1>1, <1>2, <1>3, <1>4, <1>5, <1>6 DEF OutputNext

\* The worker, its channel and the writers, in any order, do what LearnedTable
\* promises: no name is lost between Exec and the table, and a flush is over
\* before its answer.
THEOREM KeepsItsPromiseCorrect == OutputSpec => KeepsItsPromise
<1>1. OutputSpec => []IInv
  BY InitInv, IInvInductive, PTL DEF OutputSpec
<1> QED
  BY <1>1, InitRefines, StepRefines, PTL DEF OutputSpec, KeepsItsPromise, Learned!TableSpec

=============================================================================
