------------------------------ MODULE WebLog_proofs ------------------------------
(* Theorems about the web interface, for any number of functions that wait. *)
(* A step of a page is one of a few moves: a handler without an await, the  *)
(* beginning of an async function, a question, the way to the next await,   *)
(* an end, a reply, a reload.  What holds of flags and of the dialog is      *)
(* shown of the moves (Inv), and what is said of one page of its actions.   *)
EXTENDS WebLog, FiniteSetTheorems, TLAPS

\* Functions that wait for an answer to a question.
Askers ==
    {"removeRow", "deleteSpecialGroup", "clearCache", "clearAllCaches", "askAction", "deleteRule",
     "setCoreMode", "setDnsRoutingMode", "askGeneration", "askSystem", "restartForOverrides",
     "askForget", "askReset", "askOverviewReset"}

\* Functions that have raised no flag where they wait.
Flagless ==
    (Askers \ {"restartForOverrides"})
    \cup {"init", "listRefresh", "logMount", "readAliasFile", "download", "deleteOld", "putRule", "changeRule", "saveAdguard",
          "updateRules", "toggleAudit", "clearAuditLogs", "submitCapacity", "probe", "loadColors", "forget",
          "postReset", "detailLogs"}

\* The flags that a function has raised where it waits, as far as it takes them for
\* granted when it goes on.
Raised(fn, mem, lower) ==
    /\ fn \in Flagless => lower = {}
    /\ fn = "saveList" => lower = {"saving"}
    /\ fn = "postAction" => lower = Actions
    /\ fn = "saveSchedule" => lower = {"schedulerSaving"}
    /\ fn \in {"postRoutingMode", "readRoutingMode"} => lower = {RoutingMode}
    /\ fn = "saveColors" => lower = {Saving}
    /\ fn = "askSystem" => mem \in Asked
    /\ fn = "askAction" => mem \in Actions
    /\ fn = "clearCache" => mem \subseteq AllCaches
    /\ fn \in {"turnOff", "setSwitch"} => mem.tag \in Features

\* The flags that a function raises when the answer is "yes".
Want(fn, mem) ==
    CASE fn = "askSystem"         -> mem.flags
      [] fn = "setCoreMode"       -> {CoreMode}
      [] fn = "setDnsRoutingMode" -> {RoutingMode}
      [] fn = "askGeneration"     -> {"generation"}
      [] fn = "askOverviewReset"  -> {"overviewResetting"}
      [] OTHER                    -> {}

\* The flags that some function that waits takes down.
Firm(p) ==
    {f \in p.busy : ~(p.kind = "overview" /\ f = "detailLoading") /\ ~(p.kind = "appearance" /\ f = Queued)}

Done(i) == i \in DOMAIN tasks /\ DOMAIN tasks[i].got = DOMAIN tasks[i].ask

Sends(fn, ask) == fn \notin Askers /\ \A k \in DOMAIN ask : ask[k].op # "confirm"

-----------------------------------------------------------------------------
(* The moves.                                                               *)

SameFrame == DOMAIN page' = DOMAIN page /\ page'.kind = page.kind

\* The flags in down may fall and those in up may rise.
Flags(down, up) ==
    /\ SameFrame
    /\ Firm(page') \subseteq (Firm(page) \ down) \cup up
    /\ (page.busy \cap ExclusiveFlags) \ down \subseteq page'.busy
    /\ up \cap ExclusiveFlags \subseteq page'.busy

Quiet == Flags({}, {}) /\ UNCHANGED <<tasks, dialog>>

Starts(fn, ask, mem, lower) ==
    /\ Begin(fn, ask, mem, lower)
    /\ Flags({}, lower) /\ UNCHANGED dialog
    /\ Sends(fn, ask) /\ Raised(fn, mem, lower)
    /\ lower \cap ExclusiveFlags \cap page.busy = {}
    /\ Clickable \/ lower \cap ExclusiveFlags \subseteq {"inFlight", Saving}

Asks(fn, mem) ==
    /\ AskFirst(fn, mem)
    /\ UNCHANGED page /\ Clickable
    /\ fn \in Askers \ {"restartForOverrides"} /\ Raised(fn, mem, {})
    /\ Want(fn, mem) \cap ExclusiveFlags \cap page.busy = {}

Continues(i, fn, ask, mem, lower) ==
    /\ Done(i) /\ Await(i, fn, ask, mem, lower)
    /\ Flags(tasks[i].lower \ lower, lower) /\ UNCHANGED dialog
    /\ Sends(fn, ask) /\ Raised(fn, mem, lower)
    /\ lower \cap ExclusiveFlags \subseteq tasks[i].lower \cup Want(tasks[i].fn, tasks[i].mem)
    /\ tasks[i].fn \in Askers /\ ~Reply(i).val => OnlyReads(ask)

AsksAgain(i) ==
    /\ Done(i) /\ tasks[i].fn \notin Askers
    /\ AskNext(i, "restartForOverrides", None, tasks[i].lower)
    /\ UNCHANGED page

\* Who has asked goes on when it is answered; another may also be over as soon as
\* one of its requests has failed.
Over(i) == i \in DOMAIN tasks /\ (Done(i) \/ tasks[i].fn \notin Askers)

Ends(i) == Over(i) /\ End(i) /\ Flags(tasks[i].lower, {}) /\ UNCHANGED dialog

Replies(i, k, reply) ==
    /\ i \in DOMAIN tasks /\ k \in Waiting(i) /\ tasks[i].ask[k].op # "confirm"
    /\ GiveReply(i, k, reply)
    /\ UNCHANGED <<page, dialog>>

Answers(yes) ==
    /\ dialog # None
    /\ GiveReply(dialog, "only", Good(yes))
    /\ dialog' = None /\ UNCHANGED page

Reloads == SameFrame /\ page'.busy = {} /\ tasks' = Nothing /\ dialog' = None

Moves ==
    \/ Quiet
    \/ \E fn, ask, mem, lower : Starts(fn, ask, mem, lower)
    \/ \E fn, mem : Asks(fn, mem)
    \/ \E i, fn, ask, mem, lower : Continues(i, fn, ask, mem, lower)
    \/ \E i : AsksAgain(i)
    \/ \E i : Ends(i)
    \/ \E i, k, reply : Replies(i, k, reply)
    \/ \E yes : Answers(yes)
    \/ Reloads

-----------------------------------------------------------------------------
(* The invariant.                                                           *)

Kinds ==
    {"list", "log", "upstream", "tables", "requery", "rules", "switches", "system", "appearance",
     "overview", "shell"}

Framed == page.kind \in Kinds /\ DOMAIN page = DOMAIN FreshOf(page.kind)

\* Who asks has asked one question, and the last to ask has the dialog.
Questions ==
    /\ DOMAIN tasks \subseteq Ids
    /\ \A i \in DOMAIN tasks :
        /\ DOMAIN tasks[i] = {"fn", "ask", "got", "mem", "lower"}
        /\ DOMAIN tasks[i].got \subseteq DOMAIN tasks[i].ask
        /\ IF tasks[i].fn \in Askers THEN tasks[i].ask = One(Question) ELSE Sends(tasks[i].fn, tasks[i].ask)
    /\ dialog # None => dialog \in DOMAIN tasks
    /\ \A i \in DOMAIN tasks : tasks[i].fn \in Askers /\ DOMAIN tasks[i].got = {} <=> dialog = i
    /\ \A i, j \in DOMAIN tasks : {tasks[i].fn, tasks[j].fn} \subseteq Askers \ {"restartForOverrides"} => i = j

\* The flags that are up, and the flags of the functions that wait.
FlagsFall ==
    /\ Firm(page) \subseteq UNION {tasks[i].lower : i \in DOMAIN tasks}
    /\ OneAtATime
    /\ \A i \in DOMAIN tasks :
        /\ Raised(tasks[i].fn, tasks[i].mem, tasks[i].lower)
        /\ tasks[i].lower \cap ExclusiveFlags \subseteq page.busy
        /\ Want(tasks[i].fn, tasks[i].mem) \cap ExclusiveFlags \cap page.busy = {}

\* Only known caches have a row, and a visit has a part of the page.
Known ==
    /\ page.kind = "tables" => DOMAIN page.rows \subseteq AllCaches
    /\ page.kind = "system" => page.visit \in {AuditPart, OverridesPart, PortPart, UpdatePart}

Inv == Framed /\ Questions /\ FlagsFall /\ Known
-----------------------------------------------------------------------------
(* What a move does to the functions that wait.                             *)

SameTask(t, u) ==
    u.fn = t.fn /\ u.ask = t.ask /\ u.mem = t.mem /\ u.lower = t.lower /\ DOMAIN u = DOMAIN t

SameFields(p) == DOMAIN p = DOMAIN page /\ p.kind = page.kind

LEMMA FreshId ==
    ASSUME HasRoom
    PROVE  NewId \in Ids \ DOMAIN tasks /\ NewId # None
<1>1. NewId \in Ids \ DOMAIN tasks
  BY DEF HasRoom, NewId
<1> QED
  BY <1>1, NoneAssumption

LEMMA TaskFields ==
    ASSUME NEW fn, NEW ask, NEW mem, NEW lower
    PROVE  LET t == Task(fn, ask, mem, lower)
           IN  /\ t.fn = fn /\ t.ask = ask /\ t.mem = mem /\ t.lower = lower /\ DOMAIN t.got = {}
               /\ DOMAIN t = {"fn", "ask", "got", "mem", "lower"}
BY DEF Task, Nothing

LEMMA BeginAdds ==
    ASSUME NEW fn, NEW ask, NEW mem, NEW lower, Begin(fn, ask, mem, lower)
    PROVE  \E n \in Ids \ DOMAIN tasks :
            /\ DOMAIN tasks' = DOMAIN tasks \cup {n}
            /\ tasks'[n] = Task(fn, ask, mem, lower)
            /\ \A j \in DOMAIN tasks : tasks'[j] = tasks[j]
<1>1. NewId \in Ids \ DOMAIN tasks
  BY FreshId DEF Begin
<1>2. tasks' = Extend(tasks, NewId, Task(fn, ask, mem, lower))
  BY DEF Begin
<1> QED
  BY <1>1, <1>2 DEF Extend

\* The dialog is taken from whoever has it.
LEMMA SupersededTasks ==
    ASSUME NEW all, dialog # None => dialog \in DOMAIN all /\ DOMAIN all[dialog] = {"fn", "ask", "got", "mem", "lower"}
    PROVE  /\ DOMAIN Superseded(all) = DOMAIN all
           /\ \A j \in DOMAIN all : j # dialog => Superseded(all)[j] = all[j]
           /\ dialog # None => /\ SameTask(all[dialog], Superseded(all)[dialog])
                               /\ DOMAIN Superseded(all)[dialog].got = {"only"}
BY DEF Superseded, SameTask, One

LEMMA AskFirstAdds ==
    ASSUME Questions, NEW fn, NEW mem, AskFirst(fn, mem), dialog = None
    PROVE  \E n \in Ids \ DOMAIN tasks :
            /\ n # None /\ dialog' = n
            /\ DOMAIN tasks' = DOMAIN tasks \cup {n}
            /\ tasks'[n] = Task(fn, One(Question), mem, {})
            /\ \A j \in DOMAIN tasks : tasks'[j] = tasks[j]
<1>1. NewId \in Ids \ DOMAIN tasks /\ NewId # None
  BY FreshId DEF AskFirst
<1>2. tasks' = Extend(tasks, NewId, Task(fn, One(Question), mem, {})) /\ dialog' = NewId
  BY DEF AskFirst, Superseded
<1> QED
  BY <1>1, <1>2 DEF Extend

LEMMA AwaitGoes ==
    ASSUME NEW i \in DOMAIN tasks, NEW fn, NEW ask, NEW mem, NEW lower, Await(i, fn, ask, mem, lower)
    PROVE  /\ DOMAIN tasks' = DOMAIN tasks
           /\ tasks'[i] = Task(fn, ask, mem, lower)
           /\ \A j \in DOMAIN tasks : j # i => tasks'[j] = tasks[j]
BY DEF Await

LEMMA EndRemoves ==
    ASSUME NEW i, End(i)
    PROVE  /\ DOMAIN tasks' = DOMAIN tasks \ {i}
           /\ \A j \in DOMAIN tasks : j # i => tasks'[j] = tasks[j]
BY DEF End, Without

LEMMA ReplyGiven ==
    ASSUME NEW i \in DOMAIN tasks, NEW k, NEW reply, GiveReply(i, k, reply), Questions
    PROVE  /\ DOMAIN tasks' = DOMAIN tasks
           /\ SameTask(tasks[i], tasks'[i])
           /\ DOMAIN tasks'[i].got = DOMAIN tasks[i].got \cup {k}
           /\ tasks'[i].got[k] = reply
           /\ \A l \in DOMAIN tasks[i].got : l # k => tasks'[i].got[l] = tasks[i].got[l]
           /\ \A j \in DOMAIN tasks : j # i => tasks'[j] = tasks[j]
BY DEF GiveReply, Extend, SameTask, Questions

\* While a page can be clicked nobody has asked.
LEMMA ClickableAlone ==
    ASSUME Questions, Clickable
    PROVE  \A i \in DOMAIN tasks : tasks[i].fn \notin Askers
<1> SUFFICES ASSUME NEW i \in DOMAIN tasks, tasks[i].fn \in Askers
             PROVE  FALSE
  OBVIOUS
<1>1. tasks[i].ask = One(Question) /\ DOMAIN tasks[i].got \subseteq DOMAIN tasks[i].ask /\ DOMAIN tasks[i].got # {}
  BY NoneAssumption DEF Questions, Clickable
<1>2. Answered(i)
  BY <1>1 DEF Answered, One, Question
<1> QED
  BY <1>2 DEF Clickable

-----------------------------------------------------------------------------
(* The moves keep the invariant.                                            *)

\* NoMeansNo, of one step.
NoIsKept == \A i \in DOMAIN tasks \cap DOMAIN tasks' :
    SaidNo(i) => tasks'[i] = tasks[i] \/ OnlyReads(tasks'[i].ask)

LEMMA ExclusiveFirm ==
    ASSUME NEW p
    PROVE  p.busy \cap ExclusiveFlags \subseteq Firm(p)
BY DEF Firm, ExclusiveFlags, Queued, CoreMode, RoutingMode

LEMMA AddedQuestions ==
    ASSUME Questions, NEW n \in Ids \ DOMAIN tasks, NEW fn, NEW ask, NEW mem, NEW lower,
           DOMAIN tasks' = DOMAIN tasks \cup {n},
           tasks'[n] = Task(fn, ask, mem, lower),
           \A j \in DOMAIN tasks : tasks'[j] = tasks[j],
           \/ Sends(fn, ask) /\ dialog' = dialog
           \/ /\ fn \in Askers \ {"restartForOverrides"} /\ ask = One(Question) /\ dialog' = n /\ dialog = None
              /\ \A j \in DOMAIN tasks : tasks[j].fn \notin Askers
    PROVE  Questions'
<1>1. /\ tasks'[n].fn = fn /\ tasks'[n].ask = ask /\ DOMAIN tasks'[n].got = {}
      /\ DOMAIN tasks'[n] = {"fn", "ask", "got", "mem", "lower"}
  BY TaskFields
<1>2. n # None
  BY NoneAssumption
<1>3. CASE Sends(fn, ask) /\ dialog' = dialog
  <2>1. fn \notin Askers
    BY <1>3 DEF Sends
  <2>2. dialog # n
    BY <1>2 DEF Questions
  <2> QED
    BY <1>1, <1>3, <2>1, <2>2 DEF Questions
<1>4. CASE /\ fn \in Askers \ {"restartForOverrides"} /\ ask = One(Question) /\ dialog' = n /\ dialog = None
           /\ \A j \in DOMAIN tasks : tasks[j].fn \notin Askers
  BY <1>1, <1>2, <1>4 DEF Questions
<1> QED
  BY <1>3, <1>4

LEMMA AddedFlags ==
    ASSUME FlagsFall, Questions, NEW n \in Ids \ DOMAIN tasks, NEW fn, NEW ask, NEW mem, NEW lower,
           DOMAIN tasks' = DOMAIN tasks \cup {n},
           tasks'[n] = Task(fn, ask, mem, lower),
           \A j \in DOMAIN tasks : tasks'[j] = tasks[j],
           Flags({}, lower), Raised(fn, mem, lower),
           lower \cap ExclusiveFlags \cap page.busy = {},
           \A j \in DOMAIN tasks :
                Want(tasks[j].fn, tasks[j].mem) \cap ExclusiveFlags \cap page'.busy = {},
           Want(fn, mem) \cap ExclusiveFlags \cap page'.busy = {}
    PROVE  FlagsFall'
<1>1. /\ tasks'[n].fn = fn /\ tasks'[n].mem = mem /\ tasks'[n].lower = lower
  BY TaskFields
<1>2. Firm(page)' \subseteq UNION {tasks'[i].lower : i \in DOMAIN tasks'}
  <2>1. Firm(page)' = Firm(page')
    BY DEF Firm
  <2>2. Firm(page') \subseteq Firm(page) \cup lower
    BY DEF Flags
  <2>3. UNION {tasks[i].lower : i \in DOMAIN tasks} \subseteq UNION {tasks'[i].lower : i \in DOMAIN tasks'}
    OBVIOUS
  <2>4. lower \subseteq UNION {tasks'[i].lower : i \in DOMAIN tasks'}
    BY <1>1
  <2> HIDE DEF Firm
  <2> QED
    BY <2>1, <2>2, <2>3, <2>4 DEF FlagsFall
<1>3. OneAtATime'
  BY <1>1 DEF FlagsFall, OneAtATime
<1>4. ASSUME NEW i \in DOMAIN tasks'
      PROVE  /\ Raised(tasks'[i].fn, tasks'[i].mem, tasks'[i].lower)
             /\ tasks'[i].lower \cap ExclusiveFlags \subseteq page'.busy
             /\ Want(tasks'[i].fn, tasks'[i].mem) \cap ExclusiveFlags \cap page'.busy = {}
  BY <1>1 DEF FlagsFall, Flags
<1> QED
  BY <1>2, <1>3, <1>4 DEF FlagsFall

LEMMA StartsKeep ==
    ASSUME Questions, FlagsFall, NEW fn, NEW ask, NEW mem, NEW lower, Starts(fn, ask, mem, lower)
    PROVE  Questions' /\ FlagsFall' /\ NoIsKept
<1>1. PICK n \in Ids \ DOMAIN tasks :
            /\ DOMAIN tasks' = DOMAIN tasks \cup {n}
            /\ tasks'[n] = Task(fn, ask, mem, lower)
            /\ \A j \in DOMAIN tasks : tasks'[j] = tasks[j]
  BY BeginAdds DEF Starts
<1>2. Sends(fn, ask) /\ dialog' = dialog /\ Flags({}, lower) /\ Raised(fn, mem, lower)
      /\ lower \cap ExclusiveFlags \cap page.busy = {}
  BY DEF Starts
<1>3. Questions'
  BY <1>1, <1>2, AddedQuestions
<1>4. Want(fn, mem) = {}
  BY <1>2 DEF Sends, Askers, Want
<1>5. ASSUME NEW j \in DOMAIN tasks
      PROVE  Want(tasks[j].fn, tasks[j].mem) \cap ExclusiveFlags \cap page'.busy = {}
  <2>1. CASE Clickable
    <3>1. Want(tasks[j].fn, tasks[j].mem) = {}
      BY <2>1, ClickableAlone DEF Want, Askers
    <3> QED
      BY <3>1
  <2>2. CASE lower \cap ExclusiveFlags \subseteq {"inFlight", Saving}
    <3>1. Want(tasks[j].fn, tasks[j].mem) \cap {"inFlight", Saving} = {}
      <4>1. tasks[j].fn = "askSystem" => tasks[j].mem \in Asked
        BY DEF FlagsFall, Raised
      <4> QED
        BY <4>1 DEF Want, Asked, Saving, CoreMode, RoutingMode
    <3>2. page'.busy \cap ExclusiveFlags \subseteq page.busy \cup lower
      <4>1. Firm(page') \subseteq page.busy \cup lower
        BY <1>2 DEF Flags, Firm
      <4> QED
        BY <4>1, ExclusiveFirm
    <3>3. Want(tasks[j].fn, tasks[j].mem) \cap ExclusiveFlags \cap page.busy = {}
      BY DEF FlagsFall
    <3> QED
      BY <2>2, <3>1, <3>2, <3>3
  <2> QED
    BY <2>1, <2>2 DEF Starts
<1>6. FlagsFall'
  BY <1>1, <1>2, <1>4, <1>5, AddedFlags
<1>7. NoIsKept
  BY <1>1 DEF NoIsKept
<1> QED
  BY <1>3, <1>6, <1>7

LEMMA AsksKeep ==
    ASSUME Questions, FlagsFall, NEW fn, NEW mem, Asks(fn, mem)
    PROVE  Questions' /\ FlagsFall' /\ NoIsKept
<1>1. /\ AskFirst(fn, mem) /\ page' = page /\ Clickable /\ dialog = None
      /\ fn \in Askers \ {"restartForOverrides"} /\ Raised(fn, mem, {})
      /\ Want(fn, mem) \cap ExclusiveFlags \cap page.busy = {}
  BY DEF Asks, Clickable
<1>2. PICK n \in Ids \ DOMAIN tasks :
            /\ n # None /\ dialog' = n
            /\ DOMAIN tasks' = DOMAIN tasks \cup {n}
            /\ tasks'[n] = Task(fn, One(Question), mem, {})
            /\ \A j \in DOMAIN tasks : tasks'[j] = tasks[j]
  BY <1>1, AskFirstAdds
<1>3. \A j \in DOMAIN tasks : tasks[j].fn \notin Askers
  BY <1>1, ClickableAlone
<1>4. Questions'
  BY <1>1, <1>2, <1>3, AddedQuestions
<1>5. Flags({}, {})
  BY <1>1 DEF Flags, SameFrame
<1>6. FlagsFall'
  <2>1. \A j \in DOMAIN tasks : Want(tasks[j].fn, tasks[j].mem) \cap ExclusiveFlags \cap page'.busy = {}
    BY <1>1 DEF FlagsFall
  <2> QED
    BY <1>1, <1>2, <1>5, <2>1, AddedFlags
<1>7. NoIsKept
  BY <1>2 DEF NoIsKept
<1> QED
  BY <1>4, <1>6, <1>7

LEMMA DoneIsNotAsking ==
    ASSUME Questions, NEW i, Done(i)
    PROVE  i # dialog
<1>1. CASE tasks[i].fn \in Askers
  BY <1>1 DEF Done, Questions, One
<1>2. CASE tasks[i].fn \notin Askers
  BY <1>2 DEF Done, Questions
<1> QED
  BY <1>1, <1>2

LEMMA OverIsNotAsking ==
    ASSUME Questions, NEW i, Over(i)
    PROVE  i # dialog
<1>1. CASE Done(i)
  BY <1>1, DoneIsNotAsking
<1>2. CASE tasks[i].fn \notin Askers
  BY <1>2 DEF Over, Questions
<1> QED
  BY <1>1, <1>2 DEF Over

\* Who has not asked was not refused.
LEMMA OnlyAskersRefused ==
    ASSUME Questions, NEW i \in DOMAIN tasks, SaidNo(i)
    PROVE  tasks[i].fn \in Askers /\ ~Reply(i).val /\ DOMAIN tasks[i].got # {}
<1>1. PICK k \in DOMAIN tasks[i].got : tasks[i].ask[k].op = "confirm" /\ ~tasks[i].got[k].val
  BY DEF SaidNo
<1>2. tasks[i].fn \in Askers
  BY <1>1 DEF Questions, Sends
<1>3. k = "only"
  BY <1>1, <1>2 DEF Questions, One
<1> QED
  BY <1>1, <1>2, <1>3 DEF Reply

LEMMA ContinuesKeep ==
    ASSUME Questions, FlagsFall, NEW i, NEW fn, NEW ask, NEW mem, NEW lower,
           Continues(i, fn, ask, mem, lower)
    PROVE  Questions' /\ FlagsFall' /\ NoIsKept
<1>1. /\ i \in DOMAIN tasks /\ Await(i, fn, ask, mem, lower) /\ dialog' = dialog /\ dialog # i
      /\ Flags(tasks[i].lower \ lower, lower)
      /\ Sends(fn, ask) /\ Raised(fn, mem, lower)
      /\ lower \cap ExclusiveFlags \subseteq tasks[i].lower \cup Want(tasks[i].fn, tasks[i].mem)
  BY DoneIsNotAsking DEF Continues, Done
<1>2. /\ DOMAIN tasks' = DOMAIN tasks
      /\ tasks'[i] = Task(fn, ask, mem, lower)
      /\ \A j \in DOMAIN tasks : j # i => tasks'[j] = tasks[j]
  BY <1>1, AwaitGoes
<1>3. /\ tasks'[i].fn = fn /\ tasks'[i].ask = ask /\ tasks'[i].mem = mem /\ tasks'[i].lower = lower
      /\ DOMAIN tasks'[i].got = {} /\ DOMAIN tasks'[i] = {"fn", "ask", "got", "mem", "lower"}
  BY <1>2, TaskFields
<1>4. Questions'
  <2>1. fn \notin Askers
    BY <1>1 DEF Sends
  <2> QED
    BY <1>1, <1>2, <1>3, <2>1 DEF Questions
<1>5. Firm(page)' \subseteq UNION {tasks'[j].lower : j \in DOMAIN tasks'}
  <2>1. Firm(page)' = Firm(page')
    BY DEF Firm
  <2> SUFFICES ASSUME NEW f \in Firm(page')
               PROVE  \E j \in DOMAIN tasks' : f \in tasks'[j].lower
    BY <2>1
  <2>2. (f \in Firm(page) /\ f \notin tasks[i].lower \ lower) \/ f \in lower
    BY <1>1 DEF Flags
  <2>3. CASE f \in lower
    BY <1>1, <1>2, <1>3, <2>3
  <2>4. CASE f \in Firm(page) /\ f \notin tasks[i].lower \ lower /\ f \notin lower
    <3>1. PICK j \in DOMAIN tasks : f \in tasks[j].lower
      BY <2>4 DEF FlagsFall
    <3> QED
      BY <1>2, <2>4, <3>1
  <2> QED
    BY <2>2, <2>3, <2>4
<1>6. \A j \in DOMAIN tasks : j # i => tasks[j].lower \cap lower \cap ExclusiveFlags = {}
  BY <1>1 DEF FlagsFall, OneAtATime
<1>7. OneAtATime'
  BY <1>2, <1>3, <1>6 DEF FlagsFall, OneAtATime
<1>8. \A j \in DOMAIN tasks : tasks'[j].lower \cap ExclusiveFlags \subseteq page'.busy
  <2>1. lower \cap ExclusiveFlags \subseteq page'.busy
    BY <1>1 DEF Flags
  <2>2. ASSUME NEW j \in DOMAIN tasks, j # i PROVE tasks[j].lower \cap ExclusiveFlags \subseteq page'.busy
    <3>1. tasks[j].lower \cap tasks[i].lower \cap ExclusiveFlags = {}
      BY <1>1, <2>2 DEF FlagsFall, OneAtATime
    <3>2. tasks[j].lower \cap ExclusiveFlags \subseteq page.busy
      BY DEF FlagsFall
    <3> QED
      BY <1>1, <3>1, <3>2 DEF Flags
  <2> QED
    BY <1>2, <1>3, <2>1, <2>2
<1>9. \A j \in DOMAIN tasks : Want(tasks'[j].fn, tasks'[j].mem) \cap ExclusiveFlags \cap page'.busy = {}
  <2>1. Want(fn, mem) = {}
    BY <1>1 DEF Sends, Askers, Want
  <2>2. ASSUME NEW j \in DOMAIN tasks, j # i
        PROVE  Want(tasks[j].fn, tasks[j].mem) \cap ExclusiveFlags \cap page'.busy = {}
    <3>1. page'.busy \cap ExclusiveFlags \subseteq page.busy \cup lower
      <4>1. Firm(page') \subseteq page.busy \cup lower
        BY <1>1 DEF Flags, Firm
      <4> QED
        BY <4>1, ExclusiveFirm
    <3>2. Want(tasks[j].fn, tasks[j].mem) \cap ExclusiveFlags \cap page.busy = {}
      BY DEF FlagsFall
    <3>3. Want(tasks[j].fn, tasks[j].mem) \cap ExclusiveFlags \cap lower = {}
      <4>1. Want(tasks[j].fn, tasks[j].mem) \cap ExclusiveFlags \cap tasks[i].lower = {}
        BY <1>1, <3>2 DEF FlagsFall
      <4>2. Want(tasks[j].fn, tasks[j].mem) = {} \/ Want(tasks[i].fn, tasks[i].mem) = {}
        <5>1. ~({tasks[i].fn, tasks[j].fn} \subseteq Askers \ {"restartForOverrides"})
          BY <1>1, <2>2 DEF Questions
        <5> QED
          BY <5>1 DEF Want, Askers
      <4> QED
        BY <1>1, <4>1, <4>2
    <3> QED
      BY <3>1, <3>2, <3>3
  <2> QED
    BY <1>2, <1>3, <2>1, <2>2
<1>10. FlagsFall'
  <2>1. \A j \in DOMAIN tasks' : Raised(tasks'[j].fn, tasks'[j].mem, tasks'[j].lower)
    BY <1>1, <1>2, <1>3 DEF FlagsFall
  <2> QED
    BY <1>2, <1>5, <1>7, <1>8, <1>9, <2>1 DEF FlagsFall
<1>11. NoIsKept
  <2>1. SaidNo(i) => OnlyReads(ask)
    BY <1>1, OnlyAskersRefused DEF Continues
  <2> QED
    BY <1>2, <1>3, <2>1 DEF NoIsKept
<1> QED
  BY <1>4, <1>10, <1>11

LEMMA EndsKeep ==
    ASSUME Questions, FlagsFall, NEW i, Ends(i)
    PROVE  Questions' /\ FlagsFall' /\ NoIsKept
<1>1. /\ i \in DOMAIN tasks /\ dialog' = dialog /\ dialog # i
      /\ Flags(tasks[i].lower, {})
  BY OverIsNotAsking DEF Ends, Over
<1>2. /\ DOMAIN tasks' = DOMAIN tasks \ {i}
      /\ \A j \in DOMAIN tasks : j # i => tasks'[j] = tasks[j]
  BY EndRemoves DEF Ends
<1>3. Questions'
  BY <1>1, <1>2 DEF Questions
<1>4. Firm(page)' \subseteq UNION {tasks'[j].lower : j \in DOMAIN tasks'}
  <2>1. Firm(page)' = Firm(page')
    BY DEF Firm
  <2> SUFFICES ASSUME NEW f \in Firm(page')
               PROVE  \E j \in DOMAIN tasks' : f \in tasks'[j].lower
    BY <2>1
  <2>2. f \in Firm(page) /\ f \notin tasks[i].lower
    BY <1>1 DEF Flags
  <2>3. PICK j \in DOMAIN tasks : f \in tasks[j].lower
    BY <2>2 DEF FlagsFall
  <2> QED
    BY <1>2, <2>2, <2>3
<1>5. OneAtATime'
  BY <1>2 DEF FlagsFall, OneAtATime
<1>6. \A j \in DOMAIN tasks' : tasks'[j].lower \cap ExclusiveFlags \subseteq page'.busy
  <2> SUFFICES ASSUME NEW j \in DOMAIN tasks, j # i
               PROVE  tasks[j].lower \cap ExclusiveFlags \subseteq page'.busy
    BY <1>2
  <2>1. tasks[j].lower \cap tasks[i].lower \cap ExclusiveFlags = {}
    BY <1>1 DEF FlagsFall, OneAtATime
  <2>2. tasks[j].lower \cap ExclusiveFlags \subseteq page.busy
    BY DEF FlagsFall
  <2> QED
    BY <1>1, <2>1, <2>2 DEF Flags
<1>7. page'.busy \cap ExclusiveFlags \subseteq page.busy
  <2>1. Firm(page') \subseteq page.busy
    BY <1>1 DEF Flags, Firm
  <2> QED
    BY <2>1, ExclusiveFirm
<1>8. \A j \in DOMAIN tasks' :
        /\ Raised(tasks'[j].fn, tasks'[j].mem, tasks'[j].lower)
        /\ Want(tasks'[j].fn, tasks'[j].mem) \cap ExclusiveFlags \cap page'.busy = {}
  BY <1>2, <1>7 DEF FlagsFall
<1>9. NoIsKept
  BY <1>2 DEF NoIsKept
<1> QED
  BY <1>3, <1>4, <1>5, <1>6, <1>8, <1>9 DEF FlagsFall

LEMMA QuietKeeps ==
    ASSUME Questions, FlagsFall, Quiet
    PROVE  Questions' /\ FlagsFall' /\ NoIsKept
<1>1. tasks' = tasks /\ dialog' = dialog /\ Flags({}, {})
  BY DEF Quiet
<1>2. Questions'
  BY <1>1 DEF Questions
<1>3. Firm(page)' = Firm(page') /\ Firm(page') \subseteq Firm(page)
  BY <1>1 DEF Flags, Firm
<1>4. page'.busy \cap ExclusiveFlags \subseteq page.busy
  <2>1. Firm(page') \subseteq page.busy
    BY <1>3 DEF Firm
  <2> QED
    BY <2>1, ExclusiveFirm
<1>5. page.busy \cap ExclusiveFlags \subseteq page'.busy
  BY <1>1 DEF Flags
<1>6. FlagsFall'
  <2>1. OneAtATime'
    BY <1>1 DEF FlagsFall, OneAtATime
  <2>2. Firm(page)' \subseteq UNION {tasks[i].lower : i \in DOMAIN tasks}
    BY <1>3 DEF FlagsFall
  <2>3. \A i \in DOMAIN tasks : tasks[i].lower \cap ExclusiveFlags \subseteq page'.busy
    BY <1>5 DEF FlagsFall
  <2>4. \A i \in DOMAIN tasks : Want(tasks[i].fn, tasks[i].mem) \cap ExclusiveFlags \cap page'.busy = {}
    BY <1>4 DEF FlagsFall
  <2> QED
    BY <1>1, <2>1, <2>2, <2>3, <2>4 DEF FlagsFall
<1>7. NoIsKept
  BY <1>1 DEF NoIsKept
<1> QED
  BY <1>2, <1>6, <1>7

\* Only replies are added.
LEMMA SameFlags ==
    ASSUME FlagsFall, page' = page, DOMAIN tasks' = DOMAIN tasks,
           \A j \in DOMAIN tasks : SameTask(tasks[j], tasks'[j])
    PROVE  FlagsFall'
<1>1. Firm(page)' = Firm(page)
  BY DEF Firm
<1>2. UNION {tasks[i].lower : i \in DOMAIN tasks} \subseteq UNION {tasks'[i].lower : i \in DOMAIN tasks'}
  BY DEF SameTask
<1>3. OneAtATime'
  BY DEF FlagsFall, OneAtATime, SameTask
<1>4. \A i \in DOMAIN tasks :
        /\ Raised(tasks'[i].fn, tasks'[i].mem, tasks'[i].lower)
        /\ tasks'[i].lower \cap ExclusiveFlags \subseteq page.busy
        /\ Want(tasks'[i].fn, tasks'[i].mem) \cap ExclusiveFlags \cap page.busy = {}
  BY DEF FlagsFall, SameTask
<1> QED
  BY <1>1, <1>2, <1>3, <1>4 DEF FlagsFall

LEMMA RepliesKeep ==
    ASSUME Questions, FlagsFall, NEW i, NEW k, NEW reply, Replies(i, k, reply)
    PROVE  Questions' /\ FlagsFall' /\ NoIsKept
<1>1. /\ i \in DOMAIN tasks /\ k \in DOMAIN tasks[i].ask \ DOMAIN tasks[i].got
      /\ tasks[i].ask[k].op # "confirm"
      /\ page' = page /\ dialog' = dialog
  BY DEF Replies, Waiting
<1>2. /\ DOMAIN tasks' = DOMAIN tasks
      /\ SameTask(tasks[i], tasks'[i])
      /\ DOMAIN tasks'[i].got = DOMAIN tasks[i].got \cup {k}
      /\ \A j \in DOMAIN tasks : j # i => tasks'[j] = tasks[j]
  BY <1>1, ReplyGiven DEF Replies
<1>3. tasks[i].fn \notin Askers
  BY <1>1 DEF Questions, One, Question
<1>4. Questions'
  BY <1>1, <1>2, <1>3 DEF Questions, SameTask
<1>5. FlagsFall'
  BY <1>1, <1>2, SameFlags DEF SameTask
<1>6. NoIsKept
  <2>1. ~SaidNo(i)
    BY <1>1, <1>3, OnlyAskersRefused
  <2> QED
    BY <1>2, <2>1 DEF NoIsKept
<1> QED
  BY <1>4, <1>5, <1>6

LEMMA AnswersKeep ==
    ASSUME Questions, FlagsFall, NEW yes, Answers(yes)
    PROVE  Questions' /\ FlagsFall' /\ NoIsKept
<1>1. /\ dialog \in DOMAIN tasks /\ tasks[dialog].fn \in Askers /\ DOMAIN tasks[dialog].got = {}
      /\ page' = page /\ dialog' = None
  BY DEF Answers, Questions
<1>2. /\ DOMAIN tasks' = DOMAIN tasks
      /\ SameTask(tasks[dialog], tasks'[dialog])
      /\ DOMAIN tasks'[dialog].got = {"only"}
      /\ \A j \in DOMAIN tasks : j # dialog => tasks'[j] = tasks[j]
  BY <1>1, ReplyGiven DEF Answers
<1>3. Questions'
  BY <1>1, <1>2, NoneAssumption DEF Questions, SameTask, One
<1>4. FlagsFall'
  BY <1>1, <1>2, SameFlags DEF SameTask
<1>5. NoIsKept
  <2>1. ~SaidNo(dialog)
    BY <1>1, OnlyAskersRefused
  <2> QED
    BY <1>2, <2>1 DEF NoIsKept
<1> QED
  BY <1>3, <1>4, <1>5

LEMMA AsksAgainKeeps ==
    ASSUME Questions, FlagsFall, NEW i, AsksAgain(i)
    PROVE  Questions' /\ FlagsFall' /\ NoIsKept
<1> DEFINE next == [tasks EXCEPT ![i] = Task("restartForOverrides", One(Question), None, tasks[i].lower)]
<1>1. /\ i \in DOMAIN tasks /\ tasks[i].fn \notin Askers /\ i # dialog /\ page' = page /\ dialog' = i
      /\ tasks' = Superseded(next)
  BY DoneIsNotAsking DEF AsksAgain, AskNext, Done
<1>2. /\ DOMAIN next = DOMAIN tasks
      /\ next[i].fn = "restartForOverrides" /\ next[i].ask = One(Question)
      /\ next[i].lower = tasks[i].lower /\ DOMAIN next[i].got = {}
      /\ DOMAIN next[i] = {"fn", "ask", "got", "mem", "lower"}
      /\ \A j \in DOMAIN tasks : j # i => next[j] = tasks[j]
  BY <1>1, TaskFields
<1> HIDE DEF next
<1>3. dialog # None => dialog \in DOMAIN next /\ next[dialog] = tasks[dialog]
                       /\ DOMAIN next[dialog] = {"fn", "ask", "got", "mem", "lower"}
  BY <1>1, <1>2 DEF Questions
<1>4. /\ DOMAIN tasks' = DOMAIN tasks /\ tasks'[i] = next[i]
      /\ \A j \in DOMAIN tasks : j # dialog => tasks'[j] = next[j]
      /\ dialog # None => SameTask(tasks[dialog], tasks'[dialog]) /\ DOMAIN tasks'[dialog].got = {"only"}
  BY <1>1, <1>2, <1>3, SupersededTasks
<1>5. i # None
  BY <1>1, NoneAssumption DEF Questions
<1>6. Questions'
  <2>1. DOMAIN One(Question) = {"only"}
    BY DEF One
  <2>2. ASSUME NEW j \in DOMAIN tasks
        PROVE  /\ DOMAIN tasks'[j] = {"fn", "ask", "got", "mem", "lower"}
               /\ DOMAIN tasks'[j].got \subseteq DOMAIN tasks'[j].ask
               /\ IF tasks'[j].fn \in Askers THEN tasks'[j].ask = One(Question)
                  ELSE Sends(tasks'[j].fn, tasks'[j].ask)
               /\ tasks'[j].fn \in Askers /\ DOMAIN tasks'[j].got = {} <=> j = i
    <3>1. CASE j = i
      BY <1>2, <1>4, <2>1, <3>1 DEF Askers
    <3>2. CASE j = dialog
      <4>1. j # None
        BY NoneAssumption DEF Questions
      <4> QED
        BY <1>1, <1>4, <2>1, <3>2, <4>1 DEF Questions, SameTask
    <3>3. CASE j # i /\ j # dialog
      BY <1>2, <1>4, <3>3 DEF Questions
    <3> QED
      BY <3>1, <3>2, <3>3
  <2>3. \A j, k \in DOMAIN tasks :
            {tasks'[j].fn, tasks'[k].fn} \subseteq Askers \ {"restartForOverrides"} => j = k
    <3>1. \A j \in DOMAIN tasks : tasks'[j].fn = tasks[j].fn \/ tasks'[j].fn = "restartForOverrides"
      BY <1>2, <1>4, NoneAssumption DEF Questions, SameTask
    <3> QED
      BY <3>1 DEF Questions
  <2> QED
    BY <1>1, <1>4, <1>5, <2>2, <2>3 DEF Questions
<1>7. \A j \in DOMAIN tasks :
        /\ tasks'[j].lower = tasks[j].lower
        /\ (tasks'[j].fn = tasks[j].fn /\ tasks'[j].mem = tasks[j].mem) \/ tasks'[j].fn = "restartForOverrides"
  BY <1>2, <1>4, NoneAssumption DEF Questions, SameTask
<1>8. FlagsFall'
  <2>1. Firm(page)' = Firm(page)
    BY <1>1 DEF Firm
  <2>2. UNION {tasks[j].lower : j \in DOMAIN tasks} \subseteq UNION {tasks'[j].lower : j \in DOMAIN tasks'}
    BY <1>4, <1>7
  <2>3. OneAtATime'
    BY <1>4, <1>7 DEF FlagsFall, OneAtATime
  <2>4. \A j \in DOMAIN tasks' : Raised(tasks'[j].fn, tasks'[j].mem, tasks'[j].lower)
    BY <1>4, <1>7 DEF FlagsFall, Raised, Flagless
  <2>5. \A j \in DOMAIN tasks' : Want(tasks'[j].fn, tasks'[j].mem) \cap ExclusiveFlags \cap page.busy = {}
    BY <1>4, <1>7 DEF FlagsFall, Want
  <2>6. \A j \in DOMAIN tasks' : tasks'[j].lower \cap ExclusiveFlags \subseteq page.busy
    BY <1>4, <1>7 DEF FlagsFall
  <2> QED
    BY <1>1, <2>1, <2>2, <2>3, <2>4, <2>5, <2>6 DEF FlagsFall
<1>9. NoIsKept
  <2>1. ~SaidNo(i) /\ (dialog # None => ~SaidNo(dialog))
    BY <1>1, OnlyAskersRefused DEF Questions
  <2>2. \A j \in DOMAIN tasks : j # i /\ j # dialog => tasks'[j] = tasks[j]
    BY <1>2, <1>4
  <2>3. \A j \in DOMAIN tasks : j # None
    BY NoneAssumption DEF Questions
  <2> QED
    BY <2>1, <2>2, <2>3 DEF NoIsKept
<1> QED
  BY <1>6, <1>8, <1>9

LEMMA EmptyKeeps ==
    ASSUME Firm(page') = {}, tasks' = Nothing, dialog' = None
    PROVE  Questions' /\ FlagsFall' /\ NoIsKept
<1>1. DOMAIN tasks' = {}
  BY DEF Nothing
<1>2. Firm(page)' = {}
  BY DEF Firm
<1> QED
  BY <1>1, <1>2 DEF Questions, FlagsFall, OneAtATime, NoIsKept

LEMMA MovesKeep ==
    ASSUME Questions, FlagsFall, Moves
    PROVE  Questions' /\ FlagsFall' /\ NoIsKept
<1>1. CASE Reloads
  <2>1. Firm(page') = {}
    BY <1>1 DEF Reloads, Firm
  <2> QED
    BY <1>1, <2>1, EmptyKeeps DEF Reloads
<1> QED
  BY <1>1, QuietKeeps, StartsKeep, AsksKeep, ContinuesKeep, AsksAgainKeeps, EndsKeep, RepliesKeep, AnswersKeep
  DEF Moves

-----------------------------------------------------------------------------
(* The actions of the pages are moves.                                      *)

LEMMA RepliedDone ==
    ASSUME NEW i, NEW fn, i \in Replied(fn)
    PROVE  Done(i) /\ tasks[i].fn = fn
BY DEF Replied, Done

LEMMA ServerMoves ==
    ASSUME ServerStep
    PROVE  Moves
<1>1. PICK i \in DOMAIN tasks : \E k \in Unanswered(i) : Serve(i, k) \/ Refuse(i, k) \/ LoseReply(i, k)
  BY DEF ServerStep
<1>2. PICK k \in Unanswered(i) : Serve(i, k) \/ Refuse(i, k) \/ LoseReply(i, k)
  BY <1>1
<1>3. \E reply : Replies(i, k, reply)
  BY <1>1, <1>2 DEF Unanswered, Serve, Refuse, LoseReply, Replies
<1> QED
  BY <1>3 DEF Moves

LEMMA DialogMoves ==
    ASSUME DialogStep
    PROVE  Moves
<1>1. PICK yes : AnswerDialog(yes)
  BY DEF DialogStep
<1>2. Answers(yes)
  BY <1>1 DEF AnswerDialog, Answers
<1> QED
  BY <1>2 DEF Moves

LEMMA QuietMoves ==
    ASSUME UNCHANGED <<tasks, dialog>>, SameFrame, page'.busy = page.busy
    PROVE  Moves
<1>1. Quiet
  BY DEF Quiet, Flags, SameFrame, Firm
<1> QED
  BY <1>1 DEF Moves

LEMMA BeginMoves ==
    ASSUME NEW fn, NEW ask, NEW mem, NEW lower, Begin(fn, ask, mem, lower), UNCHANGED dialog,
           SameFrame, page'.busy = page.busy \cup lower,
           Sends(fn, ask), Raised(fn, mem, lower),
           lower \cap ExclusiveFlags \cap page.busy = {},
           Clickable \/ lower \cap ExclusiveFlags \subseteq {"inFlight", Saving}
    PROVE  Moves
<1>1. Flags({}, lower)
  BY DEF Flags, SameFrame, Firm
<1>2. Starts(fn, ask, mem, lower)
  BY <1>1 DEF Starts
<1> QED
  BY <1>2 DEF Moves

LEMMA AskMoves ==
    ASSUME NEW fn, NEW mem, AskFirst(fn, mem), UNCHANGED page, Clickable,
           fn \in Askers \ {"restartForOverrides"}, Raised(fn, mem, {}),
           Want(fn, mem) \cap ExclusiveFlags \cap page.busy = {}
    PROVE  Moves
BY DEF Asks, Moves

\* A function that goes on keeps its flags, or drops them and raises others.
LEMMA KeepMoves ==
    ASSUME Inv, NEW i, Done(i), NEW fn, NEW ask, NEW mem, NEW lower,
           Await(i, fn, ask, mem, lower), UNCHANGED dialog,
           SameFrame, page.busy \subseteq page'.busy, page'.busy \subseteq page.busy \cup lower,
           tasks[i].lower \subseteq lower, lower \cap ExclusiveFlags \subseteq tasks[i].lower,
           Sends(fn, ask), Raised(fn, mem, lower),
           tasks[i].fn \in Askers /\ ~Reply(i).val => OnlyReads(ask)
    PROVE  Moves
<1>1. Flags(tasks[i].lower \ lower, lower)
  BY DEF Flags, SameFrame, Firm, Inv, FlagsFall, Done
<1>2. Continues(i, fn, ask, mem, lower)
  BY <1>1 DEF Continues
<1> QED
  BY <1>2 DEF Moves

LEMMA DropMoves ==
    ASSUME Inv, NEW i, Done(i), NEW fn, NEW ask, NEW mem, NEW lower,
           Await(i, fn, ask, mem, lower), UNCHANGED dialog,
           SameFrame, page'.busy = (page.busy \ tasks[i].lower) \cup lower,
           lower \cap ExclusiveFlags \subseteq tasks[i].lower \cup Want(tasks[i].fn, tasks[i].mem),
           Sends(fn, ask), Raised(fn, mem, lower),
           tasks[i].fn \in Askers /\ ~Reply(i).val => OnlyReads(ask)
    PROVE  Moves
<1>1. Flags(tasks[i].lower \ lower, lower)
  BY DEF Flags, SameFrame, Firm
<1>2. Continues(i, fn, ask, mem, lower)
  BY <1>1 DEF Continues
<1> QED
  BY <1>2 DEF Moves

LEMMA EndMoves ==
    ASSUME NEW i, Done(i), End(i), UNCHANGED dialog, SameFrame, page'.busy = page.busy \ tasks[i].lower
    PROVE  Moves
<1>1. Ends(i)
  BY DEF Ends, Over, Done, Flags, SameFrame, Firm
<1> QED
  BY <1>1 DEF Moves

LEMMA EarlyEndMoves ==
    ASSUME NEW i \in DOMAIN tasks, tasks[i].fn \notin Askers, End(i), UNCHANGED dialog,
           SameFrame, page'.busy = page.busy \ tasks[i].lower
    PROVE  Moves
<1>1. Ends(i)
  BY DEF Ends, Over, Flags, SameFrame, Firm
<1> QED
  BY <1>1 DEF Moves

LEMMA PlainRequests ==
    ASSUME NEW fn, fn \notin Askers
    PROVE  /\ \A k : Sends(fn, One(Get(k)))
           /\ \A keys : Sends(fn, GetAll(keys))
           /\ \A k, v : Sends(fn, One(Put(k, v))) /\ Sends(fn, One(Add(k, v))) /\ Sends(fn, One(Patch(k, v)))
           /\ \A k, x : Sends(fn, One(Drop(k, x))) /\ Sends(fn, One(Call(k, x)))
           /\ \A k, x, v : Sends(fn, One(Set(k, x, v)))
BY DEF Sends, One, Get, GetAll, Put, Add, Patch, Drop, Call, Set

LEMMA ListMoves ==
    ASSUME Inv, page.kind = "list", NEW i, ListEvent \/ ListResume(i)
    PROVE  Moves
<1>1. DOMAIN page = {"kind", "mounted", "busy", "selected", "content", "drafts", "groups"}
  BY DEF Inv, Framed, FreshOf, ListFresh
<1>2. \A fn : i \in Replied(fn) => Done(i) /\ tasks[i].fn = fn /\ Raised(fn, tasks[i].mem, tasks[i].lower)
  BY RepliedDone DEF Inv, FlagsFall, Done
<1> USE DEF SameFrame, Raise, Lower, Raised, Flagless, Askers, ExclusiveFlags, CoreMode, RoutingMode, OnlyPage
<1>3. CASE SelectList
  <2>1. PICK t : \/ page' = ShowDraft(t) /\ UNCHANGED <<tasks, dialog>>
                 \/ page' = ShowLoading(t) /\ Begin("loadList", Fetch(t), t, {"loading"}) /\ UNCHANGED dialog
    BY <1>3 DEF SelectList
  <2>2. CASE page' = ShowDraft(t) /\ UNCHANGED <<tasks, dialog>>
    BY <1>1, <2>2, QuietMoves DEF ShowDraft
  <2>3. CASE page' = ShowLoading(t) /\ Begin("loadList", Fetch(t), t, {"loading"}) /\ UNCHANGED dialog
    BY <1>1, <2>3, BeginMoves, PlainRequests DEF ShowLoading, Fetch
  <2> QED
    BY <2>1, <2>2, <2>3
<1>4. CASE TypeInEditor
  BY <1>1, <1>4, QuietMoves DEF TypeInEditor, EditorInput
<1>5. CASE SaveList
  BY <1>1, <1>5, BeginMoves, PlainRequests DEF SaveList, PostList
<1>6. CASE ListRefresh
  BY <1>1, <1>6, BeginMoves, PlainRequests DEF ListRefresh
<1>7. CASE ListLoaded(i)
  BY <1>1, <1>2, <1>7, EndMoves DEF ListLoaded, ListShown
<1>8. CASE ListSaved(i)
  <2>1. Done(i) /\ tasks[i].fn = "saveList" /\ tasks[i].lower = {"saving"}
    BY <1>2, <1>8 DEF ListSaved
  <2>2. DOMAIN AfterPost(i) = DOMAIN page /\ AfterPost(i).busy = page.busy /\ AfterPost(i).kind = page.kind
    BY <1>1 DEF AfterPost
  <2>3. CASE page' = Lower(ShowActiveDraft(AfterPost(i)), i) /\ End(i)
    BY <1>1, <1>8, <2>1, <2>2, <2>3, EndMoves DEF ListSaved, ShowActiveDraft
  <2>4. ASSUME NEW t, page' = AfterPost(i),
               Await(i, "saveList", PostList(t), [tag |-> t, left |-> tasks[i].mem.left \ {t}], {"saving"})
        PROVE  Moves
    <3>1. Sends("saveList", PostList(t)) /\ UNCHANGED dialog
      BY <1>8, PlainRequests DEF ListSaved, PostList
    <3>2. SameFrame /\ page'.busy = page.busy
      BY <2>2, <2>4
    <3> DEFINE mem == [tag |-> t, left |-> tasks[i].mem.left \ {t}]
    <3>3. Await(i, "saveList", PostList(t), mem, {"saving"})
      BY <2>4
    <3> HIDE DEF mem
    <3> QED
      BY <2>1, <3>1, <3>2, <3>3, KeepMoves
  <2> QED
    BY <1>8, <2>3, <2>4 DEF ListSaved
<1>9. CASE ProfilesLoaded(i)
  <2>1. Done(i) /\ tasks[i].fn \in {"init", "listRefresh"} /\ tasks[i].lower = {} /\ UNCHANGED dialog
    BY <1>2, <1>9 DEF ProfilesLoaded
  <2>2. /\ SameFrame
        /\ \/ page'.busy = page.busy /\ End(i)
           \/ /\ page'.busy = page.busy \cup {"loading"}
              /\ \E t : Await(i, "loadList", Fetch(t), t, {"loading"})
    BY <1>1, <1>9 DEF ProfilesLoaded, ShowDraft, ShowLoading
  <2>3. CASE page'.busy = page.busy /\ End(i)
    BY <2>1, <2>2, <2>3, EndMoves
  <2>4. ASSUME NEW t, page'.busy = page.busy \cup {"loading"}, Await(i, "loadList", Fetch(t), t, {"loading"})
        PROVE  Moves
    BY <2>1, <2>2, <2>4, KeepMoves, PlainRequests DEF Fetch
  <2> QED
    BY <2>2, <2>3, <2>4
<1> QED
  BY <1>3, <1>4, <1>5, <1>6, <1>7, <1>8, <1>9 DEF ListEvent, ListResume

LEMMA LogMoves ==
    ASSUME Inv, page.kind = "log", NEW i, LogEvent \/ LogResume(i)
    PROVE  Moves
<1>1. DOMAIN page = {"kind", "mounted", "busy", "mode", "visit", "listening", "search", "wanted", "rows",
                     "current", "total", "detail", "aliases", "aliasOpen", "aliasRows", "groups",
                     "captured", "requests", "selectedKey", "showFalse"}
  BY DEF Inv, Framed, FreshOf, LogFresh
<1>2. \A fn : i \in Replied(fn) => Done(i) /\ tasks[i].fn = fn /\ Raised(fn, tasks[i].mem, tasks[i].lower)
  BY RepliedDone DEF Inv, FlagsFall, Done
<1> USE DEF SameFrame, Raise, Lower, Raised, Flagless, Askers, ExclusiveFlags, CoreMode, RoutingMode, OnlyPage
<1>3. CASE SearchLogs
  BY <1>1, <1>3, BeginMoves, PlainRequests DEF SearchLogs, RefreshLogs, AskLogs
<1>4. CASE LoadMoreLogs
  BY <1>1, <1>4, BeginMoves, PlainRequests DEF LoadMoreLogs, AskLogs
<1>5. CASE OpenLogDetail \/ CloseLogDetail \/ CloseAliasManager \/ EditAlias
  BY <1>1, <1>5, QuietMoves DEF OpenLogDetail, CloseLogDetail, CloseAliasManager, EditAlias
<1>6. CASE ApplyQuickFilter
  BY <1>1, <1>6, BeginMoves, PlainRequests DEF ApplyQuickFilter, RefreshLogs, AskLogs
<1>7. CASE OpenAliasManager
  BY <1>1, <1>7, BeginMoves, PlainRequests DEF OpenAliasManager
<1>8. CASE SaveAliases
  BY <1>1, <1>8, BeginMoves, PlainRequests DEF SaveAliases, AliasButtons
<1>9. CASE ImportAliases
  BY <1>1, <1>9, BeginMoves, PlainRequests DEF ImportAliases
<1>10. CASE StartCapture \/ FetchCaptureLogs
  <2>1. CASE StartCapture
    <3>1. /\ Begin("startCapture", One(Put("capturing", TRUE)), None, {"loading"})
          /\ SameFrame /\ page'.busy = page.busy \cup {"loading"} /\ UNCHANGED dialog /\ Clickable
      BY <1>1, <2>1 DEF StartCapture
    <3>2. Sends("startCapture", One(Put("capturing", TRUE)))
      BY Zenon, PlainRequests DEF Askers
    <3>3. Raised("startCapture", None, {"loading"})
      OBVIOUS
    <3> QED
      BY <3>1, <3>2, <3>3, BeginMoves
  <2>2. CASE FetchCaptureLogs
    BY <1>1, <2>2, BeginMoves, PlainRequests DEF FetchCaptureLogs, AskCapture
  <2> QED
    BY <1>10, <2>1, <2>2
<1>11. CASE SelectDiagnostic \/ ToggleFalseLogs \/ QueryCaptured
  BY <1>1, <1>11, QuietMoves DEF SelectDiagnostic, ToggleFalseLogs, QueryCaptured
<1>12. CASE LogRefresh
  BY <1>1, <1>12, BeginMoves, PlainRequests DEF LogRefresh, RefreshLogs, AskLogs, AskCapture
<1>13. CASE LogsLoaded(i)
  BY <1>1, <1>2, <1>13, EndMoves DEF LogsLoaded, LogsShown
<1>14. CASE AliasesRead(i)
  BY <1>1, <1>2, <1>14, EndMoves DEF AliasesRead
<1>15. CASE AliasesPut(i)
  BY <1>1, <1>2, <1>15, EndMoves DEF AliasesPut
<1>16. CASE CaptureStarted(i) \/ CaptureFetched(i)
  BY <1>1, <1>2, <1>16, EndMoves DEF CaptureStarted, CaptureFetched, Diagnosed
<1>18. CASE AliasFileRead(i)
  <2>1. Done(i) /\ tasks[i].fn = "readAliasFile" /\ tasks[i].lower = {} /\ UNCHANGED <<page, dialog>>
    BY <1>2, <1>18 DEF AliasFileRead
  <2>2. End(i) \/ \E map : Await(i, "importAliases", One(Put("aliases", map)), None, {})
    BY <1>18 DEF AliasFileRead
  <2>3. CASE End(i)
    BY <1>1, <2>1, <2>3, EndMoves
  <2>4. ASSUME NEW map, Await(i, "importAliases", One(Put("aliases", map)), None, {})
        PROVE  Moves
    BY <1>1, <2>1, <2>4, KeepMoves, PlainRequests
  <2> QED
    BY <2>2, <2>3, <2>4
<1>17. CASE LogReady(i)
  <2>1. Done(i) /\ tasks[i].fn = "logMount" /\ tasks[i].lower = {} /\ UNCHANGED dialog
    BY <1>2, <1>17 DEF LogReady
  <2>2. /\ SameFrame
        /\ \/ page'.busy = page.busy /\ End(i)
           \/ /\ page'.busy = page.busy \cup {"loading"}
              /\ \E mem : Await(i, "loadLogs", One(Get("pages")), mem, {"loading"})
    BY <1>1, <1>17 DEF LogReady
  <2>3. CASE page'.busy = page.busy /\ End(i)
    BY <2>1, <2>2, <2>3, EndMoves
  <2>4. ASSUME NEW mem, page'.busy = page.busy \cup {"loading"},
               Await(i, "loadLogs", One(Get("pages")), mem, {"loading"})
        PROVE  Moves
    BY <2>1, <2>2, <2>4, KeepMoves, PlainRequests
  <2> QED
    BY <2>2, <2>3, <2>4
<1> QED
  BY <1>3, <1>4, <1>5, <1>6, <1>7, <1>8, <1>9, <1>10, <1>11, <1>12, <1>13, <1>14, <1>15, <1>16, <1>17, <1>18
  DEF LogEvent, LogResume

LEMMA UpstreamMoves ==
    ASSUME Inv, page.kind = "upstream", NEW i, UpstreamEvent \/ UpstreamResume(i)
    PROVE  Moves
<1>1. DOMAIN page = {"kind", "mounted", "busy", "visit", "config", "groups", "mode", "editor", "special", "manager"}
  BY DEF Inv, Framed, FreshOf, UpstreamFresh
<1>2. \A fn : i \in Replied(fn) => Done(i) /\ tasks[i].fn = fn /\ Raised(fn, tasks[i].mem, tasks[i].lower)
  BY RepliedDone DEF Inv, FlagsFall, Done
<1> USE DEF SameFrame, Raise, Lower, Raised, Flagless, Askers, ExclusiveFlags, CoreMode, RoutingMode, OnlyPage
<1>3. CASE BeginAdd \/ BeginEdit \/ CloseEditor \/ ManageGroups
  BY <1>1, <1>3, QuietMoves DEF BeginAdd, BeginEdit, CloseEditor, ManageGroups
<1>4. CASE OpenSpecialGroup \/ EditSpecialGroup \/ CloseSpecialGroup
  BY <1>1, <1>4, QuietMoves DEF OpenSpecialGroup, EditSpecialGroup, CloseSpecialGroup
<1>5. CASE SaveUpstream
  <2>1. PICK list : Begin("saveUpstream", One(Set("config", page.editor.group, list)), None, {"saving"})
    BY <1>5 DEF SaveUpstream
  <2>2. SameFrame /\ page'.busy = page.busy \cup {"saving"} /\ "saving" \notin page.busy /\ Clickable /\ UNCHANGED dialog
    BY <1>1, <1>5 DEF SaveUpstream
  <2> QED
    BY <2>1, <2>2, BeginMoves, PlainRequests
<1>6. CASE RemoveRow \/ DeleteSpecialGroup
  <2>1. CASE RemoveRow
    <3>1. PICK mem : Clickable /\ AskFirst("removeRow", mem) /\ UNCHANGED page
      BY <2>1 DEF RemoveRow, TableClickable
    <3> QED
      BY <3>1, AskMoves DEF Want
  <2>2. CASE DeleteSpecialGroup
    BY <2>2, AskMoves DEF DeleteSpecialGroup, Want
  <2> QED
    BY <1>6, <2>1, <2>2
<1>7. CASE ToggleEnable
  BY <1>7, BeginMoves, PlainRequests DEF ToggleEnable
<1>8. CASE SaveSpecialGroup
  BY <1>1, <1>8, BeginMoves, PlainRequests DEF SaveSpecialGroup
<1>9. CASE UpstreamRefresh
  BY <1>1, <1>9, BeginMoves, PlainRequests DEF UpstreamRefresh, UpstreamReads, UpstreamReadsOf
<1>10. CASE UpstreamsLoaded(i)
  BY <1>1, <1>2, <1>10, EndMoves DEF UpstreamsLoaded
<1>11. ASSUME NEW fn, NEW p, Written(i, fn, p), SameFields(p), p.busy = page.busy, fn \notin Askers
       PROVE  Moves
  BY <1>1, <1>2, <1>11, EndMoves, KeepMoves, PlainRequests DEF Written, ReadAgain, UpstreamReads, UpstreamReadsOf, SameFields
<1>12. CASE UpstreamSaved(i) \/ SpecialGroupSaved(i)
  BY <1>1, <1>11, <1>12 DEF UpstreamSaved, SpecialGroupSaved, SameFields
<1>13. CASE RowRemoved(i) \/ Toggled(i) \/ GroupDropped(i)
  BY <1>1, <1>11, <1>13 DEF RowRemoved, Toggled, GroupDropped, SameFields
<1>14. CASE RemoveAnswered(i)
  BY <1>1, <1>2, <1>14, EndMoves, DropMoves, PlainRequests DEF RemoveAnswered
<1>15. CASE DeleteGroupAnswered(i)
  BY <1>1, <1>2, <1>15, EndMoves, DropMoves, PlainRequests DEF DeleteGroupAnswered
<1> QED
  BY <1>3, <1>4, <1>5, <1>6, <1>7, <1>8, <1>9, <1>10, <1>12, <1>13, <1>14, <1>15
  DEF UpstreamEvent, UpstreamResume

LEMMA CacheFlags ==
    AllCaches \cap ExclusiveFlags = {} /\ Features \cap ExclusiveFlags = {}
BY FlagsAssumption DEF Features, IPv6Block, IPv4First, CNFakeIP, ExclusiveFlags, CoreMode, RoutingMode

LEMMA TablesMoves ==
    ASSUME Inv, page.kind = "tables", NEW i, TablesEvent \/ TablesResume(i)
    PROVE  Moves
<1>1. DOMAIN page = {"kind", "mounted", "busy", "visit", "mode", "groups", "rows", "counts", "view", "searchTimer"}
  BY DEF Inv, Framed, FreshOf, TablesFresh
<1>2. \A fn : i \in Replied(fn) => Done(i) /\ tasks[i].fn = fn /\ Raised(fn, tasks[i].mem, tasks[i].lower)
  BY RepliedDone DEF Inv, FlagsFall, Done
<1> USE DEF SameFrame, Raise, Lower, Raised, Flagless, Askers, OnlyPage
<1>3. CASE TablesRefresh
  BY <1>1, <1>3, BeginMoves, PlainRequests DEF TablesRefresh, ReloadTables, CacheReads, ExclusiveFlags, CoreMode, RoutingMode
<1>4. CASE ClearCache
  <2>1. PICK c \in DOMAIN page.rows : Clickable /\ AskFirst("clearCache", {c})
    BY <1>4 DEF ClearCache
  <2>2. {c} \subseteq AllCaches
    BY <2>1 DEF Inv, Known
  <2> QED
    BY <1>4, <2>1, <2>2, AskMoves DEF ClearCache, Want
<1>5. CASE ClearAllCaches
  BY <1>5, AskMoves DEF ClearAllCaches, Want
<1>6. ASSUME NEW p, NEW append \in BOOLEAN, SameFields(p), p.busy = page.busy, FetchDataView(p, append)
      PROVE  Moves
  <2>1. /\ SameFrame /\ UNCHANGED dialog
        /\ page.busy \subseteq page'.busy /\ page'.busy \subseteq page.busy \cup ViewFlags
    BY <1>1, <1>6 DEF FetchDataView, ViewFlags, SameFields
  <2>2. PICK mem : Begin("fetchView", One(Get("entries")), mem, ViewFlags)
    BY <1>6 DEF FetchDataView
  <2>3. ViewFlags \cap ExclusiveFlags = {}
    BY DEF ViewFlags, ExclusiveFlags, CoreMode, RoutingMode
  <2>4. Flags({}, ViewFlags)
    BY <2>1, <2>3 DEF Flags, Firm
  <2>5. Starts("fetchView", One(Get("entries")), mem, ViewFlags)
    BY <2>1, <2>2, <2>3, <2>4, PlainRequests DEF Starts
  <2> QED
    BY <2>5 DEF Moves
<1>7. CASE OpenDataView \/ LoadMoreDataView
  BY <1>1, <1>6, <1>7 DEF OpenDataView, LoadMoreDataView, SameFields
<1>8. CASE ViewSearchFires
  BY <1>1, <1>6, <1>8 DEF ViewSearchFires, SameFields
<1>9. CASE CloseDataView \/ TypeViewSearch
  BY <1>1, <1>9, QuietMoves DEF CloseDataView, TypeViewSearch
<1>10. CASE MetricsRead(i)
  <2>1. CASE i \in Replied("cacheStats") /\ tasks[i].got["caches"].ok
    <3>1. Done(i) /\ tasks[i].fn = "cacheStats" /\ UNCHANGED dialog
      BY <1>2, <1>10, <2>1 DEF MetricsRead
    <3>2. CASE \E mem, groups : /\ page' = [page EXCEPT !.groups = groups]
                               /\ Await(i, "coreMode", One(Get("mode")), mem, tasks[i].lower)
      <4>1. PICK mem, groups : /\ page' = [page EXCEPT !.groups = groups]
                               /\ Await(i, "coreMode", One(Get("mode")), mem, tasks[i].lower)
        BY <3>2
      <4> QED
        BY <1>1, <3>1, <4>1, KeepMoves, PlainRequests
    <3>3. CASE page' = Lower(page, i) /\ End(i)
      BY <1>1, <3>1, <3>3, EndMoves
    <3> QED
      BY <1>10, <3>2, <3>3 DEF MetricsRead
  <2>2. CASE i \in Rejected("cacheStats", {"caches"}) /\ page' = Lower(page, i) /\ End(i)
    BY <1>1, <1>10, <2>2, EarlyEndMoves DEF MetricsRead, Rejected
  <2> QED
    BY <1>10, <2>1, <2>2 DEF MetricsRead
<1>11. CASE CoreModeRead(i) \/ ListStatsRead(i) \/ ViewFetched(i)
  BY <1>1, <1>2, <1>11, EndMoves DEF CoreModeRead, WithRows, ListStatsRead, ViewFetched
<1>12. CASE ClearAnswered(i)
  <2>1. /\ Done(i) /\ tasks[i].fn \in {"clearCache", "clearAllCaches"} /\ tasks[i].lower = {} /\ UNCHANGED dialog
        /\ tasks[i].fn = "clearCache" => tasks[i].mem \subseteq AllCaches
    BY <1>2, <1>12 DEF ClearAnswered
  <2>2. CASE ~Reply(i).val
    BY <1>1, <1>12, <2>1, <2>2, EndMoves DEF ClearAnswered
  <2>3. CASE Reply(i).val
    <3>1. PICK fn, caches, flags :
                /\ fn \in {"flushAll", "flushOne"}
                /\ page' = Raise(page, flags)
                /\ Await(i, fn, Flushes(caches), None, flags)
                /\ flags = {"cacheClearingAll"} \/ flags \subseteq AllCaches
      BY <1>12, <2>1, <2>3 DEF ClearAnswered
    <3>2. flags \cap ExclusiveFlags = {}
      BY <3>1, CacheFlags DEF ExclusiveFlags, CoreMode, RoutingMode
    <3>3. Sends(fn, Flushes(caches))
      BY <3>1 DEF Sends, Flushes, Set
    <3> QED
      BY <1>1, <2>1, <2>3, <3>1, <3>2, <3>3, KeepMoves
  <2> QED
    BY <2>2, <2>3
<1>13. CASE CachesFlushed(i)
  <2>1. Done(i) /\ tasks[i].fn \in {"flushOne", "flushAll"} /\ UNCHANGED dialog
    BY <1>2, <1>13 DEF CachesFlushed
  <2>2. CASE page' = Lower(page, i) /\ End(i)
    BY <1>1, <2>1, <2>2, EndMoves
  <2>3. CASE AskCacheStats(i, page, tasks[i].lower)
    BY <1>1, <2>1, <2>3, KeepMoves, PlainRequests DEF AskCacheStats, CacheReads, ExclusiveFlags, CoreMode, RoutingMode
  <2> QED
    BY <1>13, <2>2, <2>3 DEF CachesFlushed
<1> QED
  BY <1>3, <1>4, <1>5, <1>7, <1>8, <1>9, <1>10, <1>11, <1>12, <1>13 DEF TablesEvent, TablesResume

LEMMA RequeryMoves ==
    ASSUME Inv, page.kind = "requery", NEW i, RequeryEvent \/ RequeryResume(i)
    PROVE  Moves
<1>1. DOMAIN page = {"kind", "mounted", "busy", "available", "status", "form", "pending", "pendingTimer", "poll",
                     "scheduleTimer"}
  BY DEF Inv, Framed, FreshOf, RequeryFresh
<1>2. \A fn : i \in Replied(fn) => Done(i) /\ tasks[i].fn = fn /\ Raised(fn, tasks[i].mem, tasks[i].lower)
  BY RepliedDone DEF Inv, FlagsFall, Done
<1> USE DEF SameFrame, Raise, Lower, Raised, Flagless, Askers, OnlyPage, ExclusiveFlags, CoreMode, RoutingMode
<1>3. CASE RequeryRefresh \/ PollFires
  BY <1>1, <1>3, BeginMoves, PlainRequests DEF RequeryRefresh, PollFires, RefreshStatus, AskStatus, StatusReads
<1>4. CASE PendingTimeout \/ EditSchedule \/ ServerRequery
  BY <1>1, <1>4, QuietMoves DEF PendingTimeout, EnsurePolling, EditSchedule, ServerRequery
<1>5. CASE AskAction
  BY <1>5, AskMoves DEF AskAction, Want
<1>6. ASSUME NEW p, SameFields(p), p.busy = page.busy, PostSchedule(p)
      PROVE  Moves
  BY <1>1, <1>6, QuietMoves, BeginMoves, PlainRequests DEF PostSchedule, SameFields
<1>7. CASE ToggleSchedule \/ ScheduleFires
  BY <1>1, <1>6, <1>7 DEF ToggleSchedule, ScheduleFires, SameFields
<1>8. CASE StatusRead(i)
  <2> DEFINE Keeps(p) == SameFields(p) /\ p.busy = page.busy
  <2>1. ASSUME NEW p, Keeps(p)
        PROVE  Keeps(EnsurePolling(p)) /\ Keeps(SetPending(p, FALSE))
    BY <1>1, <2>1 DEF SameFields, SetPending, EnsurePolling
  <2>2. PICK p : Keeps(p) /\ (page' = Lower(SetPending(p, FALSE), i) \/ page' = Lower(EnsurePolling(p), i) \/ page' = Lower(p, i))
    <3>1. ASSUME NEW status, NEW config
          PROVE  Keeps(StatusShown(page, status, config))
      BY <1>1 DEF StatusShown, SameFields
    <3>2. Keeps([page EXCEPT !.available = FALSE, !.status = None]) /\ Keeps([page EXCEPT !.available = TRUE])
      BY <1>1 DEF SameFields
    <3> HIDE DEF Keeps
    <3> USE DEF Lower
    <3>3. CASE StatusKnown(i)
      BY <3>1, <3>3 DEF StatusKnown
    <3>4. CASE StatusUnknown(i)
      BY <3>2, <3>4 DEF StatusUnknown
    <3> QED
      BY <1>8, <3>3, <3>4 DEF StatusRead
  <2>3. SameFrame /\ page'.busy = page.busy \ tasks[i].lower
    <3>1. PICK q : Keeps(q) /\ page' = Lower(q, i)
      BY <2>1, <2>2
    <3> QED
      BY <1>1, <3>1 DEF SameFields
  <2> QED
    BY <1>8, <2>3, EarlyEndMoves DEF StatusRead, Replied, Rejected
<1>9. Actions \cap ExclusiveFlags = {}
  BY DEF Actions
<1>10. CASE ActionAnswered(i)
  <2>1. /\ Done(i) /\ tasks[i].fn = "askAction" /\ tasks[i].lower = {} /\ tasks[i].mem \in Actions
        /\ UNCHANGED dialog
    BY <1>2, <1>10 DEF ActionAnswered
  <2>2. CASE ~Reply(i).val
    BY <1>1, <1>10, <2>1, <2>2, EndMoves DEF ActionAnswered
  <2>3. CASE Reply(i).val
    <3>1. /\ Await(i, "postAction", ActionRequests(tasks[i].mem), tasks[i].mem, Actions)
          /\ page' = Acting(page, tasks[i].mem)
      BY <1>10, <2>3 DEF ActionAnswered
    <3>2. Sends("postAction", ActionRequests(tasks[i].mem))
      BY <2>1 DEF Sends, ActionRequests, One, Put, Set, Actions
    <3>3. SameFrame /\ page'.busy = (page.busy \ Actions) \cup {tasks[i].mem}
      BY <1>1, <3>1 DEF Acting
    <3>4. Flags(tasks[i].lower \ Actions, Actions)
      BY <1>9, <2>1, <3>3 DEF Flags, Firm
    <3>5. Continues(i, "postAction", ActionRequests(tasks[i].mem), tasks[i].mem, Actions)
      BY <1>9, <2>1, <2>3, <3>1, <3>2, <3>4 DEF Continues
    <3> QED
      BY <3>5 DEF Moves
  <2> QED
    BY <2>2, <2>3
<1>11. CASE ActionPosted(i)
  <2> DEFINE next == IF tasks[i].mem = "trigger" THEN SetPending(page, AllGood(i)) ELSE page
  <2>1. Done(i) /\ tasks[i].fn = "postAction" /\ tasks[i].lower = Actions /\ UNCHANGED dialog
    BY <1>2, <1>11 DEF ActionPosted
  <2>2. DOMAIN next = DOMAIN page /\ next.kind = page.kind /\ next.busy = page.busy
    BY <1>1 DEF SetPending, EnsurePolling
  <2>3. \/ /\ page' = AskStatus(next)
           /\ Await(i, "requeryStatus", StatusReads, None, Actions \cup {"requeryStatusRefreshing"})
        \/ page' = Lower(next, i) /\ End(i)
        \/ page' = Lower(page, i) /\ End(i)
        \/ /\ page' = Raise(page, {"listStatsRefreshing"})
           /\ Await(i, "ruleCounts", One(Get("lists")), None, Actions \cup {"listStatsRefreshing"})
    BY <1>11 DEF ActionPosted
  <2> HIDE DEF next
  <2>4. CASE /\ page' = AskStatus(next)
             /\ Await(i, "requeryStatus", StatusReads, None, Actions \cup {"requeryStatusRefreshing"})
    BY <1>1, <1>9, <2>1, <2>2, <2>4, KeepMoves, PlainRequests DEF AskStatus, StatusReads
  <2>5. CASE page' = Lower(next, i) /\ End(i)
    BY <1>1, <2>1, <2>2, <2>5, EndMoves
  <2>6. CASE page' = Lower(page, i) /\ End(i)
    BY <1>1, <2>1, <2>6, EndMoves
  <2>7. CASE /\ page' = Raise(page, {"listStatsRefreshing"})
             /\ Await(i, "ruleCounts", One(Get("lists")), None, Actions \cup {"listStatsRefreshing"})
    BY <1>1, <1>9, <2>1, <2>7, KeepMoves, PlainRequests
  <2> QED
    BY <2>3, <2>4, <2>5, <2>6, <2>7
<1>12. CASE RuleCountsRead(i)
  BY <1>1, <1>2, <1>12, EndMoves DEF RuleCountsRead
<1>13. CASE ScheduleSaved(i)
  <2>1. Done(i) /\ tasks[i].fn = "saveSchedule" /\ tasks[i].lower = {"schedulerSaving"} /\ UNCHANGED dialog
    BY <1>2, <1>13 DEF ScheduleSaved
  <2>2. CASE page' = Lower(page, i) /\ End(i)
    BY <1>1, <2>1, <2>2, EndMoves
  <2>3. CASE /\ page' = AskStatus(page)
             /\ Await(i, "requeryStatus", StatusReads, None, {"schedulerSaving", "requeryStatusRefreshing"})
    BY <1>1, <2>1, <2>3, KeepMoves, PlainRequests DEF AskStatus, StatusReads
  <2> QED
    BY <1>13, <2>2, <2>3 DEF ScheduleSaved
<1> QED
  BY <1>3, <1>4, <1>5, <1>7, <1>8, <1>10, <1>11, <1>12, <1>13 DEF RequeryEvent, RequeryResume

LEMMA RulesMoves ==
    ASSUME Inv, page.kind = "rules", NEW i, RulesEvent \/ RulesResume(i)
    PROVE  Moves
<1>1. DOMAIN page = {"kind", "mounted", "busy", "mode", "groups", "rows", "adguard", "editor", "later"}
  BY DEF Inv, Framed, FreshOf, RulesFresh
<1>2. \A fn : i \in Replied(fn) => Done(i) /\ tasks[i].fn = fn /\ Raised(fn, tasks[i].mem, tasks[i].lower)
  BY RepliedDone DEF Inv, FlagsFall, Done
<1> USE DEF SameFrame, Raise, Lower, Raised, Flagless, Askers, ExclusiveFlags, CoreMode, RoutingMode, OnlyPage,
            Diversion, AdGuard
<1>3. ASSUME NEW p, SameFields(p), p.busy = page.busy, ReloadRules(p), UNCHANGED dialog
      PROVE  Moves
  BY <1>1, <1>3, BeginMoves, PlainRequests DEF ReloadRules, SameFields
<1>4. CASE RulesRefresh
  BY <1>1, <1>3, <1>4 DEF RulesRefresh, SameFields
<1>5. ASSUME NEW p, NEW mem, SameFields(p), p.busy = page.busy \ tasks[i].lower, AskDiversion(i, p, mem),
             Done(i), tasks[i].fn \notin Askers, UNCHANGED dialog
      PROVE  Moves
  BY <1>1, <1>5, DropMoves, PlainRequests DEF AskDiversion, SameFields
<1>6. CASE RuleGroupsRead(i)
  <2>1. Done(i) /\ tasks[i].fn = "ruleGroups" /\ UNCHANGED dialog
    BY <1>2, <1>6 DEF RuleGroupsRead
  <2>2. PICK v : AskDiversion(i, Lower([page EXCEPT !.groups = v], i), Reloading)
    BY <1>6 DEF RuleGroupsRead
  <2>3. /\ SameFields(Lower([page EXCEPT !.groups = v], i))
        /\ Lower([page EXCEPT !.groups = v], i).busy = page.busy \ tasks[i].lower
    BY <1>1 DEF SameFields
  <2> QED
    BY <1>5, <2>1, <2>2, <2>3
<1>7. CASE DiversionRead(i)
  <2> DEFINE p == RulesInView(Lower([page EXCEPT !.rows = MergedRows(i)], i))
  <2>1. SameFields(p) /\ p.busy = page.busy \ tasks[i].lower
    BY <1>1 DEF RulesInView, SameFields
  <2>2. Done(i) /\ tasks[i].fn = "diversionRules" /\ UNCHANGED dialog
    BY <1>2, <1>7 DEF DiversionRead
  <2>3. \/ page' = p /\ End(i)
        \/ \E mem : AskDiversion(i, p, mem)
        \/ page' = p /\ \E k, x, mem : Await(i, "download", One(Call(k, x)), mem, {})
    BY <1>7 DEF DiversionRead
  <2> HIDE DEF p
  <2>4. CASE page' = p /\ End(i)
    BY <2>1, <2>2, <2>4, EndMoves DEF SameFields
  <2>5. ASSUME NEW mem, AskDiversion(i, p, mem)
        PROVE  Moves
    BY <1>5, <2>1, <2>2, <2>5
  <2>6. ASSUME NEW k, NEW x, NEW mem, page' = p, Await(i, "download", One(Call(k, x)), mem, {})
        PROVE  Moves
    BY <2>1, <2>2, <2>6, DropMoves, PlainRequests DEF SameFields
  <2> QED
    BY <2>3, <2>4, <2>5, <2>6
<1>8. CASE DownloadAsked(i)
  BY <1>1, <1>2, <1>5, <1>8, EndMoves DEF DownloadAsked, SameFields
<1>9. CASE AdguardRead(i)
  BY <1>1, <1>2, <1>9, EndMoves DEF AdguardRead, RulesInView
<1>10. CASE OpenRuleEditor \/ CloseRuleEditor
  BY <1>1, <1>10, QuietMoves DEF OpenRuleEditor, CloseRuleEditor
<1>11. CASE SaveDiversion
  <2>1. UNCHANGED <<page, dialog>> /\ \E mem :
            \/ \E k, x : Begin("deleteOld", One(Drop(k, x)), mem, {})
            \/ \E k, x, v : Begin("putRule", One(Set(k, x, v)), mem, {})
    BY <1>11 DEF SaveDiversion
  <2>2. ASSUME NEW mem, NEW k, NEW x, Begin("deleteOld", One(Drop(k, x)), mem, {})
        PROVE  Moves
    BY <2>1, <2>2, BeginMoves, PlainRequests
  <2>3. ASSUME NEW mem, NEW k, NEW x, NEW v, Begin("putRule", One(Set(k, x, v)), mem, {})
        PROVE  Moves
    BY <2>1, <2>3, BeginMoves, PlainRequests
  <2> QED
    BY <2>1, <2>2, <2>3
<1>12. CASE OldDeleted(i)
  BY <1>1, <1>2, <1>12, EndMoves, KeepMoves, PlainRequests DEF OldDeleted
<1>13. CASE RulePut(i)
  <2>1. Done(i) /\ tasks[i].fn = "putRule" /\ tasks[i].lower = {} /\ UNCHANGED dialog
    BY <1>2, <1>13 DEF RulePut
  <2>2. \/ \E mem : AskDiversion(i, [page EXCEPT !.editor = None], mem)
        \/ End(i) /\ UNCHANGED page
    BY <1>13 DEF RulePut
  <2>3. SameFields([page EXCEPT !.editor = None])
    BY <1>1 DEF SameFields
  <2> QED
    BY <1>1, <1>5, <2>1, <2>2, <2>3, EndMoves
<1>14. CASE ToggleRule
  <2>1. UNCHANGED <<page, dialog>> /\ \E k, x, v : Begin("changeRule", One(Set(k, x, v)), None, {})
    BY <1>14 DEF ToggleRule
  <2> QED
    BY <2>1, BeginMoves, PlainRequests
<1>15. CASE DeleteRule
  BY <1>15, AskMoves DEF DeleteRule, TableInReach, Want
<1>16. CASE DeleteRuleAnswered(i)
  <2>1. Done(i) /\ tasks[i].fn = "deleteRule" /\ tasks[i].lower = {} /\ UNCHANGED <<page, dialog>>
    BY <1>2, <1>16 DEF DeleteRuleAnswered
  <2>2. End(i) \/ (Reply(i).val /\ \E k, x : Await(i, "changeRule", One(Drop(k, x)), None, {}))
    BY <1>16 DEF DeleteRuleAnswered
  <2> QED
    BY <2>1, <2>2, EndMoves, KeepMoves, PlainRequests
<1>17. CASE SaveAdguard
  <2>1. PICK enabled \in BOOLEAN :
            Begin("saveAdguard", One(IF page.editor.new THEN Add(AdGuard, enabled)
                                     ELSE Set(AdGuard, page.editor.row, enabled)), None, {})
    BY <1>17 DEF SaveAdguard
  <2>2. UNCHANGED <<page, dialog>>
    BY <1>17 DEF SaveAdguard
  <2>3. Sends("saveAdguard", One(IF page.editor.new THEN Add(AdGuard, enabled)
                                 ELSE Set(AdGuard, page.editor.row, enabled)))
    BY PlainRequests
  <2> QED
    BY <2>1, <2>2, <2>3, BeginMoves
<1>18. CASE RuleChanged(i)
  <2> DEFINE closed == IF tasks[i].fn = "saveAdguard" THEN [page EXCEPT !.editor = None] ELSE page
  <2>1. Done(i) /\ tasks[i].fn \in {"changeRule", "saveAdguard"} /\ tasks[i].lower = {} /\ UNCHANGED dialog
    BY <1>2, <1>18 DEF RuleChanged
  <2>2. \/ AskDiversion(i, closed, Reloading)
        \/ page' = Raise(closed, {AdGuard}) /\ Await(i, "adguardRules", One(Get(AdGuard)), None, {AdGuard})
        \/ page' = page /\ End(i)
    BY <1>18 DEF RuleChanged
  <2>3. SameFields(closed) /\ closed.busy = page.busy
    BY <1>1 DEF SameFields
  <2> HIDE DEF closed
  <2>4. CASE AskDiversion(i, closed, Reloading)
    BY <1>5, <2>1, <2>3, <2>4
  <2>5. CASE page' = Raise(closed, {AdGuard}) /\ Await(i, "adguardRules", One(Get(AdGuard)), None, {AdGuard})
    BY <1>1, <2>1, <2>3, <2>5, KeepMoves, PlainRequests DEF SameFields
  <2> QED
    BY <2>1, <2>2, <2>4, <2>5, EndMoves
<1>19. CASE UpdateRules
  <2>1. UNCHANGED <<page, dialog>> /\
            \/ \E row : Begin("updateRules", One(DownloadOf(row)), None, {})
            \/ Begin("updateRules", One(Call(AdGuard, None)), None, {})
            \/ Begin("updateRules", [row \in page.rows |-> DownloadOf(row)], None, {})
    BY <1>19 DEF UpdateRules
  <2>2. \A row : DownloadOf(row).op # "confirm"
    BY DEF DownloadOf, Call
  <2>3. (\A row : Sends("updateRules", One(DownloadOf(row)))) /\ Sends("updateRules", [row \in page.rows |-> DownloadOf(row)])
    BY <2>2 DEF Sends, One
  <2> HIDE DEF OnlyPage
  <2>4. ASSUME NEW ask, Sends("updateRules", ask), Begin("updateRules", ask, None, {})
        PROVE  Moves
    BY <2>1, <2>4, BeginMoves
  <2> QED
    BY <2>1, <2>3, <2>4, PlainRequests
<1>20. CASE RulesUpdated(i)
  BY <1>1, <1>2, <1>20, EndMoves DEF RulesUpdated
<1>21. CASE UpdateTimerFires
  <2> DEFINE p == [page EXCEPT !.later = @ - 1]
  <2>1. SameFields(p) /\ p.busy = page.busy
    BY <1>1 DEF SameFields
  <2>2. /\ UNCHANGED dialog
        /\ \/ page' = Raise(p, {Diversion}) /\ Begin("diversionRules", GetAll(KnownTypes), Reloading, {Diversion})
           \/ page' = Raise(p, {AdGuard}) /\ Begin("adguardRules", One(Get(AdGuard)), None, {AdGuard})
    BY <1>21 DEF UpdateTimerFires
  <2> HIDE DEF p
  <2> QED
    BY <1>1, <2>1, <2>2, BeginMoves, PlainRequests DEF SameFields
<1> QED
  BY <1>4, <1>6, <1>7, <1>8, <1>9, <1>10, <1>11, <1>12, <1>13, <1>14, <1>15, <1>16, <1>17, <1>18, <1>19, <1>20, <1>21
  DEF RulesEvent, RulesResume

LEMMA SwitchMoves ==
    ASSUME Inv, page.kind = "switches", NEW i, SwitchEvent \/ SwitchResume(i)
    PROVE  Moves
<1>1. DOMAIN page = {"kind", "mounted", "busy", "visit", "states", "generation"}
  BY DEF Inv, Framed, FreshOf, SwitchFresh
<1>2. \A fn : i \in Replied(fn) => Done(i) /\ tasks[i].fn = fn /\ Raised(fn, tasks[i].mem, tasks[i].lower)
  BY RepliedDone DEF Inv, FlagsFall, Done
<1> USE DEF SameFrame, Raise, Lower, Raised, Flagless, Askers, OnlyPage
<1>3. \A fn, visit : fn \notin Askers => Sends(fn, SwitchReads(visit))
  BY PlainRequests DEF SwitchReads
<1>4. ASSUME NEW tag, NEW value
      PROVE  DOMAIN Showing(page, tag, value) = DOMAIN page /\ Showing(page, tag, value).kind = page.kind
             /\ Showing(page, tag, value).busy = page.busy
  BY <1>1 DEF Showing
<1>5. CASE SetCoreMode
  BY <1>5, AskMoves DEF SetCoreMode, Want, CoreMode, RoutingMode
<1>6. CASE SetDnsRoutingMode
  BY <1>6, AskMoves DEF SetDnsRoutingMode, Want, CoreMode, RoutingMode
<1>7. CASE ToggleSwitch
  <2>1. PICK tag \in Features, checked \in BOOLEAN :
            \/ \E other \in Excluded(tag) : \E mem :
                  /\ page' = Raise(page, {other}) /\ mem.tag = tag
                  /\ Begin("turnOff", PostSwitch(other, OffValue(other)), mem, {other})
            \/ \E value, mem :
                  /\ page' = Raise(page, {tag}) /\ mem.tag = tag
                  /\ Begin("setSwitch", PostSwitch(tag, value), mem, {tag})
    BY <1>7 DEF ToggleSwitch
  <2>2. UNCHANGED dialog /\ Clickable
    BY <1>7 DEF ToggleSwitch
  <2>3. Excluded(tag) \subseteq Features
    BY DEF Excluded, Features
  <2>4. ASSUME NEW f \in Features, NEW fn \in {"turnOff", "setSwitch"}, NEW value, NEW mem, mem.tag = tag,
               page' = Raise(page, {f}), Begin(fn, PostSwitch(f, value), mem, {f})
        PROVE  Moves
    <3>1. {f} \cap ExclusiveFlags = {}
      BY CacheFlags
    <3>2. Sends(fn, PostSwitch(f, value))
      BY PlainRequests DEF PostSwitch
    <3> QED
      BY <1>1, <2>2, <2>4, <3>1, <3>2, BeginMoves
  <2> QED
    BY <2>1, <2>3, <2>4
<1>8. CASE ToggleGeneration
  <2>1. PICK key \in Generation, checked \in BOOLEAN :
            \/ /\ page' = Raise(page, {"generation"}) /\ UNCHANGED dialog
               /\ Begin("postGeneration", GenerationRequest(key, TRUE), None, {"generation"})
            \/ AskFirst("askGeneration", key) /\ UNCHANGED page
    BY <1>8 DEF ToggleGeneration
  <2>2. Clickable /\ "generation" \notin page.busy
    BY <1>8 DEF ToggleGeneration
  <2>3. CASE AskFirst("askGeneration", key) /\ UNCHANGED page
    BY <2>2, <2>3, AskMoves DEF Want
  <2>4. CASE /\ page' = Raise(page, {"generation"}) /\ UNCHANGED dialog
             /\ Begin("postGeneration", GenerationRequest(key, TRUE), None, {"generation"})
    <3>1. Sends("postGeneration", GenerationRequest(key, TRUE))
      BY PlainRequests DEF GenerationRequest
    <3> QED
      BY <1>1, <2>2, <2>4, <3>1, BeginMoves
  <2> QED
    BY <2>1, <2>3, <2>4
<1>9. CASE SwitchesRefresh
  BY <1>1, <1>3, <1>9, BeginMoves DEF SwitchesRefresh, ExclusiveFlags, CoreMode, RoutingMode
<1>10. CASE SwitchesRead(i)
  <2>1. SameFrame /\ page'.busy = page.busy \ tasks[i].lower
    BY <1>1, <1>10 DEF SwitchesRead
  <2> QED
    BY <1>2, <1>10, <2>1, EndMoves DEF SwitchesRead
<1>11. CASE ModeAnswered(i)
  <2> DEFINE tag == IF tasks[i].fn = "setCoreMode" THEN CoreMode ELSE RoutingMode
             post == IF tag = CoreMode THEN "postCoreMode" ELSE "postRoutingMode"
  <2>1. Done(i) /\ tasks[i].fn \in {"setCoreMode", "setDnsRoutingMode"} /\ tasks[i].lower = {} /\ UNCHANGED dialog
    BY <1>2, <1>11 DEF ModeAnswered
  <2>2. CASE ~Reply(i).val
    BY <1>1, <1>11, <2>1, <2>2, EndMoves DEF ModeAnswered
  <2>3. CASE Reply(i).val
    <3>1. /\ page' = Raise(page, {tag})
          /\ Await(i, post, PostSwitch(tag, tasks[i].mem), tasks[i].mem, {tag})
      BY <1>11, <2>3 DEF ModeAnswered
    <3>2. post \notin Askers /\ Want(tasks[i].fn, tasks[i].mem) = {tag} /\ Raised(post, tasks[i].mem, {tag})
      BY <2>1 DEF Want, CoreMode, RoutingMode
    <3>3. Sends(post, PostSwitch(tag, tasks[i].mem))
      BY <3>2, PlainRequests DEF PostSwitch
    <3> HIDE DEF tag, post
    <3> QED
      BY <1>1, <2>1, <2>3, <3>1, <3>2, <3>3, DropMoves
  <2> QED
    BY <2>2, <2>3
<1>12. CASE CoreModePosted(i)
  <2>1. Done(i) /\ tasks[i].fn = "postCoreMode" /\ UNCHANGED dialog
    BY <1>2, <1>12 DEF CoreModePosted
  <2>2. CASE page' = Lower(page, i) /\ End(i)
    BY <1>1, <2>1, <2>2, EndMoves
  <2>3. CASE /\ page' = Lower(Showing(page, CoreMode, tasks[i].mem), i)
             /\ Await(i, "requeryAfterMode", One(Call("requery", None)), None, {})
    BY <1>1, <1>4, <2>1, <2>3, DropMoves, PlainRequests
  <2> QED
    BY <1>12, <2>2, <2>3 DEF CoreModePosted
<1>13. ASSUME NEW p, AskFlush(i, p), DOMAIN p = DOMAIN page, p.kind = page.kind, p.busy = page.busy,
              Done(i), tasks[i].fn \notin Askers, tasks[i].lower = {RoutingMode}, UNCHANGED dialog
       PROVE  Moves
  BY <1>1, <1>13, KeepMoves, PlainRequests DEF AskFlush
<1>14. ASSUME NEW p, ReadSwitchesAgain(i, p), DOMAIN p = DOMAIN page, p.kind = page.kind, p.busy = page.busy,
              Done(i), tasks[i].fn \notin Askers, UNCHANGED dialog
       PROVE  Moves
  BY <1>1, <1>3, <1>14, KeepMoves DEF ReadSwitchesAgain
<1>15. CASE RoutingModePosted(i)
  <2>1. Done(i) /\ tasks[i].fn = "postRoutingMode" /\ tasks[i].lower = {RoutingMode} /\ UNCHANGED dialog
    BY <1>2, <1>15 DEF RoutingModePosted
  <2>2. CASE AskFlush(i, Showing(page, RoutingMode, tasks[i].mem))
    BY <1>4, <1>13, <2>1, <2>2
  <2>3. CASE ReadSwitchesAgain(i, page)
    BY <1>14, <2>1, <2>3
  <2>4. CASE page' = page /\ Await(i, "readRoutingMode", One(Get(RoutingMode)), tasks[i].mem, {RoutingMode})
    BY <1>1, <2>1, <2>4, KeepMoves, PlainRequests
  <2> QED
    BY <1>15, <2>2, <2>3, <2>4 DEF RoutingModePosted
<1>16. CASE RoutingModeRead(i)
  <2>1. Done(i) /\ tasks[i].fn = "readRoutingMode" /\ tasks[i].lower = {RoutingMode} /\ UNCHANGED dialog
    BY <1>2, <1>16 DEF RoutingModeRead
  <2>2. PICK p : /\ AskFlush(i, p) \/ ReadSwitchesAgain(i, p)
                 /\ p \in {page, Showing(page, RoutingMode, Reply(i).val)}
    BY <1>16 DEF RoutingModeRead
  <2>3. DOMAIN p = DOMAIN page /\ p.kind = page.kind /\ p.busy = page.busy
    BY <1>4, <2>2
  <2> QED
    BY <1>13, <1>14, <2>1, <2>2, <2>3
<1>17. CASE CachesFlushedForMode(i)
  BY <1>1, <1>2, <1>17, KeepMoves, PlainRequests DEF CachesFlushedForMode
<1>18. CASE ModeDone(i)
  BY <1>1, <1>2, <1>18, EndMoves DEF ModeDone
<1>19. CASE TurnedOff(i)
  <2> DEFINE m == tasks[i].mem
             off == Showing(page, m.other, OffValue(m.other))
  <2>1. Done(i) /\ tasks[i].fn = "turnOff" /\ m.tag \in Features /\ UNCHANGED dialog
    BY <1>2, <1>19 DEF TurnedOff
  <2>2. CASE /\ page' = Raise(Lower(off, i), {m.tag})
             /\ Await(i, "setSwitch", PostSwitch(m.tag, m.value), [tag |-> m.tag, value |-> m.value], {m.tag})
    <3>1. {m.tag} \cap ExclusiveFlags = {}
      BY <2>1, CacheFlags
    <3>2. Sends("setSwitch", PostSwitch(m.tag, m.value))
      BY PlainRequests DEF PostSwitch
    <3>3. Raised("setSwitch", [tag |-> m.tag, value |-> m.value], {m.tag})
      BY <2>1
    <3>4. SameFrame /\ page'.busy = (page.busy \ tasks[i].lower) \cup {m.tag}
      BY <1>1, <1>4, <2>2
    <3> QED
      BY <2>1, <2>2, <3>1, <3>2, <3>3, <3>4, DropMoves
  <2>3. CASE page' = Lower(page, i) /\ Await(i, "switchReads", SwitchReads(FeaturePart), None, {})
    BY <1>1, <1>3, <2>1, <2>3, DropMoves
  <2> QED
    BY <1>19, <2>2, <2>3 DEF TurnedOff
<1>20. CASE SwitchSet(i)
  <2> DEFINE set == Lower(Showing(page, tasks[i].mem.tag, tasks[i].mem.value), i)
  <2>1. Done(i) /\ tasks[i].fn = "setSwitch" /\ UNCHANGED dialog
    BY <1>2, <1>20 DEF SwitchSet
  <2>2. DOMAIN set = DOMAIN page /\ set.kind = page.kind /\ set.busy = page.busy \ tasks[i].lower
    BY <1>1, <1>4
  <2>3. \/ page' = set /\ End(i)
        \/ page' = set /\ Await(i, "flushAfterSwitch", One(Call("caches", None)), None, {})
        \/ page' = Lower(page, i) /\ Await(i, "switchReads", SwitchReads(FeaturePart), None, {})
    BY <1>20 DEF SwitchSet
  <2> HIDE DEF set
  <2>4. CASE page' = set /\ End(i)
    BY <2>1, <2>2, <2>4, EndMoves
  <2>5. CASE page' = set /\ Await(i, "flushAfterSwitch", One(Call("caches", None)), None, {})
    BY <2>1, <2>2, <2>5, DropMoves, PlainRequests
  <2>6. CASE page' = Lower(page, i) /\ Await(i, "switchReads", SwitchReads(FeaturePart), None, {})
    BY <1>1, <1>3, <2>1, <2>6, DropMoves
  <2> QED
    BY <2>3, <2>4, <2>5, <2>6
<1>21. CASE GenerationAnswered(i)
  <2>1. Done(i) /\ tasks[i].fn = "askGeneration" /\ tasks[i].lower = {} /\ UNCHANGED dialog
    BY <1>2, <1>21 DEF GenerationAnswered
  <2>2. Want("askGeneration", tasks[i].mem) = {"generation"}
    BY DEF Want
  <2>3. "generation" \notin page.busy
    BY <2>1, <2>2 DEF Inv, FlagsFall, Done, ExclusiveFlags
  <2>4. CASE ~Reply(i).val
    BY <1>1, <1>21, <2>1, <2>3, <2>4, EndMoves DEF GenerationAnswered
  <2>5. CASE Reply(i).val
    <3>1. /\ page' = Raise(page, {"generation"})
          /\ Await(i, "postGeneration", GenerationRequest(tasks[i].mem, FALSE), None, {"generation"})
      BY <1>21, <2>5 DEF GenerationAnswered
    <3>2. Sends("postGeneration", GenerationRequest(tasks[i].mem, FALSE))
      BY PlainRequests DEF GenerationRequest
    <3> QED
      BY <1>1, <2>1, <2>2, <2>5, <3>1, <3>2, DropMoves
  <2> QED
    BY <2>4, <2>5
<1>22. CASE GenerationPosted(i)
  BY <1>1, <1>2, <1>22, EndMoves DEF GenerationPosted
<1> QED
  BY <1>5, <1>6, <1>7, <1>8, <1>9, <1>10, <1>11, <1>12, <1>15, <1>16, <1>17, <1>18, <1>19, <1>20, <1>21, <1>22
  DEF SwitchEvent, SwitchResume

LEMMA AskedRequests ==
    ASSUME NEW a \in Asked
    PROVE  /\ a.name \notin Askers /\ Sends(a.name, One(a.request)) /\ Raised(a.name, None, a.flags)
           /\ a.flags \cap ExclusiveFlags \subseteq {"portSaving"}
           /\ a.flags \subseteq {"restarting", "updating", "portSaving"}
<1>1. /\ a.name \in {"clearAuditLogs", "submitCapacity", "restartMosdns", "applyRemoteConfig", "applyWebUIPort"}
      /\ a.name \in {"clearAuditLogs", "submitCapacity"} => a.flags = {}
      /\ a.flags \subseteq {"restarting", "updating", "portSaving"}
  BY DEF Asked
<1>2. a.request.op # "confirm"
  BY DEF Asked, Call, Put
<1>3. a.name \notin Askers /\ Raised(a.name, None, a.flags)
  BY <1>1 DEF Askers, Raised, Flagless
<1>4. Sends(a.name, One(a.request))
  BY <1>2, <1>3 DEF Sends, One
<1>5. {"restarting", "updating"} \cap ExclusiveFlags = {}
  BY DEF ExclusiveFlags, CoreMode, RoutingMode
<1> QED
  BY <1>1, <1>3, <1>4, <1>5

LEMMA SystemMoves ==
    ASSUME Inv, page.kind = "system", NEW i, SystemEvent \/ SystemResume(i)
    PROVE  Moves
<1>1. DOMAIN page = {"kind", "mounted", "busy", "visit", "capturing", "overrides", "port", "update", "watch",
                     "reload"}
  BY DEF Inv, Framed, FreshOf, SystemFresh
<1>2. \A fn : i \in Replied(fn) => Done(i) /\ tasks[i].fn = fn /\ Raised(fn, tasks[i].mem, tasks[i].lower)
  BY RepliedDone DEF Inv, FlagsFall, Done
<1> USE DEF SameFrame, Raise, Lower, Raised, Flagless, Askers, ExclusiveFlags, CoreMode, RoutingMode, OnlyPage
<1>3. \A visit : OnlyReads(SystemReads(visit)) /\ \A fn : fn \notin Askers => Sends(fn, SystemReads(visit))
  BY PlainRequests DEF SystemReads, OnlyReads, GetAll, Get
<1>4. \A visit : LoadFlags(visit) \subseteq {"portLoading"}
  BY DEF LoadFlags
<1>5. CASE SystemRefresh
  BY <1>1, <1>3, <1>4, <1>5, BeginMoves DEF SystemRefresh
<1>6. CASE AskSystem
  <2>1. PICK a \in Asked : /\ Clickable /\ page.busy \cap (a.flags \cup {"portLoading"}) = {}
                          /\ AskFirst("askSystem", a) /\ UNCHANGED page
    BY <1>6 DEF AskSystem
  <2> QED
    BY <2>1, AskMoves DEF Want
<1>7. CASE SystemAnswered(i)
  <2>1. /\ Done(i) /\ tasks[i].fn = "askSystem" /\ tasks[i].lower = {} /\ tasks[i].mem \in Asked
        /\ UNCHANGED dialog
    BY <1>2, <1>7 DEF SystemAnswered
  <2>2. CASE ~Reply(i).val
    BY <1>1, <1>7, <2>1, <2>2, EndMoves DEF SystemAnswered
  <2>3. CASE Reply(i).val
    <3> DEFINE a == tasks[i].mem
    <3>1. page' = Raise(page, a.flags) /\ Await(i, a.name, One(a.request), None, a.flags)
      BY <1>7, <2>3 DEF SystemAnswered
    <3>2. Sends(a.name, One(a.request)) /\ Raised(a.name, None, a.flags)
      BY <2>1, AskedRequests
    <3>3. Want(tasks[i].fn, tasks[i].mem) = a.flags
      BY <2>1 DEF Want
    <3>4. SameFrame /\ page'.busy = (page.busy \ tasks[i].lower) \cup a.flags
      BY <1>1, <2>1, <3>1
    <3> HIDE DEF Raised
    <3> QED
      BY <2>1, <2>3, <3>1, <3>2, <3>3, <3>4, DropMoves
  <2> QED
    BY <2>2, <2>3
<1>8. CASE ToggleAudit
  <2>1. Begin("toggleAudit", One(Put("capturing", ~page.capturing)), None, {}) /\ UNCHANGED <<page, dialog>>
    BY <1>8 DEF ToggleAudit
  <2>2. Sends("toggleAudit", One(Put("capturing", ~page.capturing)))
    BY Zenon, PlainRequests DEF Askers
  <2> QED
    BY <2>1, <2>2, BeginMoves
<1>9. ASSUME Done(i), ReadPartAgain(i, tasks[i].lower), UNCHANGED dialog
      PROVE  Moves
  BY <1>1, <1>3, <1>4, <1>9, KeepMoves DEF ReadPartAgain
<1>10. CASE AuditChanged(i)
  <2>1. /\ Done(i) /\ tasks[i].fn \in {"toggleAudit", "clearAuditLogs", "submitCapacity"} /\ tasks[i].lower = {}
        /\ UNCHANGED dialog
    BY <1>2, <1>10 DEF AuditChanged
  <2> QED
    BY <1>1, <1>9, <1>10, <2>1, EndMoves DEF AuditChanged
<1>11. CASE RestartAsked(i)
  <2>1. Done(i) /\ UNCHANGED dialog
    BY <1>2, <1>11 DEF RestartAsked
  <2>2. CASE ReadPartAgain(i, tasks[i].lower)
    BY <1>9, <2>1, <2>2
  <2>3. ASSUME NEW reload, page' = Lower([page EXCEPT !.reload = reload], i), End(i)
        PROVE  Moves
    BY <1>1, <2>1, <2>3, EndMoves
  <2> QED
    BY <1>11, <2>2, <2>3 DEF RestartAsked
<1>12. CASE PortPosted(i)
  <2>1. Done(i) /\ tasks[i].fn = "applyWebUIPort" /\ UNCHANGED dialog
    BY <1>2, <1>12 DEF PortPosted
  <2>2. CASE page' = page /\ Await(i, "restartForPort", One(Call("restart", None)), None, tasks[i].lower)
    BY <2>1, <2>2, KeepMoves, PlainRequests
  <2> QED
    BY <1>9, <1>12, <2>1, <2>2 DEF PortPosted
<1>13. CASE EditOverrides \/ WatchExpires \/ ServerRestarts
  BY <1>1, <1>13, QuietMoves DEF EditOverrides, WatchExpires, ServerRestarts
<1>14. CASE LoadOverrides
  BY <1>3, <1>14, BeginMoves DEF LoadOverrides
<1>15. CASE SaveOverrides
  BY <1>1, <1>15, BeginMoves, PlainRequests DEF SaveOverrides
<1>16. CASE OverridesSaved(i)
  <2>1. Done(i) /\ tasks[i].fn = "saveOverrides"
    BY <1>2, <1>16 DEF OverridesSaved
  <2>2. CASE AskNext(i, "restartForOverrides", None, tasks[i].lower) /\ UNCHANGED page
    BY <2>1, <2>2 DEF AsksAgain, Moves
  <2>3. CASE page' = Lower(page, i) /\ End(i) /\ UNCHANGED dialog
    BY <1>1, <2>1, <2>3, EndMoves
  <2> QED
    BY <1>16, <2>2, <2>3 DEF OverridesSaved
<1>17. CASE OverridesAnswered(i)
  <2>1. Done(i) /\ UNCHANGED dialog
    BY <1>2, <1>17 DEF OverridesAnswered
  <2>2. CASE /\ Reply(i).val /\ page' = page
             /\ Await(i, "restartMosdns", One(Call("restart", None)), None, tasks[i].lower)
    BY <2>1, <2>2, KeepMoves, PlainRequests
  <2> QED
    BY <1>9, <1>17, <2>1, <2>2 DEF OverridesAnswered
<1>18. CASE BackupConfig
  BY <1>1, <1>18, BeginMoves, PlainRequests DEF BackupConfig
<1>19. CASE SystemRead(i)
  <2>1. DOMAIN SystemShown(i) = DOMAIN page /\ SystemShown(i).kind = page.kind /\ SystemShown(i).busy = page.busy
    BY <1>1 DEF Inv, Known, SystemShown, Visiting
  <2>2. SameFrame /\ page'.busy = page.busy \ tasks[i].lower
    BY <1>1, <1>19, <2>1 DEF SystemRead
  <2> QED
    BY <1>2, <1>19, <2>2, EndMoves DEF SystemRead
<1>20. CASE BackupDone(i)
  BY <1>1, <1>2, <1>20, EndMoves DEF BackupDone
<1>21. ASSUME NEW fn \in {"checkUpdate", "applyUpdate"}, NEW patch, SendUpdate(fn, patch)
       PROVE  Moves
  BY <1>1, <1>21, BeginMoves, PlainRequests DEF SendUpdate
<1>22. CASE CheckUpdate \/ ApplyUpdate
  BY <1>21, <1>22 DEF CheckUpdate, ApplyUpdate
<1>23. CASE UpdateReplied(i)
  <2>1. Done(i) /\ End(i) /\ UNCHANGED dialog
    BY <1>2, <1>23 DEF UpdateReplied
  <2>2. SameFrame /\ page'.busy = page.busy \ tasks[i].lower
    BY <1>1, <1>23 DEF UpdateReplied
  <2> QED
    BY <2>1, <2>2, EndMoves
<1>24. CASE WatchProbes
  BY <1>24, BeginMoves, PlainRequests DEF WatchProbes
<1>25. CASE Probed(i)
  <2>1. Done(i) /\ tasks[i].lower = {} /\ End(i) /\ UNCHANGED dialog
    BY <1>2, <1>25 DEF Probed
  <2>2. SameFrame /\ page'.busy = page.busy
    BY <1>1, <1>25 DEF Probed
  <2> QED
    BY <2>1, <2>2, EndMoves
<1>26. CASE ReloadWindow
  <2>1. Reloads
    BY <1>1, <1>26 DEF ReloadWindow, SystemFresh, Reloads
  <2> QED
    BY <2>1 DEF Moves
<1> QED
  BY <1>5, <1>6, <1>7, <1>8, <1>10, <1>11, <1>12, <1>13, <1>14, <1>15, <1>16, <1>17, <1>18, <1>19, <1>20, <1>22,
     <1>23, <1>24, <1>25, <1>26
  DEF SystemEvent, SystemResume

LEMMA AppearanceMoves ==
    ASSUME Inv, page.kind = "appearance", NEW i, AppearanceEvent \/ AppearanceResume(i)
    PROVE  Moves
<1>1. DOMAIN page = {"kind", "mounted", "busy", "visit", "theme", "colors", "colorTimer", "draft", "shown",
                     "history", "historyOpen", "historyBusy"}
  BY DEF Inv, Framed, FreshOf, AppearanceFresh
<1>2. \A fn : i \in Replied(fn) => Done(i) /\ tasks[i].fn = fn /\ Raised(fn, tasks[i].mem, tasks[i].lower)
  BY RepliedDone DEF Inv, FlagsFall, Done
<1> USE DEF SameFrame, Raise, Lower, Raised, Flagless, Askers, ExclusiveFlags, CoreMode, RoutingMode, OnlyPage,
            Saving, Queued, HistoryLoading
<1> DEFINE Keeps(p) == DOMAIN p = DOMAIN page /\ p.kind = page.kind /\ p.busy = page.busy
<1>3. CASE DragColor \/ TypeUrl
  BY <1>1, <1>3, QuietMoves DEF DragColor, TypeUrl, PickedColor
<1>4. ASSUME NEW p, Keeps(p), SaveColors(p), UNCHANGED dialog
      PROVE  Moves
  <2>1. CASE page' = Raise(p, {Queued}) /\ UNCHANGED tasks
    <3>1. SameFrame /\ Firm(page') = Firm(page) /\ page.busy \cap ExclusiveFlags \subseteq page'.busy
      BY <1>1, <1>4, <2>1 DEF Firm
    <3>2. Quiet
      BY <1>4, <2>1, <3>1 DEF Quiet, Flags
    <3> QED
      BY <3>2 DEF Moves
  <2>2. CASE /\ Saving \notin p.busy /\ page' = Raise(p, {Saving})
             /\ Begin("saveColors", One(Put(p.visit, p.colors)), None, {Saving})
    BY <1>1, <1>4, <2>2, BeginMoves, PlainRequests
  <2> QED
    BY <1>4, <2>1, <2>2 DEF SaveColors
<1>5. CASE PickColor \/ ColorTimerFires
  <2>1. PICK p : Keeps(p) /\ SaveColors(p) /\ UNCHANGED dialog
    <3>1. \A c : Keeps(PickedColor(page, c))
      BY <1>1 DEF PickedColor
    <3>2. Keeps([page EXCEPT !.colorTimer = FALSE])
      BY <1>1
    <3> QED
      BY <1>5, <3>1, <3>2 DEF PickColor, ColorTimerFires
  <2> QED
    BY <1>4, <2>1
<1>6. CASE ServePicture
  <2>1. PICK j \in DOMAIN tasks : \E k \in Waiting(j) : \E reply :
            tasks[j].ask[k].op = "special" /\ GiveReply(j, k, reply) /\ UNCHANGED <<page, dialog>>
    BY <1>6 DEF ServePicture, Refuse
  <2> QED
    BY <2>1 DEF Replies, Moves
<1>7. CASE ColorsSaved(i)
  <2> DEFINE known == KnownColors(page, Settled(i, "only", page.colors))
  <2>1. Done(i) /\ tasks[i].fn = "saveColors" /\ tasks[i].lower = {Saving} /\ UNCHANGED dialog
    BY <1>2, <1>7 DEF ColorsSaved
  <2>2. Keeps(known)
    BY <1>1 DEF KnownColors
  <2>3. \/ /\ page' = [known EXCEPT !.busy = @ \ {Queued}]
           /\ \E k, v : Await(i, "saveColors", One(Put(k, v)), None, {Saving})
        \/ page' = Lower(known, i) /\ End(i)
    BY <1>7 DEF ColorsSaved
  <2> HIDE DEF known
  <2>4. CASE page' = Lower(known, i) /\ End(i)
    BY <1>1, <2>1, <2>2, <2>4, EndMoves
  <2>5. ASSUME NEW k, NEW v, page' = [known EXCEPT !.busy = @ \ {Queued}],
               Await(i, "saveColors", One(Put(k, v)), None, {Saving})
        PROVE  Moves
    <3>1. Saving \in page.busy
      BY <2>1 DEF Inv, FlagsFall, Done
    <3>2. SameFrame /\ page'.busy = page.busy \ {Queued}
      BY <1>1, <2>2, <2>5
    <3>3. Flags(tasks[i].lower \ {Saving}, {Saving})
      BY <2>1, <3>1, <3>2 DEF Flags, Firm
    <3>4. Continues(i, "saveColors", One(Put(k, v)), None, {Saving})
      BY <2>1, <2>5, <3>3, PlainRequests DEF Continues
    <3> QED
      BY <3>4 DEF Moves
  <2> QED
    BY <2>3, <2>4, <2>5
<1>8. CASE ColorsRead(i)
  BY <1>1, <1>2, <1>8, EndMoves DEF ColorsRead, KnownColors
<1>9. \A fn, look, lower : fn \notin Askers =>
            Sends(fn, LoadPicture(look)) /\ Sends(fn, Beside(LoadPicture(look), lower))
  <2>1. \A fn, look : fn \notin Askers => Sends(fn, LoadPicture(look))
    BY PlainRequests DEF LoadPicture, Sends, Nothing
  <2>2. ASSUME NEW fn, NEW ask, NEW lower, Sends(fn, ask)
        PROVE  Sends(fn, Beside(ask, lower))
    BY <2>2 DEF Sends, Beside, Extend, Get
  <2> QED
    BY <2>1, <2>2
<1>10. \A fn, look, lower : fn \notin Askers =>
            Sends(fn, One(Choose(look))) /\ Sends(fn, Beside(One(Choose(look)), lower))
  BY DEF Beside, Sends, Choose, Get, Extend, One
<1>11. ASSUME NEW fn \in {"preview", "postLook"}, NEW ask, NEW mem, NEW lower, NEW p, SameFields(p),
              page.busy \ {HistoryLoading} \subseteq p.busy,
              p.busy \subseteq (page.busy \ (tasks[i].lower \ lower)) \cup lower,
              page' = p, Await(i, fn, ask, mem, lower), Sends(fn, ask), UNCHANGED dialog,
              lower \subseteq tasks[i].lower \cup {"applying", HistoryLoading},
              Done(i), tasks[i].fn \notin Askers
       PROVE  Moves
  <2>1. tasks[i].lower \cap ExclusiveFlags \subseteq page.busy
    BY <1>11 DEF Inv, FlagsFall, Done
  <2>2. Flags(tasks[i].lower \ lower, lower)
    BY <1>11, <2>1 DEF Flags, Firm, SameFields
  <2>3. Continues(i, fn, ask, mem, lower)
    BY <1>11, <2>2 DEF Continues
  <2> QED
    BY <2>3 DEF Moves
<1>12. ASSUME NEW p, DOMAIN p = DOMAIN page, p.kind = page.kind, NEW flags
       PROVE  /\ DOMAIN Raise(Applying(p), flags) = DOMAIN page /\ Raise(Applying(p), flags).kind = page.kind
              /\ Raise(Applying(p), flags).busy = p.busy \cup {"applying"} \cup flags
  BY <1>1, <1>12 DEF Applying
\* The history that has been read beside, or not.
<1> DEFINE read == HistoryShown(i, page)
<1>31. /\ SameFields(read) /\ read.busy = page.busy \ (tasks[i].lower \cap {HistoryLoading})
       /\ \A v : /\ SameFields([read EXCEPT !.shown = v]) /\ [read EXCEPT !.shown = v].busy = read.busy
                 /\ SameFields([read EXCEPT !.draft = v]) /\ [read EXCEPT !.draft = v].busy = read.busy
                 /\ SameFields([read EXCEPT !.historyBusy = v]) /\ [read EXCEPT !.historyBusy = v].busy = read.busy
  BY <1>1 DEF HistoryShown, SameFields
<1>32. ASSUME NEW p, SameFields(p), p.busy = read.busy, page' = Lower(p, i), End(i), Done(i), UNCHANGED dialog,
              tasks[i].fn \notin Askers
       PROVE  Moves
  BY <1>1, <1>31, <1>32, EndMoves DEF SameFields
<1> HIDE DEF read
<1>33. ASSUME NEW p, SameFields(p), p.busy = read.busy, NEW then, Preview(i, p, then, StillToLower(i)),
              Done(i), tasks[i].fn \notin Askers, UNCHANGED dialog
       PROVE  Moves
  BY <1>9, <1>11, <1>31, <1>33 DEF Preview, StillToLower
<1>13. CASE Previewed(i)
  <2> DEFINE p(v) == [read EXCEPT !.shown = v]
             beside == IF "uploading" \in tasks[i].lower THEN {HistoryLoading} ELSE {}
             q(v) == Raise(Applying(p(v)), beside)
             lower == StillToLower(i) \cup {"applying"} \cup beside
  <2>1. Done(i) /\ tasks[i].fn = "preview" /\ UNCHANGED dialog
    BY <1>2, <1>13 DEF Previewed
  <2>2. PICK v : \/ page' = Lower(p(v), i) /\ End(i)
                 \/ Preview(i, q(v), "post", lower)
                 \/ PostLook(i, q(v), InUse(q(v).draft), lower)
                 \/ PostLook(i, p(v), tasks[i].mem.look, StillToLower(i))
                 \/ Preview(i, p(v), "forgotten", StillToLower(i))
                 \/ page' = Lower([p(v) EXCEPT !.historyBusy = None], i) /\ End(i)
    BY <1>13 DEF Previewed, read
  <2>3. SameFields(p(v)) /\ p(v).busy = read.busy
    BY <1>31
  <2>4. SameFields([p(v) EXCEPT !.historyBusy = None]) /\ [p(v) EXCEPT !.historyBusy = None].busy = read.busy
    BY <1>1, <2>3 DEF SameFields
  <2>5. SameFields(q(v)) /\ q(v).busy = read.busy \cup {"applying"} \cup beside
    <3> HIDE DEF p, beside
    <3> QED
      BY <1>12, <2>3 DEF SameFields
  <2> HIDE DEF p, q
  <2>6. ASSUME NEW fn \in {"preview", "postLook"}, NEW ask, NEW mem, Sends(fn, ask),
               page' = q(v), Await(i, fn, ask, mem, lower)
        PROVE  Moves
    <3>1. q(v).busy \subseteq (page.busy \ (tasks[i].lower \ lower)) \cup lower
          /\ page.busy \ {HistoryLoading} \subseteq q(v).busy
          /\ lower \subseteq tasks[i].lower \cup {"applying", HistoryLoading}
      BY <1>31, <2>5 DEF StillToLower
    <3> HIDE DEF lower
    <3> QED
      BY <1>11, <2>1, <2>5, <2>6, <3>1
  <2>7. CASE Preview(i, q(v), "post", lower)
    BY <1>9, <2>6, <2>7 DEF Preview
  <2>8. CASE PostLook(i, q(v), InUse(q(v).draft), lower)
    BY <1>10, <2>6, <2>8 DEF PostLook
  <2>9. CASE PostLook(i, p(v), tasks[i].mem.look, StillToLower(i))
    BY <1>10, <1>11, <1>31, <2>1, <2>3, <2>9 DEF PostLook, StillToLower
  <2> HIDE DEF lower
  <2> QED
    BY <1>32, <1>33, <2>1, <2>2, <2>3, <2>4, <2>7, <2>8, <2>9
<1>14. CASE LookPosted(i)
  <2>1. Done(i) /\ tasks[i].fn = "postLook" /\ UNCHANGED dialog
    BY <1>2, <1>14 DEF LookPosted
  <2>2. \/ \E v : Preview(i, [read EXCEPT !.draft = v], "end", StillToLower(i))
        \/ page' = Lower(read, i) /\ End(i)
    BY <1>14 DEF LookPosted, read
  <2> QED
    BY <1>31, <1>32, <1>33, <2>1, <2>2
<1>15. ASSUME NEW p, Keeps(p), PreviewDraft(p)
       PROVE  Moves
  BY <1>1, <1>9, <1>15, BeginMoves DEF PreviewDraft
<1>16. CASE PickBackgroundColor \/ SlideBackground \/ SetTheme
  <2>1. Keeps(page) /\ (\A m, u : Keeps([page EXCEPT !.draft.mode = m, !.draft.url = u]))
        /\ (\A t : Keeps([page EXCEPT !.theme = t]))
    BY <1>1
  <2> HIDE DEF Keeps
  <2> QED
    BY <1>15, <1>16, <2>1 DEF PickBackgroundColor, SlideBackground, SetTheme
<1>17. CASE ApplyBackground
  <2>1. PICK p \in {[page EXCEPT !.draft.mode = "url"], page} :
            /\ page' = Applying(p)
            /\ \/ \E look, mem : Begin("preview", LoadPicture(look), mem, {"applying"})
               \/ \E look : Begin("postLook", One(Choose(look)), None, {"applying"})
    BY <1>17 DEF ApplyBackground
  <2>2. UNCHANGED dialog
    BY <1>17 DEF ApplyBackground
  <2>3. Keeps(p) /\ Applying(p).busy = p.busy \cup {"applying"}
        /\ DOMAIN Applying(p) = DOMAIN page /\ Applying(p).kind = page.kind
    BY <1>1, <2>1 DEF Applying
  <2>4. ASSUME NEW fn \in {"preview", "postLook"}, NEW ask, NEW mem, Sends(fn, ask),
               Begin(fn, ask, mem, {"applying"})
        PROVE  Moves
    BY <1>1, <1>12, <2>1, <2>2, <2>3, <2>4, BeginMoves
  <2>5. (\A look : Sends("preview", LoadPicture(look))) /\ \A look : Sends("postLook", One(Choose(look)))
    BY <1>9, <1>10
  <2> QED
    BY <2>1, <2>4, <2>5
<1>18. CASE UploadPicture
  <2>1. Sends("upload", One(Upload))
    BY DEF Sends, One, Upload
  <2> QED
    BY <1>1, <1>18, <2>1, BeginMoves DEF UploadPicture, BackgroundIdle, BackgroundInReach
<1>19. CASE Uploaded(i)
  <2>1. Done(i) /\ tasks[i].fn = "upload" /\ UNCHANGED dialog
    BY <1>2, <1>19 DEF Uploaded
  <2>2. CASE page' = Lower(page, i) /\ End(i)
    BY <1>1, <2>1, <2>2, EndMoves
  <2>3. ASSUME NEW v, Preview(i, [page EXCEPT !.draft.mode = "upload", !.draft.upload = v], "apply", tasks[i].lower)
        PROVE  Moves
    <3> DEFINE p == [page EXCEPT !.draft.mode = "upload", !.draft.upload = v]
    <3>1. SameFields(p) /\ p.busy = page.busy
      BY <1>1 DEF SameFields
    <3>2. page' = p /\ \E ask, mem : Sends("preview", ask) /\ Await(i, "preview", ask, mem, tasks[i].lower)
      BY <1>9, <2>3 DEF Preview
    <3> HIDE DEF p
    <3> QED
      BY <1>11, <2>1, <3>1, <3>2
  <2> QED
    BY <1>19, <2>2, <2>3 DEF Uploaded
<1>20. CASE UseHistory
  <2>1. PICK n, mem, look :
            /\ page' = [page EXCEPT !.draft.mode = "upload", !.draft.upload = n]
            /\ Begin("preview", LoadPicture(look), mem, {}) /\ UNCHANGED dialog
    BY <1>20 DEF UseHistory
  <2> QED
    BY <1>1, <1>9, <2>1, BeginMoves
<1>21. CASE ToggleHistory
  <2>1. PICK b : LET p == [page EXCEPT !.historyOpen = b]
                 IN  \/ page' = p /\ UNCHANGED tasks
                     \/ /\ page' = Raise(p, {HistoryLoading})
                        /\ Begin("loadHistory", One(Get("history")), None, {HistoryLoading})
    BY <1>21 DEF ToggleHistory
  <2>2. UNCHANGED dialog
    BY <1>21 DEF ToggleHistory
  <2>3. CASE page' = [page EXCEPT !.historyOpen = b] /\ UNCHANGED tasks
    BY <1>1, <2>2, <2>3, QuietMoves
  <2>4. CASE /\ page' = Raise([page EXCEPT !.historyOpen = b], {HistoryLoading})
             /\ Begin("loadHistory", One(Get("history")), None, {HistoryLoading})
    BY <1>1, <2>2, <2>4, BeginMoves, PlainRequests
  <2> QED
    BY <2>1, <2>3, <2>4
<1>22. CASE HistoryRead(i)
  BY <1>1, <1>2, <1>22, EndMoves DEF HistoryRead
<1>23. CASE DeleteHistory
  BY <1>23, AskMoves DEF DeleteHistory, HistoryInReach, BackgroundInReach, Want
<1>24. CASE ForgetAnswered(i)
  <2>1. Done(i) /\ tasks[i].fn = "askForget" /\ tasks[i].lower = {} /\ UNCHANGED dialog
    BY <1>2, <1>24 DEF ForgetAnswered
  <2>2. Sends("forget", One(Forget(tasks[i].mem)))
    BY DEF Sends, One, Forget
  <2> QED
    BY <1>1, <1>24, <2>1, <2>2, EndMoves, KeepMoves DEF ForgetAnswered
<1>25. \A p, fn : fn \notin Askers => Sends(fn, BackgroundReads(p))
  BY PlainRequests DEF BackgroundReads
<1>26. CASE Forgotten(i)
  <2>1. Done(i) /\ tasks[i].fn = "forget" /\ tasks[i].lower = {} /\ UNCHANGED dialog
    BY <1>2, <1>26 DEF Forgotten
  <2> QED
    BY <1>1, <1>25, <1>26, <2>1, EndMoves, KeepMoves DEF Forgotten
<1>27. CASE BackgroundRead(i)
  <2>1. Done(i) /\ tasks[i].fn = "loadBackground" /\ UNCHANGED dialog
    BY <1>2, <1>27 DEF BackgroundRead
  <2>2. \/ \E v, then : Preview(i, [read EXCEPT !.draft = v], then, StillToLower(i))
        \/ Preview(i, read, "forgotten", StillToLower(i))
        \/ page' = Lower([read EXCEPT !.historyBusy = None], i) /\ End(i)
        \/ page' = Lower(read, i) /\ End(i)
    BY <1>27 DEF BackgroundRead, read
  <2> QED
    BY <1>31, <1>32, <1>33, <2>1, <2>2
<1>28. CASE ResetAppearance
  BY <1>28, AskMoves DEF ResetAppearance, Want
<1>29. CASE ResetAnswered(i)
  <2>1. Done(i) /\ tasks[i].fn = "askReset" /\ tasks[i].lower = {} /\ UNCHANGED dialog
    BY <1>2, <1>29 DEF ResetAnswered
  <2> DEFINE ask == [k \in {"text", "button", Background} |->
                        IF k = Background THEN Choose(Plain) ELSE Put(k, DefaultColors)]
  <2>2. \/ /\ Reply(i).val /\ Await(i, "postReset", ask, None, {})
           /\ page' = [page EXCEPT !.theme = "light", !.colors = DefaultColors, !.draft = Plain,
                                   !.shown = Plain, !.historyOpen = FALSE]
        \/ page' = page /\ End(i)
    BY <1>29 DEF ResetAnswered
  <2>3. Sends("postReset", ask)
    BY DEF Sends, Choose, Put
  <2> HIDE DEF ask
  <2> QED
    BY <1>1, <2>1, <2>2, <2>3, EndMoves, KeepMoves
<1>30. CASE ResetPosted(i)
  BY <1>1, <1>2, <1>30, EndMoves DEF ResetPosted
<1> QED
  BY <1>3, <1>5, <1>6, <1>7, <1>8, <1>13, <1>14, <1>16, <1>17, <1>18, <1>19, <1>20, <1>21, <1>22, <1>23, <1>24,
     <1>26, <1>27, <1>28, <1>29, <1>30
  DEF AppearanceEvent, AppearanceResume

LEMMA OverviewMoves ==
    ASSUME Inv, page.kind = "overview", NEW i, OverviewEvent \/ OverviewResume(i)
    PROVE  Moves
<1>1. DOMAIN page = {"kind", "mounted", "busy", "visit", "source", "sections", "detail", "slow", "total", "top",
                     "current", "warning", "poll", "popover", "closeTimer", "windows"}
  BY DEF Inv, Framed, FreshOf, OverviewFresh
<1>2. \A fn : i \in Replied(fn) => Done(i) /\ tasks[i].fn = fn /\ Raised(fn, tasks[i].mem, tasks[i].lower)
  BY RepliedDone DEF Inv, FlagsFall, Done
<1> USE DEF SameFrame, Raise, Lower, Raised, Flagless, Askers, ExclusiveFlags, CoreMode, RoutingMode, OnlyPage
<1>3. CASE OpenRankingDetail
  <2>1. PICK d, mem : /\ page' = Raise([page EXCEPT !.detail = d], {"detailLoading"})
                      /\ Begin("detailLogs", One(Get("logs")), mem, {}) /\ UNCHANGED dialog /\ Clickable
    BY <1>3 DEF OpenRankingDetail
  <2>2. Flags({}, {})
    BY <1>1, <2>1 DEF Flags, Firm
  <2>3. Starts("detailLogs", One(Get("logs")), mem, {})
    BY <2>1, <2>2, PlainRequests DEF Starts
  <2> QED
    BY <2>3 DEF Moves
<1>4. CASE CloseRankingDetail
  <2>1. SameFrame /\ page'.busy = page.busy \ {"detailLoading"} /\ UNCHANGED <<tasks, dialog>>
    BY <1>1, <1>4 DEF CloseRankingDetail, DetailClosed
  <2>2. Quiet
    BY <2>1 DEF Quiet, Flags, Firm
  <2> QED
    BY <2>2 DEF Moves
<1>5. CASE ShowSlowDetail \/ DismissPopover \/ PointerMoves \/ PopoverCloses \/ ServerAudits
  BY <1>1, <1>5, QuietMoves DEF ShowSlowDetail, DismissPopover, PointerMoves, PopoverCloses, ServerAudits
<1>6. ASSUME RefreshMetrics(page), UNCHANGED dialog
      PROVE  Moves
  <2>1. CASE page' = page /\ UNCHANGED tasks
    BY <1>6, <2>1, QuietMoves
  <2> DEFINE ask == [k \in {"count", "sample"} |-> Get("stats")]
  <2>2. CASE "inFlight" \notin page.busy /\ page' = Raise(page, {"inFlight"}) /\ Begin("refreshMetrics", ask, None, {"inFlight"})
    <3>1. Sends("refreshMetrics", ask)
      BY DEF Sends, Get
    <3> HIDE DEF ask
    <3> QED
      BY <1>1, <1>6, <2>2, <3>1, BeginMoves
  <2> QED
    BY <1>6, <2>1, <2>2 DEF RefreshMetrics
<1>7. CASE MetricsPoll
  BY <1>6, <1>7 DEF MetricsPoll
<1>8. ASSUME NEW old, OpenPopover(old)
      PROVE  Moves
  <2>1. DOMAIN Opened = DOMAIN page /\ Opened.kind = page.kind /\ Opened.busy = page.busy
    BY <1>1 DEF Opened
  <2> QED
    BY <1>1, <1>8, <2>1, QuietMoves, BeginMoves, PlainRequests DEF OpenPopover
<1>9. CASE TriggerEnter
  BY <1>8, <1>9 DEF TriggerEnter
<1>10. CASE TogglePopover
  <2>1. CASE OpenPopover(TRUE)
    BY <1>8, <2>1
  <2>2. CASE page' = [page EXCEPT !.popover = FALSE, !.closeTimer = FALSE] /\ OnlyPage
    BY <1>1, <2>2, QuietMoves
  <2> QED
    BY <1>10, <2>1, <2>2 DEF TogglePopover
<1>11. CASE OverviewRefresh
  BY <1>1, <1>6, <1>11, BeginMoves, PlainRequests DEF OverviewRefresh, ReloadOverview, OverviewReads
<1>12. CASE OverviewRead(i)
  <2>1. UNCHANGED dialog /\ tasks[i].fn = "reloadOverview" /\ i \in DOMAIN tasks
    BY <1>12 DEF OverviewRead, Replied, Rejected
  <2>2. DOMAIN OverviewShown(i) = DOMAIN page /\ OverviewShown(i).kind = page.kind /\ OverviewShown(i).busy = page.busy
    BY <1>1 DEF OverviewShown
  <2>3. \/ page' = Lower(page, i) /\ End(i)
        \/ page' = Lower(OverviewShown(i), i) /\ End(i)
        \/ Done(i) /\ page' = page /\ Await(i, "rankBySet", One(Get("domainSet")), None, tasks[i].lower)
    BY <1>2, <1>12 DEF OverviewRead
  <2>4. CASE page' = Lower(page, i) /\ End(i)
    BY <1>1, <2>1, <2>4, EarlyEndMoves
  <2>5. CASE page' = Lower(OverviewShown(i), i) /\ End(i)
    BY <1>1, <2>1, <2>2, <2>5, EarlyEndMoves
  <2>6. CASE Done(i) /\ page' = page /\ Await(i, "rankBySet", One(Get("domainSet")), None, tasks[i].lower)
    BY <2>1, <2>6, KeepMoves, PlainRequests
  <2> QED
    BY <2>3, <2>4, <2>5, <2>6
<1>13. CASE RankBySetRead(i)
  BY <1>1, <1>2, <1>13, EndMoves DEF RankBySetRead
<1>14. CASE DetailRead(i)
  <2>1. Done(i) /\ tasks[i].lower = {} /\ End(i) /\ UNCHANGED dialog
    BY <1>2, <1>14 DEF DetailRead
  <2>2. PICK p : /\ DOMAIN p = DOMAIN page /\ p.kind = page.kind /\ p.busy = page.busy
                 /\ page' = DetailEnded(p, tasks[i].mem)
    <3>1. \A v : LET p == [page EXCEPT !.detail.rows = v]
                IN  DOMAIN p = DOMAIN page /\ p.kind = page.kind /\ p.busy = page.busy
      BY <1>1
    <3> QED
      BY <1>14, <3>1 DEF DetailRead
  <2>3. SameFrame /\ page'.busy \subseteq page.busy /\ page.busy \subseteq page'.busy \cup {"detailLoading"}
    BY <1>1, <2>2 DEF DetailEnded
  <2>4. Ends(i)
    BY <2>1, <2>3 DEF Ends, Over, Done, Flags, Firm
  <2> QED
    BY <2>4 DEF Moves
<1>15. CASE TrendRead(i)
  <2>1. SameFrame /\ page'.busy = page.busy \ tasks[i].lower
    BY <1>1, <1>15 DEF TrendRead, MetricsShown
  <2> QED
    BY <1>2, <1>15, <2>1, EndMoves DEF TrendRead
<1>16. CASE WindowStatsRead(i)
  BY <1>1, <1>2, <1>16, EndMoves DEF WindowStatsRead
<1> QED
  BY <1>3, <1>4, <1>5, <1>7, <1>9, <1>10, <1>11, <1>12, <1>13, <1>14, <1>15, <1>16
  DEF OverviewEvent, OverviewResume

LEMMA ShellMoves ==
    ASSUME Inv, page.kind = "shell", NEW i, ShellEvent \/ ShellResume(i)
    PROVE  Moves
<1>1. DOMAIN page = {"kind", "mounted", "busy", "enabled", "interval", "hidden", "refreshTimer", "refreshing",
                     "notice", "noticeTimer", "fading", "history", "reload"}
  BY DEF Inv, Framed, FreshOf, ShellFresh
<1>2. \A fn : i \in Replied(fn) => Done(i) /\ tasks[i].fn = fn /\ Raised(fn, tasks[i].mem, tasks[i].lower)
  BY RepliedDone DEF Inv, FlagsFall, Done
<1> USE DEF SameFrame, Raise, Lower, Raised, Flagless, Askers, ExclusiveFlags, CoreMode, RoutingMode, OnlyPage
<1> DEFINE Keeps(p) == DOMAIN p = DOMAIN page /\ p.kind = page.kind /\ p.busy = page.busy
<1>3. ASSUME NEW p, Keeps(p)
      PROVE  Keeps(StartAutoRefresh(p)) /\ Keeps(WithoutNotice(p)) /\ \A m : Keeps(WithNotice(p, m))
  <2>1. Keeps(StopAutoRefresh(p)) /\ Keeps(StopFading(p))
    BY <1>1, <1>3 DEF StopAutoRefresh, StopFading
  <2>2. ASSUME NEW q, Keeps(q), NEW n, NEW b
        PROVE  Keeps([q EXCEPT !.refreshing = n, !.refreshTimer = b])
    BY <1>1, <2>2
  <2> QED
    BY <1>1, <2>1 DEF StartAutoRefresh, WithNotice, WithoutNotice
<1>4. Keeps(page) /\ (\A e, n : Keeps([page EXCEPT !.enabled = e, !.interval = n]))
      /\ (\A h : Keeps([page EXCEPT !.hidden = h])) /\ (\A h, r : Keeps([page EXCEPT !.history = h, !.reload = r]))
  BY <1>1
<1> HIDE DEF Keeps
<1>5. ASSUME Keeps(page'), OnlyPage
      PROVE  Moves
  BY <1>5, QuietMoves DEF Keeps
<1>6. CASE SetAutoRefresh \/ VisibilityChange \/ PageReports
  <2>1. CASE SetAutoRefresh
    BY <1>3, <1>4, <1>5, <2>1 DEF SetAutoRefresh, ApplyAutoRefresh
  <2>2. CASE VisibilityChange
    BY <1>3, <1>4, <1>5, <2>2 DEF VisibilityChange
  <2>3. CASE PageReports
    <3>1. PICK p \in {WithNotice(page, "success"), WithNotice(page, "error"), WithoutNotice(page)} :
                page' = p /\ OnlyPage
      BY <2>3 DEF PageReports
    <3>2. \A m : Keeps(WithNotice(page, m)) /\ Keeps(WithoutNotice(page))
      BY <1>3, <1>4
    <3> QED
      BY <1>5, <3>1, <3>2
  <2> QED
    BY <1>6, <2>1, <2>2, <2>3
<1>7. CASE NoticeFades
  BY <1>1, <1>5, <1>7 DEF NoticeFades, Keeps
<1>8. CASE TriggerOverviewReset
  BY <1>8, AskMoves DEF TriggerOverviewReset, Want
<1>9. CASE ReloadShell
  <2>1. Reloads
    BY <1>1, <1>9 DEF ReloadShell, ShellFresh, Reloads
  <2> QED
    BY <2>1 DEF Moves
<1>10. CASE OverviewResetAnswered(i)
  <2>1. Done(i) /\ tasks[i].fn = "askOverviewReset" /\ tasks[i].lower = {} /\ UNCHANGED dialog
    BY <1>2, <1>10 DEF OverviewResetAnswered
  <2>2. CASE ~Reply(i).val
    BY <1>1, <1>10, <2>1, <2>2, EndMoves DEF OverviewResetAnswered
  <2>3. CASE Reply(i).val
    <3>1. Want(tasks[i].fn, tasks[i].mem) = {"overviewResetting"}
      BY <2>1 DEF Want
    <3> QED
      BY <1>1, <1>10, <2>1, <2>3, <3>1, DropMoves, PlainRequests DEF OverviewResetAnswered
  <2> QED
    BY <2>2, <2>3
<1>11. CASE OverviewResetPosted(i)
  <2>1. PICK p : Keeps(p) /\ page' = Lower(p, i)
    BY <1>3, <1>4, <1>11 DEF OverviewResetPosted
  <2>2. Done(i) /\ End(i) /\ UNCHANGED dialog
    BY <1>2, <1>11 DEF OverviewResetPosted
  <2> QED
    BY <1>1, <2>1, <2>2, EndMoves DEF Keeps
<1> QED
  BY <1>6, <1>7, <1>8, <1>9, <1>10, <1>11 DEF ShellEvent, ShellResume

-----------------------------------------------------------------------------
(* Opening and leaving a page.                                              *)

LEMMA NobodyWaits ==
    ASSUME Questions, FlagsFall, tasks = Nothing
    PROVE  Firm(page) = {} /\ page.busy \cap ExclusiveFlags = {} /\ dialog = None
<1>1. DOMAIN tasks = {}
  BY DEF Nothing
<1>2. Firm(page) = {}
  BY <1>1 DEF FlagsFall
<1>3. dialog = None
  BY <1>1 DEF Questions
<1> QED
  BY <1>2, <1>3, ExclusiveFirm

LEMMA FreshFrames ==
    ASSUME Framed
    PROVE  /\ DOMAIN FreshOf(page.kind) = DOMAIN page
           /\ FreshOf(page.kind).kind = page.kind /\ FreshOf(page.kind).busy = {}
           /\ {"kind", "mounted", "busy"} \subseteq DOMAIN page
BY DEF Framed, Kinds, FreshOf, ListFresh, LogFresh, UpstreamFresh, TablesFresh, RequeryFresh, RulesFresh,
       SwitchFresh, SystemFresh, AppearanceFresh, OverviewFresh, ShellFresh

LEMMA MountMoves ==
    ASSUME Inv, Mount
    PROVE  Moves
<1>1. Firm(page) = {} /\ page.busy \cap ExclusiveFlags = {} /\ UNCHANGED dialog
  BY NobodyWaits DEF Inv, Mount
<1>2. /\ DOMAIN FreshOf(page.kind) = DOMAIN page
      /\ FreshOf(page.kind).kind = page.kind /\ FreshOf(page.kind).busy = {}
      /\ {"kind", "mounted", "busy"} \subseteq DOMAIN page
  BY FreshFrames DEF Inv
<1> DEFINE Fresh(p) == DOMAIN p = DOMAIN page /\ p.kind = page.kind /\ p.busy = {}
<1>3. ASSUME NEW fn, NEW ask, NEW mem, NEW lower, SameFrame, page'.busy = lower,
             Begin(fn, ask, mem, lower), Sends(fn, ask), Raised(fn, mem, lower),
             lower \cap ExclusiveFlags \subseteq {"inFlight", Saving}
      PROVE  Moves
  <2>2. Flags({}, lower)
    BY <1>1, <1>3 DEF Flags, Firm
  <2>3. Starts(fn, ask, mem, lower)
    BY <1>1, <1>3, <2>2 DEF Starts
  <2> QED
    BY <2>3 DEF Moves
<1>4. \A p, lower : Fresh(p) /\ page' = Raise(p, lower) => SameFrame /\ page'.busy = lower
  BY <1>2 DEF SameFrame, Raise
<1> USE DEF Raised, Flagless, Askers, ExclusiveFlags, CoreMode, RoutingMode
<1>5. CASE page.kind = "list" /\ ListMounted
  <2>1. SameFrame /\ page'.busy = {}
    BY <1>2, <1>5 DEF ListMounted, FreshOf, SameFrame
  <2> QED
    BY <1>3, <1>5, <2>1, PlainRequests DEF ListMounted
<1>6. CASE page.kind = "log" /\ LogMounted
  <2>1. SameFrame /\ page'.busy = {}
    BY <1>2, <1>6 DEF LogMounted, FreshOf, SameFrame
  <2>2. Begin("logMount", LogMountReads, None, {}) /\ Sends("logMount", LogMountReads)
    BY <1>6, PlainRequests DEF LogMounted, LogMountReads
  <2> QED
    BY <1>3, <2>1, <2>2
<1>7. CASE page.kind = "upstream" /\ UpstreamMounted
  <2>1. \A v : Fresh([UpstreamFresh EXCEPT !.visit = v])
    BY <1>2, <1>7 DEF FreshOf
  <2>2. PICK v : /\ page' = Raise([UpstreamFresh EXCEPT !.visit = v], {"loading"})
                 /\ Begin("loadUpstreams", UpstreamReadsOf(v), None, {"loading"})
    BY <1>7 DEF UpstreamMounted
  <2>3. Sends("loadUpstreams", UpstreamReadsOf(v))
    BY PlainRequests DEF UpstreamReadsOf
  <2>4. SameFrame /\ page'.busy = {"loading"}
    BY <1>2, <2>1, <2>2 DEF SameFrame, Raise
  <2> QED
    BY <1>3, <2>2, <2>3, <2>4
<1>8. CASE page.kind = "tables" /\ TablesMounted
  <2>1. \A v : Fresh([TablesFresh EXCEPT !.visit = v])
    BY <1>2, <1>8 DEF FreshOf
  <2>2. PICK p : Fresh(p) /\ ReloadTables(p)
    BY <1>8, <2>1 DEF TablesMounted
  <2> HIDE DEF Fresh
  <2>3. ASSUME NEW fn \in {"cacheStats", "listStats"}, NEW flag \in {"cacheRefreshing", "listStatsRefreshing"},
               NEW ask, Sends(fn, ask), page' = Raise(p, {flag}), Begin(fn, ask, None, {flag})
        PROVE  Moves
    <3>1. SameFrame /\ page'.busy = {flag}
      BY <1>4, <2>2, <2>3
    <3> QED
      BY <1>3, <2>3, <3>1
  <2>4. Sends("cacheStats", CacheReads) /\ Sends("listStats", One(Get("lists")))
    BY PlainRequests DEF CacheReads
  <2> QED
    BY <2>2, <2>3, <2>4 DEF ReloadTables
<1>9. CASE page.kind = "requery" /\ RequeryMounted
  <2>1. Fresh(RequeryFresh)
    BY <1>2, <1>9 DEF FreshOf
  <2>2. SameFrame /\ page'.busy = {"requeryStatusRefreshing"}
    BY <1>4, <1>9, <2>1 DEF RequeryMounted, AskStatus
  <2>3. Sends("requeryStatus", StatusReads)
    BY PlainRequests DEF StatusReads
  <2> QED
    BY <1>3, <1>9, <2>2, <2>3 DEF RequeryMounted
<1>10. CASE page.kind = "rules" /\ RulesMounted
  <2>1. \A m : Fresh([RulesFresh EXCEPT !.mode = m])
    BY <1>2, <1>10 DEF FreshOf
  <2>2. PICK p : Fresh(p) /\ ReloadRules(p)
    BY <1>10, <2>1 DEF RulesMounted
  <2> HIDE DEF Fresh
  <2>3. ASSUME NEW fn \in {"ruleGroups", "adguardRules"}, NEW k, NEW flag \in {"special", "adguard"},
               page' = Raise(p, {flag}), Begin(fn, One(Get(k)), None, {flag})
        PROVE  Moves
    <3>1. SameFrame /\ page'.busy = {flag}
      BY <1>4, <2>2, <2>3
    <3>2. Sends(fn, One(Get(k)))
      BY PlainRequests
    <3> QED
      BY <1>3, <2>3, <3>1, <3>2
  <2> QED
    BY <2>2, <2>3 DEF ReloadRules, AdGuard
<1>11. CASE page.kind = "switches" /\ SwitchesMounted
  <2>1. \A v : Fresh([SwitchFresh EXCEPT !.visit = v])
    BY <1>2, <1>11 DEF FreshOf
  <2>2. PICK v : /\ page' = Raise([SwitchFresh EXCEPT !.visit = v], {"loading"})
                 /\ Begin("switchReads", SwitchReads(v), None, {"loading"})
    BY <1>11 DEF SwitchesMounted
  <2>3. Sends("switchReads", SwitchReads(v))
    BY PlainRequests DEF SwitchReads
  <2>4. SameFrame /\ page'.busy = {"loading"}
    BY <1>2, <2>1, <2>2 DEF SameFrame, Raise
  <2> QED
    BY <1>3, <2>2, <2>3, <2>4
<1>12. CASE page.kind = "system" /\ SystemMounted
  <2>1. \A v : Fresh([SystemFresh EXCEPT !.visit = v])
    BY <1>2, <1>12 DEF FreshOf
  <2>2. PICK v, flags : /\ page' = Raise([SystemFresh EXCEPT !.visit = v], flags)
                        /\ Begin("systemReads", SystemReads(v), None, flags)
                        /\ flags \subseteq {"loading", "portLoading"}
    BY <1>12 DEF SystemMounted, LoadFlags
  <2>3. Sends("systemReads", SystemReads(v))
    BY PlainRequests DEF SystemReads
  <2>4. SameFrame /\ page'.busy = flags
    BY <1>4, <2>1, <2>2
  <2> QED
    BY <1>3, <2>2, <2>3, <2>4
<1>13. CASE page.kind = "appearance" /\ AppearanceMounted
  <2>1. \A v : Fresh([AppearanceFresh EXCEPT !.visit = v])
    BY <1>2, <1>13 DEF FreshOf
  <2>2. PICK v : LET p == [AppearanceFresh EXCEPT !.visit = v]
                 IN  \/ /\ page' = Raise(p, {HistoryLoading})
                        /\ Begin("loadBackground", BackgroundReads(p), None, {HistoryLoading})
                     \/ page' = p /\ Begin("loadColors", One(Get(v)), None, {})
    BY <1>13 DEF AppearanceMounted
  <2> DEFINE p == [AppearanceFresh EXCEPT !.visit = v]
  <2>3. Fresh(p)
    BY <2>1
  <2> HIDE DEF p
  <2>4. CASE /\ page' = Raise(p, {HistoryLoading})
             /\ Begin("loadBackground", BackgroundReads(p), None, {HistoryLoading})
    <3>1. Sends("loadBackground", BackgroundReads(p))
      BY PlainRequests DEF BackgroundReads
    <3>2. SameFrame /\ page'.busy = {HistoryLoading}
      BY <1>4, <2>3, <2>4
    <3> QED
      BY <1>3, <2>4, <3>1, <3>2 DEF HistoryLoading
  <2>5. CASE page' = p /\ Begin("loadColors", One(Get(v)), None, {})
    BY <1>3, <2>3, <2>5, PlainRequests DEF SameFrame
  <2> QED
    BY <2>2, <2>4, <2>5 DEF p
<1>14. CASE page.kind = "overview" /\ OverviewMounted
  <2>1. \A v, b : Fresh([OverviewFresh EXCEPT !.visit = v, !.poll = b])
    BY <1>2, <1>14 DEF FreshOf
  <2>2. PICK v, b : LET p == [OverviewFresh EXCEPT !.visit = v, !.poll = b]
                    IN  RefreshMetrics(p) \/ ReloadOverview(p)
    BY <1>14 DEF OverviewMounted
  <2> DEFINE p == [OverviewFresh EXCEPT !.visit = v, !.poll = b]
  <2>3. Fresh(p)
    BY <2>1
  <2> HIDE DEF p
  <2>4. CASE RefreshMetrics(p)
    <3> DEFINE ask == [k \in {"count", "sample"} |-> Get("stats")]
    <3>1. page' = Raise(p, {"inFlight"}) /\ Begin("refreshMetrics", ask, None, {"inFlight"})
      BY <2>3, <2>4 DEF RefreshMetrics
    <3>2. Sends("refreshMetrics", ask)
      BY DEF Sends, Get
    <3>3. SameFrame /\ page'.busy = {"inFlight"}
      BY <1>4, <2>3, <3>1
    <3> HIDE DEF ask
    <3> QED
      BY <1>3, <3>1, <3>2, <3>3
  <2>5. CASE ReloadOverview(p)
    <3>1. Sends("reloadOverview", OverviewReads(p.visit))
      BY PlainRequests DEF OverviewReads
    <3>2. SameFrame /\ page'.busy = {"overviewLoading"}
      BY <1>4, <2>3, <2>5 DEF ReloadOverview
    <3> QED
      BY <1>3, <2>5, <3>1, <3>2 DEF ReloadOverview
  <2> QED
    BY <2>2, <2>4, <2>5 DEF p
<1>15. CASE page.kind = "shell" /\ ShellMounted
  <2>1. DOMAIN page = {"kind", "mounted", "busy", "enabled", "interval", "hidden", "refreshTimer", "refreshing",
                       "notice", "noticeTimer", "fading", "history", "reload"}
    BY <1>15 DEF Inv, Framed, FreshOf, ShellFresh
  <2>2. SameFrame /\ page'.busy = page.busy /\ UNCHANGED tasks
    BY <1>15, <2>1 DEF ShellMounted, StartAutoRefresh, StopAutoRefresh, SameFrame
  <2> QED
    BY <1>1, <2>2, QuietMoves
<1> QED
  BY <1>5, <1>6, <1>7, <1>8, <1>9, <1>10, <1>11, <1>12, <1>13, <1>14, <1>15 DEF Mount

LEMMA UnmountMoves ==
    ASSUME Inv, Unmount
    PROVE  Moves
<1>1. UNCHANGED <<tasks, dialog>>
  BY DEF Unmount, OnlyPage
<1>2. /\ DOMAIN FreshOf(page.kind) = DOMAIN page
      /\ FreshOf(page.kind).kind = page.kind /\ FreshOf(page.kind).busy = {}
      /\ {"kind", "mounted", "busy"} \subseteq DOMAIN page
  BY FreshFrames DEF Inv
<1>3. CASE tasks = Nothing
  <2>1. Firm(page) = {} /\ page.busy \cap ExclusiveFlags = {}
    BY <1>3, NobodyWaits DEF Inv
  <2>2. SameFrame /\ page'.busy = {}
    BY <1>2, <1>3 DEF Unmount, SameFrame
  <2>3. Quiet
    BY <1>1, <2>1, <2>2 DEF Quiet, Flags, Firm
  <2> QED
    BY <2>3 DEF Moves
<1>4. CASE tasks # Nothing
  <2>1. page' = LeftPage
    BY <1>4 DEF Unmount
  <2>2. DOMAIN LeftPage = DOMAIN page /\ LeftPage.kind = page.kind /\ LeftPage.busy = page.busy
    BY <1>2 DEF LeftPage, LogUnmounted, TablesUnmounted, RequeryUnmounted, RulesUnmounted, RulesInView,
                SystemUnmounted, AppearanceUnmounted, OverviewUnmounted
  <2> QED
    BY <1>1, <2>1, <2>2, QuietMoves DEF SameFrame
<1> QED
  BY <1>3, <1>4

\* The log that the overview opens has nothing of the overview left.
LEMMA OpenLogFilterKeeps ==
    ASSUME Inv, OpenLogFilter
    PROVE  Framed' /\ Questions' /\ FlagsFall' /\ NoIsKept /\ page'.kind = "log" /\ page'.busy = {}
<1>1. PICK text : /\ page' = WithFilter([LogFresh EXCEPT !.wanted = text], text)
                  /\ Begin("logMount", LogMountReads, None, {}) /\ UNCHANGED dialog /\ tasks = Nothing
  BY DEF OpenLogFilter
<1>2. DOMAIN page' = DOMAIN LogFresh /\ page'.kind = "log" /\ page'.busy = {}
  BY <1>1 DEF WithFilter, LogFresh
<1>3. Framed'
  BY <1>2 DEF Framed, Kinds, FreshOf
<1>4. PICK n \in Ids \ DOMAIN tasks :
        /\ DOMAIN tasks' = DOMAIN tasks \cup {n}
        /\ tasks'[n] = Task("logMount", LogMountReads, None, {})
        /\ \A j \in DOMAIN tasks : tasks'[j] = tasks[j]
  BY <1>1, BeginAdds
<1>5. DOMAIN tasks = {}
  BY <1>1 DEF Nothing
<1>6. Sends("logMount", LogMountReads)
  BY PlainRequests DEF LogMountReads, Askers
<1>7. Questions'
  BY <1>1, <1>4, <1>6, AddedQuestions DEF Inv
<1>8. FlagsFall'
  <2>1. tasks'[n].fn = "logMount" /\ tasks'[n].mem = None /\ tasks'[n].lower = {}
    BY <1>4, TaskFields
  <2>2. Firm(page)' = {}
    BY <1>2 DEF Firm
  <2>3. Raised("logMount", None, {}) /\ DOMAIN tasks' = {n}
    BY <1>4, <1>5 DEF Raised, Flagless
  <2> QED
    BY <1>2, <2>1, <2>2, <2>3 DEF FlagsFall, OneAtATime
<1> QED
  BY <1>2, <1>3, <1>5, <1>7, <1>8 DEF NoIsKept

-----------------------------------------------------------------------------
(* Every step keeps the invariant.                                          *)

LEMMA MovesFrame ==
    ASSUME Moves
    PROVE  SameFrame
BY DEF Moves, Quiet, Starts, Asks, Continues, AsksAgain, Ends, Replies, Answers, Reloads, Flags, SameFrame

LEMMA TablesKnown ==
    ASSUME Inv, page.kind = "tables", NEW i, TablesEvent \/ TablesResume(i)
    PROVE  DOMAIN page'.rows \subseteq AllCaches
<1>1. DOMAIN page = {"kind", "mounted", "busy", "visit", "mode", "groups", "rows", "counts", "view", "searchTimer"}
  BY DEF Inv, Framed, FreshOf, TablesFresh
<1>2. DOMAIN page.rows \subseteq AllCaches
  BY DEF Inv, Known
<1>3. CASE CoreModeRead(i)
  BY <1>1, <1>3 DEF CoreModeRead, WithRows, VisibleCaches, AllCaches, Lower
<1>4. CASE ~CoreModeRead(i)
  <2> USE DEF OnlyPage, Raise, Lower
  <2>1. page'.rows = page.rows
    <3>1. CASE TablesRefresh \/ CloseDataView \/ TypeViewSearch \/ ClearCache \/ ClearAllCaches
      BY <1>1, <3>1 DEF TablesRefresh, ReloadTables, CloseDataView, TypeViewSearch, ClearCache, ClearAllCaches
    <3>2. CASE OpenDataView \/ LoadMoreDataView \/ ViewSearchFires
      BY <1>1, <3>2 DEF OpenDataView, LoadMoreDataView, ViewSearchFires, FetchDataView
    <3>3. CASE MetricsRead(i) \/ ListStatsRead(i) \/ ViewFetched(i)
      BY <1>1, <3>3 DEF MetricsRead, ListStatsRead, ViewFetched
    <3>4. CASE ClearAnswered(i) \/ CachesFlushed(i)
      BY <1>1, <3>4 DEF ClearAnswered, CachesFlushed, AskCacheStats
    <3> QED
      BY <1>4, <3>1, <3>2, <3>3, <3>4 DEF TablesEvent, TablesResume
  <2> QED
    BY <1>2, <2>1
<1> QED
  BY <1>3, <1>4

SystemParts == {AuditPart, OverridesPart, PortPart, UpdatePart}

LEMMA SystemKnown ==
    ASSUME Inv, page.kind = "system", NEW i, SystemEvent \/ SystemResume(i)
    PROVE  page'.visit \in SystemParts
<1>1. DOMAIN page = {"kind", "mounted", "busy", "visit", "capturing", "overrides", "port", "update", "watch",
                     "reload"}
  BY DEF Inv, Framed, FreshOf, SystemFresh
<1>2. page.visit \in SystemParts
  BY DEF Inv, Known, SystemParts
<1> USE DEF OnlyPage, Raise, Lower
<1>3. CASE ReloadWindow
  BY <1>3 DEF ReloadWindow, SystemFresh, SystemParts
<1>4. CASE ~ReloadWindow
  <2>1. page'.visit = page.visit
    <3>1. CASE SystemRefresh \/ AskSystem \/ ToggleAudit \/ EditOverrides \/ LoadOverrides \/ SaveOverrides
      BY <1>1, <3>1 DEF SystemRefresh, AskSystem, ToggleAudit, EditOverrides, LoadOverrides, SaveOverrides
    <3>2. CASE BackupConfig \/ CheckUpdate \/ ApplyUpdate \/ WatchProbes \/ WatchExpires \/ ServerRestarts
      BY <1>1, <3>2 DEF BackupConfig, CheckUpdate, ApplyUpdate, SendUpdate, WatchProbes, WatchExpires, ServerRestarts
    <3>3. CASE SystemRead(i)
      <4>1. DOMAIN SystemShown(i) = DOMAIN page /\ SystemShown(i).visit = page.visit
        BY <1>1, <1>2 DEF SystemShown, Visiting, SystemParts
      <4> QED
        BY <1>1, <3>3, <4>1 DEF SystemRead
    <3>4. CASE SystemAnswered(i) \/ AuditChanged(i) \/ RestartAsked(i) \/ PortPosted(i)
      BY <1>1, <3>4 DEF SystemAnswered, AuditChanged, RestartAsked, PortPosted, ReadPartAgain
    <3>5. CASE OverridesSaved(i) \/ OverridesAnswered(i) \/ BackupDone(i) \/ UpdateReplied(i) \/ Probed(i)
      BY <1>1, <3>5 DEF OverridesSaved, OverridesAnswered, BackupDone, UpdateReplied, Probed, ReadPartAgain
    <3> QED
      BY <1>4, <3>1, <3>2, <3>3, <3>4, <3>5 DEF SystemEvent, SystemResume
  <2> QED
    BY <1>2, <2>1
<1> QED
  BY <1>3, <1>4

LEMMA PagesMove ==
    ASSUME Inv, NEW i, Event \/ Resume(i)
    PROVE  Moves
BY ListMoves, LogMoves, UpstreamMoves, TablesMoves, RequeryMoves, RulesMoves, SwitchMoves, SystemMoves,
   AppearanceMoves, OverviewMoves, ShellMoves
DEF Event, Resume

LEMMA KnownKept ==
    ASSUME Inv, NEW i, SameFrame, Mount \/ Unmount \/ Event \/ Resume(i) \/ UNCHANGED page
    PROVE  Known'
<1>1. ASSUME page.kind = "tables"
      PROVE  DOMAIN page'.rows \subseteq AllCaches
  <2>1. DOMAIN page = {"kind", "mounted", "busy", "visit", "mode", "groups", "rows", "counts", "view", "searchTimer"}
    BY <1>1 DEF Inv, Framed, FreshOf, TablesFresh
  <2>2. DOMAIN page.rows \subseteq AllCaches
    BY <1>1 DEF Inv, Known
  <2>3. CASE Mount
    <3>1. PICK visit : ReloadTables([TablesFresh EXCEPT !.visit = visit])
      BY <1>1, <2>3 DEF Mount, TablesMounted
    <3>2. page'.rows = Nothing
      BY <3>1 DEF ReloadTables, Raise, TablesFresh
    <3> QED
      BY <3>2 DEF Nothing
  <2>4. CASE Unmount
    BY <1>1, <2>1, <2>2, <2>4 DEF Unmount, LeftPage, TablesUnmounted, FreshOf, TablesFresh, Nothing
  <2>5. CASE Event \/ Resume(i)
    BY <1>1, <2>5, TablesKnown DEF Event, Resume
  <2> QED
    BY <2>2, <2>3, <2>4, <2>5
<1>2. ASSUME page.kind = "system"
      PROVE  page'.visit \in SystemParts
  <2>1. DOMAIN page = {"kind", "mounted", "busy", "visit", "capturing", "overrides", "port", "update", "watch",
                       "reload"}
    BY <1>2 DEF Inv, Framed, FreshOf, SystemFresh
  <2>2. page.visit \in SystemParts
    BY <1>2 DEF Inv, Known, SystemParts
  <2>3. CASE Mount
    BY <1>2, <2>3 DEF Mount, SystemMounted, Raise, SystemFresh, SystemParts
  <2>4. CASE Unmount
    BY <1>2, <2>1, <2>2, <2>4 DEF Unmount, LeftPage, SystemUnmounted, FreshOf, SystemFresh, SystemParts
  <2>5. CASE Event \/ Resume(i)
    BY <1>2, <2>5, SystemKnown DEF Event, Resume
  <2> QED
    BY <2>2, <2>3, <2>4, <2>5
<1> QED
  BY <1>1, <1>2 DEF Known, SameFrame, SystemParts

LEMMA InitInv ==
    ASSUME WebInit
    PROVE  Inv
<1>1. PICK kind \in Pages : page = [FreshOf(kind) EXCEPT !.mounted = FALSE]
  BY DEF WebInit
<1>2. kind \in Kinds
  BY PagesAssumption DEF Kinds
<1>3. page.kind = kind /\ DOMAIN page = DOMAIN FreshOf(kind) /\ page.busy = {}
  BY <1>1, <1>2 DEF Kinds, FreshOf, ListFresh, LogFresh, UpstreamFresh, TablesFresh, RequeryFresh, RulesFresh,
                    SwitchFresh, SystemFresh, AppearanceFresh, OverviewFresh, ShellFresh
<1>4. DOMAIN tasks = {} /\ dialog = None
  BY DEF WebInit, Nothing
<1>5. Known
  BY <1>1, <1>3 DEF Known, FreshOf, TablesFresh, SystemFresh, Nothing
<1> QED
  BY <1>2, <1>3, <1>4, <1>5 DEF Inv, Framed, Questions, FlagsFall, Firm, OneAtATime

LEMMA NextInv ==
    ASSUME Inv, WebNext
    PROVE  Inv' /\ NoIsKept
<1>1. CASE OpenLogFilter
  BY <1>1, OpenLogFilterKeeps DEF Inv, Known
<1>2. CASE ~OpenLogFilter
  <2>1. Moves
    BY <1>2, MountMoves, UnmountMoves, ServerMoves, DialogMoves, PagesMove DEF WebNext
  <2>2. SameFrame
    BY <2>1, MovesFrame
  <2>3. Questions' /\ FlagsFall' /\ NoIsKept
    BY <2>1, MovesKeep DEF Inv
  <2>4. Framed'
    BY <2>2 DEF Inv, Framed, SameFrame
  <2>5. Known'
    <3>1. ServerStep \/ DialogStep => UNCHANGED page
      BY DEF ServerStep, Serve, Refuse, LoseReply, DialogStep, AnswerDialog
    <3> QED
      BY <1>2, <2>2, <3>1, KnownKept DEF WebNext
  <2> QED
    BY <2>3, <2>4, <2>5 DEF Inv
<1> QED
  BY <1>1, <1>2

LEMMA StutterInv ==
    ASSUME Inv, UNCHANGED webVars
    PROVE  Inv' /\ NoIsKept
BY DEF Inv, webVars, Framed, Questions, FlagsFall, Firm, OneAtATime, Known, NoIsKept

\* What holds of every page: its record has the fields of its kind, the dialog belongs to the one
\* function that has asked, and a flag that a function takes for granted is up until it ends.
THEOREM InvCorrect == WebSpec => []Inv
<1>1. WebInit => Inv
  BY InitInv
<1>2. Inv /\ [WebNext]_webVars => Inv'
  BY NextInv, StutterInv
<1> QED
  BY <1>1, <1>2, PTL DEF WebSpec

\* Work under one of the flags that a handler looks at before it begins (updates, backups,
\* the port, colours, modes, saving, ...) is never under way twice.
THEOREM OneAtATimeCorrect == WebSpec => []OneAtATime
<1>1. Inv => OneAtATime
  BY DEF Inv, FlagsFall
<1> QED
  BY <1>1, InvCorrect, PTL

\* A function whose question was answered "no" ends or goes on with reads only.
THEOREM NoMeansNoCorrect == WebSpec => NoMeansNo
<1>1. Inv /\ [WebNext]_webVars => [NoIsKept]_webVars
  BY NextInv
<1> QED
  BY <1>1, InvCorrect, PTL DEF WebSpec, NoMeansNo, NoIsKept


-----------------------------------------------------------------------------
(* What is said of one page.  Each statement has an invariant of its page;   *)
(* that page's own actions keep it, and all but a few leave alone what it is  *)
(* about.                                                                   *)

\* j waits for what it waited for.
StillWaits(j) == j \in DOMAIN tasks' /\ SameTask(tasks[j], tasks'[j])

LEMMA OthersWait ==
    ASSUME Questions
    PROVE  /\ \A fn, ask, mem, lower : Begin(fn, ask, mem, lower) => \A j \in DOMAIN tasks : StillWaits(j)
           /\ \A i \in DOMAIN tasks : \A fn, ask, mem, lower :
                Await(i, fn, ask, mem, lower) => \A j \in DOMAIN tasks : j # i => StillWaits(j)
           /\ \A i : End(i) => \A j \in DOMAIN tasks : j # i => StillWaits(j)
           /\ ServerStep \/ DialogStep => UNCHANGED page /\ DOMAIN tasks' = DOMAIN tasks
                                          /\ \A j \in DOMAIN tasks : StillWaits(j)
<1>1. ASSUME NEW fn, NEW ask, NEW mem, NEW lower, Begin(fn, ask, mem, lower)
      PROVE  \A j \in DOMAIN tasks : StillWaits(j)
  <2>1. PICK n : DOMAIN tasks' = DOMAIN tasks \cup {n} /\ \A j \in DOMAIN tasks : tasks'[j] = tasks[j]
    BY <1>1, BeginAdds
  <2> QED
    BY <2>1 DEF StillWaits, SameTask
<1>2. ASSUME NEW i \in DOMAIN tasks, NEW fn, NEW ask, NEW mem, NEW lower, Await(i, fn, ask, mem, lower)
      PROVE  \A j \in DOMAIN tasks : j # i => StillWaits(j)
  BY <1>2, AwaitGoes DEF StillWaits, SameTask
<1>3. ASSUME NEW i, End(i)
      PROVE  \A j \in DOMAIN tasks : j # i => StillWaits(j)
  BY <1>3, EndRemoves DEF StillWaits, SameTask
<1>4. ASSUME NEW i \in DOMAIN tasks, NEW k, NEW reply, GiveReply(i, k, reply)
      PROVE  DOMAIN tasks' = DOMAIN tasks /\ \A j \in DOMAIN tasks : StillWaits(j)
  BY <1>4, ReplyGiven DEF StillWaits, SameTask
<1>5. CASE ServerStep
  <2>1. PICK i, k, reply : i \in DOMAIN tasks /\ GiveReply(i, k, reply) /\ UNCHANGED page
    BY <1>5 DEF ServerStep, Serve, Refuse, LoseReply
  <2> QED
    BY <1>4, <2>1
<1>6. CASE DialogStep
  <2>1. PICK yes : GiveReply(dialog, "only", Good(yes)) /\ UNCHANGED page /\ dialog # None
    BY <1>6 DEF DialogStep, AnswerDialog
  <2> QED
    BY <1>4, <2>1 DEF Questions
<1> QED
  BY <1>1, <1>2, <1>3, <1>5, <1>6

-----------------------------------------------------------------------------
(* The overview: a window shows the log of its own entry, and its spinner     *)
(* turns only while that log is on its way.                                  *)

OverviewInv == page.kind = "overview" =>
    /\ DOMAIN page.detail = {"open", "field", "key", "rows"}
    /\ page.detail.rows # None => page.detail.open /\ SameDetail(page, page.detail.rows)
    /\ "detailLoading" \in page.busy =>
        \E i \in DOMAIN tasks : tasks[i].fn = "detailLogs" /\ SameDetail(page, tasks[i].mem)

\* The window is as it was, and who reads its log still waits.
WindowKept ==
    /\ page'.kind = page.kind /\ page'.detail = page.detail
    /\ "detailLoading" \in page'.busy => "detailLoading" \in page.busy
    /\ \A j \in DOMAIN tasks : tasks[j].fn = "detailLogs" => StillWaits(j)

LEMMA WindowKeeps ==
    ASSUME OverviewInv, WindowKept
    PROVE  OverviewInv'
BY DEF OverviewInv, WindowKept, SameDetail, StillWaits, SameTask

LEMMA OverviewStep ==
    ASSUME Inv, OverviewInv, page.kind = "overview", NEW i, OverviewEvent \/ OverviewResume(i)
    PROVE  OverviewInv'
<1>1. DOMAIN page = {"kind", "mounted", "busy", "visit", "source", "sections", "detail", "slow", "total", "top",
                     "current", "warning", "poll", "popover", "closeTimer", "windows"}
  BY DEF Inv, Framed, FreshOf, OverviewFresh
<1>2. \A fn : i \in Replied(fn) => i \in DOMAIN tasks /\ tasks[i].fn = fn
  BY DEF Replied
<1>3. Questions /\ DOMAIN page.detail = {"open", "field", "key", "rows"}
  BY DEF Inv, OverviewInv
<1>4. ASSUME UNCHANGED tasks
      PROVE  \A j \in DOMAIN tasks : StillWaits(j)
  BY <1>4 DEF StillWaits, SameTask
<1>5. CASE OpenRankingDetail
  <2>1. PICK key, field :
            LET d == [open |-> TRUE, field |-> field, key |-> key, rows |-> None]
            IN  /\ page' = Raise([page EXCEPT !.detail = d], {"detailLoading"})
                /\ Begin("detailLogs", One(Get("logs")), [field |-> field, key |-> key], {})
    BY <1>5 DEF OpenRankingDetail
  <2> DEFINE mem == [field |-> field, key |-> key]
  <2>2. PICK n \in DOMAIN tasks' : tasks'[n] = Task("detailLogs", One(Get("logs")), mem, {})
    BY <2>1, BeginAdds
  <2>3. tasks'[n].fn = "detailLogs" /\ tasks'[n].mem = mem
    BY <2>2, TaskFields
  <2>4. page'.detail = [open |-> TRUE, field |-> field, key |-> key, rows |-> None]
    BY <1>1, <2>1 DEF Raise
  <2> QED
    BY <2>3, <2>4 DEF OverviewInv, SameDetail
<1>6. CASE CloseRankingDetail
  <2>1. DOMAIN page'.detail = {"open", "field", "key", "rows"} /\ page'.detail.rows = None
        /\ "detailLoading" \notin page'.busy
    BY <1>1, <1>3, <1>6 DEF CloseRankingDetail, DetailClosed
  <2> QED
    BY <2>1 DEF OverviewInv
<1>7. CASE ShowSlowDetail \/ DismissPopover \/ PointerMoves \/ PopoverCloses \/ ServerAudits
  <2>1. UNCHANGED tasks
    BY <1>7 DEF ShowSlowDetail, DismissPopover, PointerMoves, PopoverCloses, ServerAudits, OnlyPage
  <2>2. page'.kind = page.kind /\ page'.detail = page.detail /\ page'.busy = page.busy
    BY <1>1, <1>7 DEF ShowSlowDetail, DismissPopover, PointerMoves, PopoverCloses, ServerAudits
  <2> QED
    BY <1>4, <2>1, <2>2, WindowKeeps DEF WindowKept
<1>8. ASSUME RefreshMetrics(page)
      PROVE  OverviewInv'
  <2>1. page'.kind = page.kind /\ page'.detail = page.detail /\ page'.busy \subseteq page.busy \cup {"inFlight"}
    BY <1>1, <1>8 DEF RefreshMetrics, Raise
  <2>2. UNCHANGED tasks \/ \E fn, ask, mem, lower : Begin(fn, ask, mem, lower)
    BY <1>8 DEF RefreshMetrics
  <2>3. \A j \in DOMAIN tasks : StillWaits(j)
    BY <1>3, <1>4, <2>2, OthersWait
  <2> QED
    BY <2>1, <2>3, WindowKeeps DEF WindowKept
<1>9. ASSUME NEW old, OpenPopover(old)
      PROVE  OverviewInv'
  <2>1. page'.kind = page.kind /\ page'.detail = page.detail /\ page'.busy \subseteq page.busy \cup {"popoverLoading"}
    BY <1>1, <1>9 DEF OpenPopover, Opened, Raise
  <2>2. UNCHANGED tasks \/ \E fn, ask, mem, lower : Begin(fn, ask, mem, lower)
    BY <1>9 DEF OpenPopover, OnlyPage
  <2>3. \A j \in DOMAIN tasks : StillWaits(j)
    BY <1>3, <1>4, <2>2, OthersWait
  <2> QED
    BY <2>1, <2>3, WindowKeeps DEF WindowKept
<1>10. CASE TogglePopover
  <2>1. CASE OpenPopover(TRUE)
    BY <1>9, <2>1
  <2>2. CASE page' = [page EXCEPT !.popover = FALSE, !.closeTimer = FALSE] /\ OnlyPage
    <3>1. page'.kind = page.kind /\ page'.detail = page.detail /\ page'.busy = page.busy /\ UNCHANGED tasks
      BY <1>1, <2>2 DEF OnlyPage
    <3> QED
      BY <1>4, <3>1, WindowKeeps DEF WindowKept
  <2> QED
    BY <1>10, <2>1, <2>2 DEF TogglePopover
<1>11. CASE OverviewRefresh
  <2>1. CASE ReloadOverview(page)
    <3>1. page'.kind = page.kind /\ page'.detail = page.detail /\ page'.busy = page.busy \cup {"overviewLoading"}
      BY <1>1, <2>1 DEF ReloadOverview, Raise
    <3>2. \A j \in DOMAIN tasks : StillWaits(j)
      BY <1>3, <2>1, OthersWait DEF ReloadOverview
    <3> QED
      BY <3>1, <3>2, WindowKeeps DEF WindowKept
  <2> QED
    BY <1>8, <1>11, <2>1 DEF OverviewRefresh
<1>12. CASE DetailRead(i)
  <2>1. i \in DOMAIN tasks /\ \A j \in DOMAIN tasks : j # i => StillWaits(j)
    BY <1>2, <1>3, <1>12, OthersWait DEF DetailRead
  <2> DEFINE m == tasks[i].mem
             p == IF ~Reply(i).ok THEN [page EXCEPT !.detail.rows = None]
                  ELSE IF page.detail.open /\ SameDetail(page, m) THEN [page EXCEPT !.detail.rows = m]
                  ELSE page
  <2>2. page' = DetailEnded(p, m)
    BY <1>12 DEF DetailRead
  <2> DEFINE Fits(q) ==
            /\ q.kind = page.kind /\ q.busy = page.busy /\ {"busy", "detail", "kind"} \subseteq DOMAIN q
            /\ DOMAIN q.detail = DOMAIN page.detail
            /\ q.detail.field = page.detail.field /\ q.detail.key = page.detail.key
            /\ q.detail.rows # None => q.detail.open /\ SameDetail(q, q.detail.rows)
  <2>3. Fits(p)
    <3>1. Fits(page)
      BY <1>1, <1>3 DEF OverviewInv
    <3>2. Fits([page EXCEPT !.detail.rows = None])
      BY <1>1, <1>3
    <3>3. page.detail.open /\ SameDetail(page, m) => Fits([page EXCEPT !.detail.rows = m])
      BY <1>1, <1>3 DEF SameDetail
    <3> HIDE DEF Fits, m
    <3> QED
      BY <3>1, <3>2, <3>3
  <2> HIDE DEF p, m
  <2>4. /\ page'.kind = page.kind /\ page'.detail = p.detail /\ page'.busy \subseteq page.busy
        /\ "detailLoading" \in page'.busy => ~SameDetail(p, m)
    BY <2>2, <2>3 DEF DetailEnded
  <2>5. ASSUME "detailLoading" \in page'.busy
        PROVE  \E j \in DOMAIN tasks' : tasks'[j].fn = "detailLogs" /\ SameDetail(page', tasks'[j].mem)
    <3>1. PICK j \in DOMAIN tasks : tasks[j].fn = "detailLogs" /\ SameDetail(page, tasks[j].mem)
      BY <2>4, <2>5 DEF OverviewInv
    <3>2. j # i
      BY <2>3, <2>4, <2>5, <3>1 DEF SameDetail, m
    <3> QED
      BY <2>1, <2>3, <2>4, <3>1, <3>2 DEF StillWaits, SameTask, SameDetail
  <2> QED
    BY <1>3, <2>3, <2>4, <2>5 DEF OverviewInv, SameDetail
<1>13. CASE OverviewRead(i) \/ RankBySetRead(i) \/ TrendRead(i) \/ WindowStatsRead(i)
  <2>1. i \in DOMAIN tasks /\ tasks[i].fn # "detailLogs"
    BY <1>2, <1>13 DEF OverviewRead, RankBySetRead, TrendRead, WindowStatsRead, Replied, Rejected
  <2>2. End(i) \/ \E fn, ask, mem, lower : Await(i, fn, ask, mem, lower)
    BY <1>13 DEF OverviewRead, RankBySetRead, TrendRead, WindowStatsRead
  <2>3. \A j \in DOMAIN tasks : tasks[j].fn = "detailLogs" => StillWaits(j)
    BY <1>3, <2>1, <2>2, OthersWait
  <2>4. page'.kind = page.kind /\ page'.detail = page.detail /\ page'.busy \subseteq page.busy
    <3>1. DOMAIN OverviewShown(i) = DOMAIN page /\ OverviewShown(i).kind = page.kind
          /\ OverviewShown(i).busy = page.busy /\ OverviewShown(i).detail = page.detail
      BY <1>1 DEF OverviewShown
    <3>2. CASE OverviewRead(i)
      BY <1>1, <3>1, <3>2 DEF OverviewRead, Lower
    <3>3. CASE RankBySetRead(i)
      BY <1>1, <3>3 DEF RankBySetRead, Lower
    <3>4. CASE WindowStatsRead(i)
      BY <1>1, <3>4 DEF WindowStatsRead, Lower
    <3>5. CASE TrendRead(i)
      BY <1>1, <3>5 DEF TrendRead, MetricsShown, Lower
    <3> QED
      BY <1>13, <3>2, <3>3, <3>4, <3>5
  <2> QED
    BY <2>3, <2>4, WindowKeeps DEF WindowKept
<1> QED
  BY <1>5, <1>6, <1>7, <1>8, <1>9, <1>10, <1>11, <1>12, <1>13
  DEF OverviewEvent, OverviewResume, MetricsPoll, TriggerEnter

LEMMA KindKept ==
    ASSUME Inv, WebNext, ~OpenLogFilter
    PROVE  page'.kind = page.kind
<1>1. PICK i : Mount \/ Unmount \/ Event \/ ServerStep \/ DialogStep \/ Resume(i)
  BY DEF WebNext
<1>2. Moves
  BY <1>1, MountMoves, UnmountMoves, ServerMoves, DialogMoves, PagesMove
<1> QED
  BY <1>2, MovesFrame DEF SameFrame

\* A step of a page of one kind, for what is said of that kind.
LEMMA StepsOfKind ==
    ASSUME Inv, [WebNext]_webVars, page'.kind # "log"
    PROVE  /\ page'.kind = page.kind
           /\ \/ UNCHANGED webVars \/ Mount \/ Unmount \/ Event \/ ServerStep \/ DialogStep
              \/ \E i : Resume(i)
<1>1. CASE OpenLogFilter
  BY <1>1, OpenLogFilterKeeps
<1>2. CASE UNCHANGED webVars
  BY <1>2 DEF webVars
<1>3. CASE WebNext /\ ~OpenLogFilter
  BY <1>3, KindKept DEF WebNext
<1> QED
  BY <1>1, <1>2, <1>3

LEMMA FirstPage ==
    ASSUME WebInit
    PROVE  /\ page.kind \in Kinds /\ page = [FreshOf(page.kind) EXCEPT !.mounted = FALSE]
           /\ DOMAIN tasks = {} /\ server \in ServersOf(page.kind)
<1>1. PICK kind \in Pages : page = [FreshOf(kind) EXCEPT !.mounted = FALSE] /\ server \in ServersOf(kind)
  BY DEF WebInit
<1>2. kind \in Kinds
  BY PagesAssumption DEF Kinds
<1>3. kind = page.kind
  BY <1>1, <1>2 DEF Kinds, FreshOf, ListFresh, LogFresh, UpstreamFresh, TablesFresh, RequeryFresh, RulesFresh,
                    SwitchFresh, SystemFresh, AppearanceFresh, OverviewFresh, ShellFresh
<1> QED
  BY <1>1, <1>2, <1>3 DEF WebInit, Nothing

LEMMA OverviewNext ==
    ASSUME Inv, OverviewInv, [WebNext]_webVars
    PROVE  OverviewInv'
<1> SUFFICES ASSUME page'.kind = "overview"
             PROVE  OverviewInv'
  BY DEF OverviewInv
<1>1. page.kind = "overview"
  BY StepsOfKind
<1>2. DOMAIN page = {"kind", "mounted", "busy", "visit", "source", "sections", "detail", "slow", "total", "top",
                     "current", "warning", "poll", "popover", "closeTimer", "windows"}
  BY <1>1 DEF Inv, Framed, FreshOf, OverviewFresh
<1>3. CASE UNCHANGED webVars
  BY <1>3 DEF webVars, OverviewInv, SameDetail
<1>4. CASE Mount
  <2>1. PICK v, b : LET p == [OverviewFresh EXCEPT !.visit = v, !.poll = b]
                    IN  RefreshMetrics(p) \/ ReloadOverview(p)
    BY <1>1, <1>4 DEF Mount, OverviewMounted
  <2> DEFINE p == [OverviewFresh EXCEPT !.visit = v, !.poll = b]
  <2>2. p.detail = NoDetail /\ p.busy = {} /\ {"busy", "detail"} \subseteq DOMAIN p
    BY DEF OverviewFresh
  <2> HIDE DEF p
  <2>3. page'.detail = NoDetail /\ page'.busy \subseteq {"inFlight", "overviewLoading"}
    BY <2>1, <2>2 DEF p, RefreshMetrics, ReloadOverview, Raise
  <2> QED
    BY <2>3 DEF OverviewInv, NoDetail
<1>5. CASE Unmount
  <2>1. UNCHANGED tasks
    BY <1>5 DEF Unmount, OnlyPage
  <2>2. CASE page' = [OverviewFresh EXCEPT !.mounted = FALSE]
    <3>1. page'.detail = NoDetail /\ page'.busy = {}
      BY <2>2 DEF OverviewFresh
    <3> QED
      BY <3>1 DEF OverviewInv, NoDetail
  <2>3. CASE page' = OverviewUnmounted
    <3>1. page'.detail = page.detail /\ page'.busy = page.busy
      BY <1>2, <2>3 DEF OverviewUnmounted
    <3> QED
      BY <1>1, <2>1, <3>1 DEF OverviewInv, SameDetail
  <2> QED
    BY <1>1, <1>5, <2>2, <2>3 DEF Unmount, LeftPage, FreshOf
<1>6. CASE ServerStep \/ DialogStep
  <2>1. UNCHANGED page /\ \A j \in DOMAIN tasks : StillWaits(j)
    BY <1>6, OthersWait DEF Inv
  <2> QED
    BY <2>1, WindowKeeps DEF WindowKept
<1>7. ASSUME NEW i, Event \/ Resume(i)
      PROVE  OverviewInv'
  BY <1>1, <1>7, OverviewStep DEF Event, Resume
<1> QED
  BY <1>3, <1>4, <1>5, <1>6, <1>7, StepsOfKind

LEMMA OverviewAlways == WebSpec => []OverviewInv
<1>1. WebInit => OverviewInv
  <2> SUFFICES ASSUME WebInit, page.kind = "overview"
               PROVE  OverviewInv
    BY DEF OverviewInv
  <2>1. page.detail = NoDetail /\ page.busy = {}
    BY FirstPage DEF FreshOf, OverviewFresh
  <2> QED
    BY <2>1 DEF OverviewInv, NoDetail
<1>2. Inv /\ OverviewInv /\ [WebNext]_webVars => OverviewInv'
  BY OverviewNext
<1> QED
  BY <1>1, <1>2, InvCorrect, PTL DEF WebSpec

\* The log shown in a window of details is the log of the entry that the window is open for.
THEOREM DetailShowsItsRowsCorrect == WebSpec => []DetailShowsItsRows
<1>1. OverviewInv => DetailShowsItsRows
  BY DEF OverviewInv, DetailShowsItsRows, SummaryCards
<1> QED
  BY <1>1, OverviewAlways, PTL

-----------------------------------------------------------------------------
(* The appearance: a save of colours is queued only behind one that is under  *)
(* way, and no other function takes that one's flag down.                    *)

NotSaving(t) == t.fn # "saveColors" => Saving \notin t.lower

AppearanceInv == page.kind = "appearance" =>
    /\ Queued \in page.busy => Saving \in page.busy
    /\ \A i \in DOMAIN tasks : NotSaving(tasks[i])

ColorsKept ==
    /\ Queued \in page'.busy => Queued \in page.busy
    /\ Saving \in page.busy => Saving \in page'.busy

LEMMA BegunNotSaving ==
    ASSUME \A j \in DOMAIN tasks : NotSaving(tasks[j]),
           NEW fn, NEW ask, NEW mem, NEW lower, Begin(fn, ask, mem, lower), fn = "saveColors" \/ Saving \notin lower
    PROVE  \A j \in DOMAIN tasks' : NotSaving(tasks'[j])
<1>1. PICK n \in Ids \ DOMAIN tasks : DOMAIN tasks' = DOMAIN tasks \cup {n} /\ tasks'[n] = Task(fn, ask, mem, lower)
                                      /\ \A j \in DOMAIN tasks : tasks'[j] = tasks[j]
  BY BeginAdds
<1>2. tasks'[n].fn = fn /\ tasks'[n].lower = lower
  BY <1>1, TaskFields
<1> QED
  BY <1>1, <1>2 DEF NotSaving

LEMMA GoesNotSaving ==
    ASSUME \A j \in DOMAIN tasks : NotSaving(tasks[j]), NEW i \in DOMAIN tasks,
           NEW fn, NEW ask, NEW mem, NEW lower, Await(i, fn, ask, mem, lower), fn = "saveColors" \/ Saving \notin lower
    PROVE  \A j \in DOMAIN tasks' : NotSaving(tasks'[j])
<1>1. DOMAIN tasks' = DOMAIN tasks /\ tasks'[i] = Task(fn, ask, mem, lower)
      /\ \A j \in DOMAIN tasks : j # i => tasks'[j] = tasks[j]
  BY AwaitGoes
<1>2. tasks'[i].fn = fn /\ tasks'[i].lower = lower
  BY <1>1, TaskFields
<1> QED
  BY <1>1, <1>2 DEF NotSaving

LEMMA EndNotSaving ==
    ASSUME \A j \in DOMAIN tasks : NotSaving(tasks[j]), NEW i, End(i)
    PROVE  \A j \in DOMAIN tasks' : NotSaving(tasks'[j])
BY EndRemoves

LEMMA StayNotSaving ==
    ASSUME \A j \in DOMAIN tasks : NotSaving(tasks[j]), DOMAIN tasks' = DOMAIN tasks,
           \A j \in DOMAIN tasks : StillWaits(j)
    PROVE  \A j \in DOMAIN tasks' : NotSaving(tasks'[j])
BY DEF StillWaits, SameTask, NotSaving

\* What most steps do to the two flags of the colours.
Spares == ColorsKept /\ \A j \in DOMAIN tasks' : NotSaving(tasks'[j])

LEMMA AppearanceSpares ==
    ASSUME Inv, AppearanceInv, page.kind = "appearance", NEW i, AppearanceEvent \/ AppearanceResume(i),
           ~PickColor, ~ColorTimerFires, ~ColorsSaved(i)
    PROVE  Spares
<1>1. DOMAIN page = {"kind", "mounted", "busy", "visit", "theme", "colors", "colorTimer", "draft", "shown",
                     "history", "historyOpen", "historyBusy"}
  BY DEF Inv, Framed, FreshOf, AppearanceFresh
<1>2. \A fn : i \in Replied(fn) => i \in DOMAIN tasks /\ tasks[i].fn = fn
  BY DEF Replied
<1>3. Questions /\ \A j \in DOMAIN tasks : NotSaving(tasks[j])
  BY DEF Inv, AppearanceInv
<1> USE DEF HistoryLoading
<1> DEFINE Others == {"applying", "uploading", HistoryLoading}
           Keeps(p) == DOMAIN p = DOMAIN page /\ p.busy = page.busy
<1>4. ASSUME NEW fn, NEW ask, NEW mem, NEW lower \in SUBSET Others, Begin(fn, ask, mem, lower),
             page.busy \subseteq page'.busy, page'.busy \subseteq page.busy \cup Others
      PROVE  Spares
  <2>1. Saving \notin lower
    BY DEF Saving
  <2> QED
    BY <1>3, <1>4, <2>1, BegunNotSaving DEF Spares, ColorsKept, Queued
<1>5. ASSUME NEW fn, NEW ask, NEW mem, NEW lower, i \in DOMAIN tasks, tasks[i].fn # "saveColors",
             Await(i, fn, ask, mem, lower), lower \subseteq tasks[i].lower \cup Others,
             page.busy \ tasks[i].lower \subseteq page'.busy, page'.busy \subseteq page.busy \cup Others
      PROVE  Spares
  <2>1. Saving \notin tasks[i].lower /\ Saving \notin lower
    BY <1>3, <1>5 DEF Saving, NotSaving
  <2>2. \A j \in DOMAIN tasks' : NotSaving(tasks'[j])
    BY <1>3, <1>5, <2>1, GoesNotSaving
  <2> QED
    BY <1>5, <2>1, <2>2 DEF Spares, ColorsKept, Queued
<1>6. ASSUME i \in DOMAIN tasks, tasks[i].fn # "saveColors", End(i),
             page.busy \ tasks[i].lower \subseteq page'.busy, page'.busy \subseteq page.busy
      PROVE  Spares
  <2>1. Saving \notin tasks[i].lower
    BY <1>3, <1>6 DEF NotSaving
  <2> QED
    BY <1>3, <1>6, <2>1, EndNotSaving DEF Spares, ColorsKept
<1>7. ASSUME UNCHANGED tasks, page'.busy = page.busy
      PROVE  Spares
  BY <1>3, <1>7 DEF Spares, ColorsKept
<1>8. CASE DragColor \/ TypeUrl
  BY <1>1, <1>7, <1>8 DEF DragColor, TypeUrl, PickedColor, OnlyPage
<1>9. CASE ServePicture
  <2>1. PICK j, k, reply : j \in DOMAIN tasks /\ GiveReply(j, k, reply) /\ UNCHANGED page
    BY <1>9 DEF ServePicture, Refuse
  <2>2. DOMAIN tasks' = DOMAIN tasks /\ \A l \in DOMAIN tasks : StillWaits(l)
    BY <1>3, <2>1, ReplyGiven DEF StillWaits, SameTask
  <2> QED
    BY <1>3, <2>1, <2>2, StayNotSaving DEF Spares, ColorsKept
<1>10. ASSUME NEW fn, NEW mem, AskFirst(fn, mem), Clickable, UNCHANGED page
       PROVE  Spares
  <2>1. PICK n : /\ DOMAIN tasks' = DOMAIN tasks \cup {n}
                 /\ tasks'[n] = Task(fn, One(Question), mem, {})
                 /\ \A j \in DOMAIN tasks : tasks'[j] = tasks[j]
    BY <1>3, <1>10, AskFirstAdds DEF Clickable
  <2>2. tasks'[n].lower = {}
    BY <2>1, TaskFields
  <2> QED
    BY <1>3, <1>10, <2>1, <2>2 DEF Spares, ColorsKept, NotSaving
<1>11. CASE DeleteHistory \/ ResetAppearance
  BY <1>10, <1>11 DEF DeleteHistory, ResetAppearance, HistoryInReach, BackgroundInReach
<1>12. CASE ColorsRead(i) \/ HistoryRead(i) \/ ResetPosted(i)
  <2>1. i \in DOMAIN tasks /\ tasks[i].fn # "saveColors" /\ End(i)
    BY <1>2, <1>12 DEF ColorsRead, HistoryRead, ResetPosted
  <2>2. page'.busy = page.busy \/ page'.busy = page.busy \ tasks[i].lower
    <3>1. CASE ColorsRead(i)
      BY <1>1, <3>1 DEF ColorsRead, KnownColors
    <3>2. CASE HistoryRead(i)
      BY <1>1, <3>2 DEF HistoryRead, Lower
    <3>3. CASE ResetPosted(i)
      BY <3>3 DEF ResetPosted
    <3> QED
      BY <1>12, <3>1, <3>2, <3>3
  <2> QED
    BY <1>6, <2>1, <2>2
<1>13. ASSUME NEW p, DOMAIN p = DOMAIN page
       PROVE  DOMAIN Applying(p) = DOMAIN page /\ Applying(p).busy = p.busy \cup {"applying"}
  BY <1>1, <1>13 DEF Applying, Raise
\* The history that has been read beside, or not.
<1> DEFINE read == HistoryShown(i, page)
<1>26. /\ DOMAIN read = DOMAIN page /\ page.busy \ tasks[i].lower \subseteq read.busy /\ read.busy \subseteq page.busy
       /\ \A v : /\ DOMAIN [read EXCEPT !.shown = v] = DOMAIN page /\ [read EXCEPT !.shown = v].busy = read.busy
                 /\ DOMAIN [read EXCEPT !.draft = v] = DOMAIN page /\ [read EXCEPT !.draft = v].busy = read.busy
                 /\ [read EXCEPT !.historyBusy = v].busy = read.busy
                 /\ DOMAIN [read EXCEPT !.historyBusy = v] = DOMAIN page
  BY <1>1 DEF HistoryShown
<1> HIDE DEF read
<1>27. ASSUME NEW p, DOMAIN p = DOMAIN page, p.busy = read.busy, page' = Lower(p, i), End(i),
              i \in DOMAIN tasks, tasks[i].fn # "saveColors"
       PROVE  Spares
  <2>1. page'.busy = read.busy \ tasks[i].lower
    BY <1>1, <1>27 DEF Lower
  <2> QED
    BY <1>6, <1>26, <1>27, <2>1
<1>28. ASSUME NEW p, p.busy = read.busy, NEW then, Preview(i, p, then, StillToLower(i)),
              i \in DOMAIN tasks, tasks[i].fn # "saveColors"
       PROVE  Spares
  BY <1>5, <1>26, <1>28 DEF Preview, StillToLower
<1>14. CASE Previewed(i)
  <2> DEFINE p(v) == [read EXCEPT !.shown = v]
             beside == IF "uploading" \in tasks[i].lower THEN {HistoryLoading} ELSE {}
             q(v) == Raise(Applying(p(v)), beside)
             lower == StillToLower(i) \cup {"applying"} \cup beside
  <2>1. i \in DOMAIN tasks /\ tasks[i].fn # "saveColors"
    BY <1>2, <1>14 DEF Previewed
  <2>2. PICK v : \/ page' = Lower(p(v), i) /\ End(i)
                 \/ page' = q(v) /\ \E fn, ask, mem : Await(i, fn, ask, mem, lower)
                 \/ PostLook(i, p(v), tasks[i].mem.look, StillToLower(i))
                 \/ Preview(i, p(v), "forgotten", StillToLower(i))
                 \/ page' = Lower([p(v) EXCEPT !.historyBusy = None], i) /\ End(i)
    BY <1>14 DEF Previewed, Preview, PostLook, read
  <2>3. DOMAIN p(v) = DOMAIN page /\ p(v).busy = read.busy
    BY <1>26
  <2>4. DOMAIN [p(v) EXCEPT !.historyBusy = None] = DOMAIN page /\ [p(v) EXCEPT !.historyBusy = None].busy = read.busy
    BY <1>1, <2>3
  <2>5. q(v).busy = read.busy \cup {"applying"} \cup beside
    <3> HIDE DEF p, beside
    <3> QED
      BY <1>1, <1>13, <2>3 DEF Raise
  <2> HIDE DEF p, q
  <2>6. CASE page' = q(v) /\ \E fn, ask, mem : Await(i, fn, ask, mem, lower)
    <3>1. lower \subseteq tasks[i].lower \cup Others /\ page'.busy \subseteq page.busy \cup Others
          /\ page.busy \ tasks[i].lower \subseteq page'.busy
      BY <1>26, <2>5, <2>6 DEF StillToLower
    <3> HIDE DEF lower
    <3> QED
      BY <1>5, <2>1, <2>6, <3>1
  <2>7. CASE PostLook(i, p(v), tasks[i].mem.look, StillToLower(i))
    BY <1>5, <1>26, <2>1, <2>3, <2>7 DEF PostLook, StillToLower
  <2> QED
    BY <1>27, <1>28, <2>1, <2>2, <2>3, <2>4, <2>6, <2>7
<1>15. CASE LookPosted(i)
  <2>1. i \in DOMAIN tasks /\ tasks[i].fn # "saveColors"
    BY <1>2, <1>15 DEF LookPosted
  <2>2. \/ \E v : Preview(i, [read EXCEPT !.draft = v], "end", StillToLower(i))
        \/ page' = Lower(read, i) /\ End(i)
    BY <1>15 DEF LookPosted, read
  <2> QED
    BY <1>26, <1>27, <1>28, <2>1, <2>2
<1>16. CASE PickBackgroundColor \/ SlideBackground \/ SetTheme
  <2>1. ASSUME NEW p, Keeps(p), PreviewDraft(p)
        PROVE  Spares
    BY <1>4, <2>1 DEF PreviewDraft
  <2>2. Keeps(page) /\ (\A m, u : Keeps([page EXCEPT !.draft.mode = m, !.draft.url = u]))
        /\ (\A t : Keeps([page EXCEPT !.theme = t]))
    BY <1>1
  <2> HIDE DEF Keeps
  <2> QED
    BY <1>16, <2>1, <2>2 DEF PickBackgroundColor, SlideBackground, SetTheme
<1>17. CASE ApplyBackground
  <2>1. PICK p \in {[page EXCEPT !.draft.mode = "url"], page} :
            /\ page' = Applying(p)
            /\ \E fn, ask, mem : Begin(fn, ask, mem, {"applying"})
    BY <1>17 DEF ApplyBackground
  <2>2. Keeps(p)
    BY <1>1, <2>1
  <2> QED
    BY <1>4, <1>13, <2>1, <2>2
<1>18. CASE UploadPicture
  BY <1>1, <1>4, <1>18 DEF UploadPicture, Raise
<1>19. CASE Uploaded(i)
  <2>1. i \in DOMAIN tasks /\ tasks[i].fn # "saveColors"
    BY <1>2, <1>19 DEF Uploaded
  <2>2. CASE page' = Lower(page, i) /\ End(i)
    BY <1>1, <1>6, <2>1, <2>2 DEF Lower
  <2>3. ASSUME NEW v, Preview(i, [page EXCEPT !.draft.mode = "upload", !.draft.upload = v], "apply", tasks[i].lower)
        PROVE  Spares
    <3>1. [page EXCEPT !.draft.mode = "upload", !.draft.upload = v].busy = page.busy
      BY <1>1
    <3> QED
      BY <1>5, <2>1, <2>3, <3>1 DEF Preview
  <2> QED
    BY <1>19, <2>2, <2>3 DEF Uploaded
<1>20. CASE UseHistory
  <2>1. PICK n, ask, mem :
            /\ page' = [page EXCEPT !.draft.mode = "upload", !.draft.upload = n]
            /\ Begin("preview", ask, mem, {})
    BY <1>20 DEF UseHistory
  <2> QED
    BY <1>1, <1>4, <2>1
<1>21. CASE ToggleHistory
  <2>1. PICK b : LET p == [page EXCEPT !.historyOpen = b]
                 IN  \/ page' = p /\ UNCHANGED tasks
                     \/ /\ page' = Raise(p, {HistoryLoading})
                        /\ Begin("loadHistory", One(Get("history")), None, {HistoryLoading})
    BY <1>21 DEF ToggleHistory
  <2> DEFINE p == [page EXCEPT !.historyOpen = b]
  <2>2. Keeps(p)
    BY <1>1
  <2> HIDE DEF p
  <2>3. CASE page' = p /\ UNCHANGED tasks
    BY <1>7, <2>2, <2>3
  <2>4. CASE /\ page' = Raise(p, {HistoryLoading})
             /\ Begin("loadHistory", One(Get("history")), None, {HistoryLoading})
    BY <1>1, <1>4, <2>2, <2>4 DEF Raise
  <2> QED
    BY <2>1, <2>3, <2>4 DEF p
<1>22. CASE ForgetAnswered(i)
  BY <1>1, <1>2, <1>5, <1>6, <1>22 DEF ForgetAnswered
<1>23. CASE Forgotten(i)
  BY <1>1, <1>2, <1>5, <1>6, <1>23 DEF Forgotten, Raise
<1>24. CASE BackgroundRead(i)
  <2>1. i \in DOMAIN tasks /\ tasks[i].fn # "saveColors"
    BY <1>2, <1>24 DEF BackgroundRead
  <2>2. \/ \E v, then : Preview(i, [read EXCEPT !.draft = v], then, StillToLower(i))
        \/ Preview(i, read, "forgotten", StillToLower(i))
        \/ page' = Lower([read EXCEPT !.historyBusy = None], i) /\ End(i)
        \/ page' = Lower(read, i) /\ End(i)
    BY <1>24 DEF BackgroundRead, read
  <2> QED
    BY <1>26, <1>27, <1>28, <2>1, <2>2
<1>25. CASE ResetAnswered(i)
  <2>1. i \in DOMAIN tasks /\ tasks[i].fn # "saveColors"
    BY <1>2, <1>25 DEF ResetAnswered
  <2>2. (page' = page /\ End(i)) \/ \E ask : Await(i, "postReset", ask, None, {})
    BY <1>25 DEF ResetAnswered
  <2>3. page'.busy = page.busy
    BY <1>1, <1>25 DEF ResetAnswered
  <2> QED
    BY <1>5, <1>6, <2>1, <2>2, <2>3
<1> QED
  BY <1>8, <1>9, <1>11, <1>12, <1>14, <1>15, <1>16, <1>17, <1>18, <1>19, <1>20, <1>21, <1>22, <1>23, <1>24, <1>25
  DEF AppearanceEvent, AppearanceResume

LEMMA AppearanceStep ==
    ASSUME Inv, AppearanceInv, page.kind = "appearance", NEW i, AppearanceEvent \/ AppearanceResume(i)
    PROVE  AppearanceInv'
<1>1. DOMAIN page = {"kind", "mounted", "busy", "visit", "theme", "colors", "colorTimer", "draft", "shown",
                     "history", "historyOpen", "historyBusy"}
  BY DEF Inv, Framed, FreshOf, AppearanceFresh
<1>2. \A j \in DOMAIN tasks : NotSaving(tasks[j])
  BY DEF AppearanceInv
<1> DEFINE Keeps(p) == DOMAIN p = DOMAIN page /\ p.busy = page.busy
<1>3. CASE PickColor \/ ColorTimerFires
  <2>1. PICK p : Keeps(p) /\ SaveColors(p)
    <3>1. \A c : Keeps(PickedColor(page, c))
      BY <1>1 DEF PickedColor
    <3>2. Keeps([page EXCEPT !.colorTimer = FALSE])
      BY <1>1
    <3> QED
      BY <1>3, <3>1, <3>2 DEF PickColor, ColorTimerFires
  <2>2. CASE Saving \in p.busy /\ page' = Raise(p, {Queued}) /\ UNCHANGED tasks
    <3>1. Saving \in page'.busy
      BY <1>1, <2>1, <2>2 DEF Raise
    <3> QED
      BY <1>2, <2>2, <3>1 DEF AppearanceInv
  <2>3. CASE /\ page' = Raise(p, {Saving})
             /\ Begin("saveColors", One(Put(p.visit, p.colors)), None, {Saving})
    <3>1. Saving \in page'.busy
      BY <1>1, <2>1, <2>3 DEF Raise
    <3>2. \A j \in DOMAIN tasks' : NotSaving(tasks'[j])
      BY <1>2, <2>3, BegunNotSaving
    <3> QED
      BY <3>1, <3>2 DEF AppearanceInv
  <2> QED
    BY <2>1, <2>2, <2>3 DEF SaveColors
<1>4. CASE ColorsSaved(i)
  <2> DEFINE known == KnownColors(page, Settled(i, "only", page.colors))
  <2>1. i \in DOMAIN tasks /\ tasks[i].fn = "saveColors"
    BY <1>4 DEF ColorsSaved, Replied
  <2>2. Keeps(known)
    BY <1>1 DEF KnownColors
  <2>3. \/ /\ page' = [known EXCEPT !.busy = @ \ {Queued}]
           /\ \E ask : Await(i, "saveColors", ask, None, {Saving})
        \/ Queued \notin page.busy /\ page' = Lower(known, i) /\ End(i)
    BY <1>4 DEF ColorsSaved
  <2> HIDE DEF known
  <2>4. Queued \notin page'.busy
    BY <1>1, <2>2, <2>3 DEF Lower
  <2>5. \A j \in DOMAIN tasks' : NotSaving(tasks'[j])
    BY <1>2, <2>1, <2>3, GoesNotSaving, EndNotSaving
  <2> QED
    BY <2>4, <2>5 DEF AppearanceInv
<1>5. CASE Spares
  BY <1>5 DEF Spares, ColorsKept, AppearanceInv
<1> QED
  BY <1>3, <1>4, <1>5, AppearanceSpares

LEMMA AppearanceNext ==
    ASSUME Inv, AppearanceInv, [WebNext]_webVars
    PROVE  AppearanceInv'
<1> SUFFICES ASSUME page'.kind = "appearance"
             PROVE  AppearanceInv'
  BY DEF AppearanceInv
<1>1. page.kind = "appearance"
  BY StepsOfKind
<1>2. DOMAIN page = {"kind", "mounted", "busy", "visit", "theme", "colors", "colorTimer", "draft", "shown",
                     "history", "historyOpen", "historyBusy"}
  BY <1>1 DEF Inv, Framed, FreshOf, AppearanceFresh
<1>3. \A j \in DOMAIN tasks : NotSaving(tasks[j])
  BY <1>1 DEF AppearanceInv
<1>4. CASE UNCHANGED webVars
  BY <1>4 DEF webVars, AppearanceInv, NotSaving
<1>5. CASE Mount
  <2>1. PICK v : LET p == [AppearanceFresh EXCEPT !.visit = v]
                 IN  \/ /\ page' = Raise(p, {HistoryLoading})
                        /\ Begin("loadBackground", BackgroundReads(p), None, {HistoryLoading})
                     \/ page' = p /\ Begin("loadColors", One(Get(v)), None, {})
    BY <1>1, <1>5 DEF Mount, AppearanceMounted
  <2> DEFINE p == [AppearanceFresh EXCEPT !.visit = v]
  <2>2. p.busy = {} /\ "busy" \in DOMAIN p
    BY DEF AppearanceFresh
  <2> HIDE DEF p
  <2>3. Queued \notin page'.busy
    <3>1. page' = p \/ page' = Raise(p, {HistoryLoading})
      BY <2>1 DEF p
    <3> QED
      BY <2>2, <3>1 DEF Raise, Queued, HistoryLoading
  <2>4. Saving \notin {HistoryLoading}
    BY DEF Saving, HistoryLoading
  <2>5. \A j \in DOMAIN tasks' : NotSaving(tasks'[j])
    BY <1>3, <2>1, <2>4, BegunNotSaving
  <2> QED
    BY <2>3, <2>5 DEF AppearanceInv
<1>6. CASE Unmount
  <2>1. UNCHANGED tasks
    BY <1>6 DEF Unmount, OnlyPage
  <2>2. page'.busy = {} \/ page'.busy = page.busy
    BY <1>1, <1>2, <1>6 DEF Unmount, LeftPage, FreshOf, AppearanceFresh, AppearanceUnmounted
  <2> QED
    BY <1>1, <2>1, <2>2 DEF AppearanceInv, NotSaving
<1>7. CASE ServerStep \/ DialogStep
  <2>1. UNCHANGED page /\ \A j \in DOMAIN tasks' : NotSaving(tasks'[j])
    BY <1>3, <1>7, OthersWait, StayNotSaving DEF Inv
  <2> QED
    BY <1>1, <2>1 DEF AppearanceInv
<1>8. ASSUME NEW i, Event \/ Resume(i)
      PROVE  AppearanceInv'
  BY <1>1, <1>8, AppearanceStep DEF Event, Resume
<1> QED
  BY <1>4, <1>5, <1>6, <1>7, <1>8, StepsOfKind

LEMMA AppearanceAlways == WebSpec => []AppearanceInv
<1>1. WebInit => AppearanceInv
  <2> SUFFICES ASSUME WebInit, page.kind = "appearance"
               PROVE  AppearanceInv
    BY DEF AppearanceInv
  <2>1. page.busy = {}
    BY FirstPage DEF FreshOf, AppearanceFresh
  <2> QED
    BY <2>1, FirstPage DEF AppearanceInv
<1>2. Inv /\ AppearanceInv /\ [WebNext]_webVars => AppearanceInv'
  BY AppearanceNext
<1> QED
  BY <1>1, <1>2, InvCorrect, PTL DEF WebSpec

\* When nothing waits, no flag is up: no button of any page is left disabled, no spinner turning.
THEOREM IdleMeansReadyCorrect == WebSpec => []IdleMeansReady
<1>1. Inv /\ OverviewInv /\ AppearanceInv => IdleMeansReady
  <2> SUFFICES ASSUME Inv, OverviewInv, AppearanceInv, tasks = Nothing, NEW f \in page.busy
               PROVE  FALSE
    BY DEF IdleMeansReady
  <2>1. Firm(page) = {} /\ DOMAIN tasks = {}
    BY NobodyWaits DEF Nothing, Inv
  <2>2. CASE page.kind = "overview" /\ f = "detailLoading"
    BY <2>1, <2>2 DEF OverviewInv
  <2>3. CASE page.kind = "appearance" /\ f = Queued
    BY <2>1, <2>3 DEF AppearanceInv, Firm, Saving, Queued
  <2> QED
    BY <2>1, <2>2, <2>3 DEF Firm
<1> QED
  BY <1>1, InvCorrect, OverviewAlways, AppearanceAlways, PTL

-----------------------------------------------------------------------------
(* The query log: what is selected is there.                                *)

LogInv == page.kind = "log" =>
    /\ page.detail # None => page.detail \in page.rows
    /\ page.requests \subseteq page.captured
    /\ page.selectedKey \in page.requests \cup {Raw}

\* Selections are as they were; rows are only added.
SelectionKept ==
    /\ page'.detail \in {page.detail, None} /\ page.rows \subseteq page'.rows
    /\ page'.captured = page.captured /\ page'.requests = page.requests
    /\ page'.selectedKey = page.selectedKey

LEMMA SelectionKeeps ==
    ASSUME LogInv, page.kind = "log", SelectionKept
    PROVE  LogInv'
BY DEF LogInv, SelectionKept

LEMMA LogStep ==
    ASSUME Inv, LogInv, page.kind = "log", NEW i, LogEvent \/ LogResume(i)
    PROVE  LogInv'
<1>1. DOMAIN page = {"kind", "mounted", "busy", "mode", "visit", "listening", "search", "wanted", "rows", "current",
                     "total", "detail", "aliases", "aliasOpen", "aliasRows", "groups", "captured", "requests",
                     "selectedKey", "showFalse"}
  BY DEF Inv, Framed, FreshOf, LogFresh
<1>2. /\ page.detail # None => page.detail \in page.rows
      /\ page.requests \subseteq page.captured
      /\ page.selectedKey \in page.requests \cup {Raw}
  BY DEF LogInv
<1> USE DEF Raise, Lower
<1>3. CASE SearchLogs \/ LoadMoreLogs \/ ApplyQuickFilter
  BY <1>1, <1>3, SelectionKeeps DEF SearchLogs, LoadMoreLogs, ApplyQuickFilter, RefreshLogs, AskLogs, SelectionKept
<1>4. CASE OpenLogDetail
  BY <1>1, <1>2, <1>4 DEF OpenLogDetail, LogInv
<1>5. CASE CloseLogDetail \/ OpenAliasManager \/ CloseAliasManager \/ EditAlias
  BY <1>1, <1>5, SelectionKeeps DEF CloseLogDetail, OpenAliasManager, CloseAliasManager, EditAlias, SelectionKept
<1>6. CASE SaveAliases \/ ImportAliases \/ StartCapture \/ FetchCaptureLogs \/ ToggleFalseLogs \/ QueryCaptured
  BY <1>1, <1>6, SelectionKeeps
  DEF SaveAliases, ImportAliases, StartCapture, FetchCaptureLogs, AskCapture, ToggleFalseLogs, QueryCaptured,
      SelectionKept
<1>7. CASE SelectDiagnostic
  BY <1>1, <1>2, <1>7 DEF SelectDiagnostic, LogInv
<1>8. CASE LogRefresh
  BY <1>1, <1>8, SelectionKeeps DEF LogRefresh, RefreshLogs, AskLogs, AskCapture, SelectionKept
<1>9. CASE LogsLoaded(i)
  <2> DEFINE got == <<tasks[i].mem.query, tasks[i].mem.number>>
             paged == [page EXCEPT !.current = tasks[i].mem.number, !.total = Reply(i).val]
  <2>1. \/ page' = Lower([paged EXCEPT !.rows = @ \cup {got}], i)
        \/ page' = Lower([paged EXCEPT !.rows = {got}, !.detail = None], i)
        \/ page' = Lower(page, i)
    BY <1>9 DEF LogsLoaded, LogsShown
  <2>2. CASE page' = Lower([paged EXCEPT !.rows = @ \cup {got}], i)
    BY <1>1, <2>2, SelectionKeeps DEF SelectionKept
  <2>3. CASE page' = Lower([paged EXCEPT !.rows = {got}, !.detail = None], i)
    BY <1>1, <1>2, <2>3 DEF LogInv
  <2>4. CASE page' = Lower(page, i)
    BY <1>1, <2>4, SelectionKeeps DEF SelectionKept
  <2> QED
    BY <2>1, <2>2, <2>3, <2>4
<1>10. CASE AliasesRead(i) \/ AliasFileRead(i) \/ AliasesPut(i) \/ CaptureStarted(i)
  BY <1>1, <1>10, SelectionKeeps DEF AliasesRead, AliasFileRead, AliasesPut, CaptureStarted, SelectionKept
<1>11. CASE CaptureFetched(i)
  <2>1. CASE page' = Lower(page, i)
    BY <1>1, <2>1, SelectionKeeps DEF SelectionKept
  <2>2. CASE page' = Lower(Diagnosed(page, Reply(i).val), i)
    BY <1>1, <1>2, <2>2 DEF Diagnosed, LogInv
  <2> QED
    BY <1>11, <2>1, <2>2 DEF CaptureFetched
<1>12. CASE LogReady(i)
  BY <1>1, <1>12, SelectionKeeps DEF LogReady, SelectionKept
<1> QED
  BY <1>3, <1>4, <1>5, <1>6, <1>7, <1>8, <1>9, <1>10, <1>11, <1>12 DEF LogEvent, LogResume

LEMMA LogNext ==
    ASSUME Inv, LogInv, [WebNext]_webVars
    PROVE  LogInv'
<1> SUFFICES ASSUME page'.kind = "log"
             PROVE  LogInv'
  BY DEF LogInv
<1> DEFINE Fresh(p) == p.detail = None /\ p.requests = {} /\ p.captured = {} /\ p.selectedKey = Raw
<1>1. Fresh(page') => LogInv'
  BY DEF LogInv
<1>2. CASE OpenLogFilter
  <2>1. Fresh(page')
    BY <1>2 DEF OpenLogFilter, WithFilter, LogFresh
  <2> QED
    BY <1>1, <2>1
<1>3. CASE UNCHANGED webVars
  BY <1>3 DEF webVars, LogInv
<1>4. CASE WebNext /\ ~OpenLogFilter
  <2>1. page.kind = "log"
    BY <1>4, KindKept
  <2>2. DOMAIN page = {"kind", "mounted", "busy", "mode", "visit", "listening", "search", "wanted", "rows", "current",
                       "total", "detail", "aliases", "aliasOpen", "aliasRows", "groups", "captured", "requests",
                       "selectedKey", "showFalse"}
    BY <2>1 DEF Inv, Framed, FreshOf, LogFresh
  <2>3. CASE Mount
    <3>1. Fresh(page')
      BY <2>1, <2>3 DEF Mount, LogMounted, LogFresh
    <3> QED
      BY <1>1, <3>1
  <2>4. CASE Unmount
    <3>1. CASE page' = [LogFresh EXCEPT !.mounted = FALSE]
      <4>1. Fresh(page')
        BY <3>1 DEF LogFresh
      <4> QED
        BY <1>1, <4>1
    <3>2. CASE page' = LogUnmounted
      BY <2>1, <2>2, <3>2, SelectionKeeps DEF LogUnmounted, SelectionKept
    <3> QED
      BY <2>1, <2>4, <3>1, <3>2 DEF Unmount, LeftPage, FreshOf
  <2>5. CASE ServerStep \/ DialogStep
    BY <2>5, OthersWait DEF Inv, LogInv
  <2>6. ASSUME NEW i, Event \/ Resume(i)
        PROVE  LogInv'
    BY <2>1, <2>6, LogStep DEF Event, Resume
  <2> QED
    BY <1>4, <2>3, <2>4, <2>5, <2>6 DEF WebNext
<1> QED
  BY <1>2, <1>3, <1>4

\* The row whose detail is open is in the table, and the request that is selected was captured.
THEOREM SelectionExistsCorrect == WebSpec => []SelectionExists
<1>1. WebInit => LogInv
  <2> SUFFICES ASSUME WebInit, page.kind = "log"
               PROVE  LogInv
    BY DEF LogInv
  <2>1. page.detail = None /\ page.requests = {} /\ page.captured = {} /\ page.selectedKey = Raw
    BY FirstPage DEF FreshOf, LogFresh
  <2> QED
    BY <2>1 DEF LogInv
<1>2. Inv /\ LogInv /\ [WebNext]_webVars => LogInv'
  BY LogNext
<1>3. LogInv => SelectionExists
  BY DEF LogInv, SelectionExists, StructuredItems, ActiveRequest
<1> QED
  BY <1>1, <1>2, <1>3, InvCorrect, PTL DEF WebSpec

-----------------------------------------------------------------------------
(* The shell: an interval and a timeout are known to whoever stops them.     *)

RefreshKnown(p) ==
    /\ p.refreshing = (IF p.mounted /\ p.enabled /\ ~p.hidden THEN 1 ELSE 0)
    /\ p.refreshTimer <=> p.refreshing = 1

NoticeKnown(p) ==
    /\ p.fading = (IF p.notice # None THEN 1 ELSE 0)
    /\ p.noticeTimer <=> p.notice # None

ShellInv == page.kind = "shell" => RefreshKnown(page) /\ NoticeKnown(page)

ShellFields ==
    {"kind", "mounted", "busy", "enabled", "interval", "hidden", "refreshTimer", "refreshing",
     "notice", "noticeTimer", "fading", "history", "reload"}

SameRefresh(p, q) ==
    /\ p.mounted = q.mounted /\ p.enabled = q.enabled /\ p.hidden = q.hidden
    /\ p.refreshTimer = q.refreshTimer /\ p.refreshing = q.refreshing

SameNotice(p, q) == p.fading = q.fading /\ p.notice = q.notice /\ p.noticeTimer = q.noticeTimer

\* Whatever was set before, what runs after startAutoRefresh is what is set.
LEMMA AutoRefreshStarted ==
    ASSUME NEW p, DOMAIN p = ShellFields,
           p.mounted,
           p.refreshing = (IF p.refreshTimer THEN 1 ELSE 0)
    PROVE  RefreshKnown(StartAutoRefresh(p)) /\ SameNotice(StartAutoRefresh(p), p)
BY DEF StartAutoRefresh, StopAutoRefresh, RefreshKnown, SameNotice, ShellFields

LEMMA NoticeShown ==
    ASSUME NEW p, DOMAIN p = ShellFields, NoticeKnown(p), NEW message \in {"success", "error"}
    PROVE  /\ NoticeKnown(WithNotice(p, message)) /\ SameRefresh(WithNotice(p, message), p)
           /\ NoticeKnown(WithoutNotice(p)) /\ SameRefresh(WithoutNotice(p), p)
           /\ DOMAIN WithNotice(p, message) = ShellFields
BY NoticeAssumption DEF WithNotice, WithoutNotice, StopFading, NoticeKnown, SameRefresh, ShellFields

LEMMA ShellStep ==
    ASSUME Inv, ShellInv, page.kind = "shell", NEW i, ShellEvent \/ ShellResume(i)
    PROVE  ShellInv'
<1>1. DOMAIN page = ShellFields
  BY DEF Inv, Framed, FreshOf, ShellFresh, ShellFields
<1>2. RefreshKnown(page) /\ NoticeKnown(page)
  BY DEF ShellInv
<1>3. page.refreshing = (IF page.refreshTimer THEN 1 ELSE 0)
  BY <1>2 DEF RefreshKnown
<1>4. ASSUME SameRefresh(page', page), SameNotice(page', page)
      PROVE  ShellInv'
  BY <1>2, <1>4 DEF ShellInv, RefreshKnown, NoticeKnown, SameRefresh, SameNotice
<1>5. ASSUME NEW p, DOMAIN p = ShellFields, SameNotice(p, page), p.mounted, p.mounted = page.mounted,
             p.refreshTimer = page.refreshTimer, p.refreshing = page.refreshing, page' = StartAutoRefresh(p)
      PROVE  ShellInv'
  <2>1. RefreshKnown(page') /\ SameNotice(page', p)
    BY <1>2, <1>3, <1>5, AutoRefreshStarted DEF RefreshKnown
  <2> QED
    BY <1>2, <1>5, <2>1 DEF ShellInv, NoticeKnown, SameNotice
<1>6. ASSUME SameRefresh(page', page), NoticeKnown(page')
      PROVE  ShellInv'
  BY <1>2, <1>6 DEF ShellInv, RefreshKnown, SameRefresh
<1>7. CASE SetAutoRefresh
  <2>1. PICK enabled, n : enabled \in BOOLEAN /\ page' = ApplyAutoRefresh(enabled, n) /\ page.mounted
    BY <1>7 DEF SetAutoRefresh, Clickable
  <2> DEFINE p == [page EXCEPT !.enabled = enabled, !.interval = AtLeastFive(n)]
  <2>2. /\ DOMAIN p = ShellFields /\ SameNotice(p, page) /\ p.mounted = page.mounted
        /\ p.refreshTimer = page.refreshTimer /\ p.refreshing = page.refreshing
    BY <1>1 DEF ShellFields, SameNotice
  <2>3. page' = StartAutoRefresh(p)
    BY <2>1 DEF ApplyAutoRefresh
  <2> HIDE DEF p
  <2> QED
    BY <1>2, <1>5, <2>1, <2>2, <2>3 DEF RefreshKnown
<1>8. CASE VisibilityChange
  <2> DEFINE p == [page EXCEPT !.hidden = ~@]
  <2>1. /\ DOMAIN p = ShellFields /\ SameNotice(p, page) /\ p.mounted = page.mounted
        /\ p.refreshTimer = page.refreshTimer /\ p.refreshing = page.refreshing
    BY <1>1 DEF ShellFields, SameNotice
  <2>2. page' = StartAutoRefresh(p) /\ page.mounted
    BY <1>8 DEF VisibilityChange
  <2> HIDE DEF p
  <2> QED
    BY <1>2, <1>5, <2>1, <2>2 DEF RefreshKnown
<1>9. CASE PageReports
  BY <1>1, <1>2, <1>6, <1>9, NoticeShown DEF PageReports
<1>10. CASE NoticeFades
  <2>1. SameRefresh(page', page)
    BY <1>1, <1>10 DEF NoticeFades, SameRefresh, ShellFields
  <2>2. NoticeKnown(page')
    BY <1>1, <1>2, <1>10 DEF NoticeFades, NoticeKnown, ShellFields
  <2> QED
    BY <1>6, <2>1, <2>2
<1>11. CASE TriggerOverviewReset
  BY <1>4, <1>11 DEF TriggerOverviewReset, SameRefresh, SameNotice
<1>12. CASE ReloadShell
  <2>1. /\ page'.mounted = FALSE /\ page'.enabled = page.enabled /\ page'.hidden = page.hidden
        /\ page'.refreshTimer = FALSE /\ page'.refreshing = 0
        /\ page'.notice = None /\ page'.noticeTimer = FALSE /\ page'.fading = 0
    BY <1>12 DEF ReloadShell, ShellFresh
  <2> QED
    BY <1>2, <2>1 DEF ShellInv, RefreshKnown, NoticeKnown
<1>13. CASE OverviewResetAnswered(i)
  <2>1. SameRefresh(page', page) /\ SameNotice(page', page)
    BY <1>1, <1>13 DEF OverviewResetAnswered, Raise, SameRefresh, SameNotice, ShellFields
  <2> QED
    BY <1>4, <2>1
<1>14. CASE OverviewResetPosted(i)
  <2> DEFINE reset == [page EXCEPT !.history = FALSE, !.reload = TRUE]
  <2>1. DOMAIN reset = ShellFields /\ SameRefresh(reset, page) /\ SameNotice(reset, page)
    BY <1>1 DEF ShellFields, SameRefresh, SameNotice
  <2>2. PICK p \in {WithNotice(reset, "success"), WithNotice(page, "error")} : page' = Lower(p, i)
    BY <1>14 DEF OverviewResetPosted
  <2> HIDE DEF reset
  <2>3. NoticeKnown(reset)
    BY <1>2, <2>1 DEF NoticeKnown, SameNotice
  <2>4. DOMAIN p = ShellFields /\ NoticeKnown(p) /\ SameRefresh(p, page)
    <3>1. CASE p = WithNotice(reset, "success")
      <4>1. DOMAIN p = ShellFields /\ NoticeKnown(p) /\ SameRefresh(p, reset)
        BY <2>1, <2>3, <3>1, NoticeShown
      <4> QED
        BY <2>1, <4>1 DEF SameRefresh
    <3>2. CASE p = WithNotice(page, "error")
      BY <1>1, <1>2, <3>2, NoticeShown
    <3> QED
      BY <2>2, <3>1, <3>2
  <2>5. SameRefresh(page', p) /\ SameNotice(page', p)
    BY <2>2, <2>4 DEF Lower, ShellFields, SameRefresh, SameNotice
  <2> QED
    BY <1>6, <2>4, <2>5 DEF NoticeKnown, SameNotice, SameRefresh
<1> QED
  BY <1>7, <1>8, <1>9, <1>10, <1>11, <1>12, <1>13, <1>14 DEF ShellEvent, ShellResume

LEMMA ShellNext ==
    ASSUME Inv, ShellInv, [WebNext]_webVars
    PROVE  ShellInv'
<1> SUFFICES ASSUME page'.kind = "shell"
             PROVE  ShellInv'
  BY DEF ShellInv
<1>1. page.kind = "shell"
  BY StepsOfKind
<1>2. DOMAIN page = ShellFields
  BY <1>1 DEF Inv, Framed, FreshOf, ShellFresh, ShellFields
<1>3. RefreshKnown(page) /\ NoticeKnown(page)
  BY <1>1 DEF ShellInv
<1>4. CASE UNCHANGED page
  BY <1>3, <1>4 DEF ShellInv, RefreshKnown, NoticeKnown
<1>5. CASE Mount
  <2> DEFINE p == [page EXCEPT !.mounted = TRUE]
  <2>1. /\ DOMAIN p = ShellFields /\ SameNotice(p, page) /\ p.mounted = TRUE
        /\ p.enabled = page.enabled /\ p.hidden = page.hidden
        /\ p.refreshTimer = page.refreshTimer /\ p.refreshing = page.refreshing
    BY <1>2 DEF ShellFields, SameNotice
  <2>2. page' = StartAutoRefresh(p)
    BY <1>1, <1>5 DEF Mount, ShellMounted
  <2> HIDE DEF p
  <2>3. RefreshKnown(page') /\ SameNotice(page', p)
    BY <1>3, <2>1, <2>2, AutoRefreshStarted DEF RefreshKnown
  <2> QED
    BY <1>3, <2>1, <2>3 DEF ShellInv, NoticeKnown, SameNotice
<1>6. ~Unmount
  BY <1>1 DEF Unmount
<1>7. ASSUME NEW i, Event \/ Resume(i)
      PROVE  ShellInv'
  BY <1>1, <1>7, ShellStep DEF Event, Resume
<1>8. CASE UNCHANGED webVars \/ ServerStep \/ DialogStep
  BY <1>4, <1>8, OthersWait DEF webVars, Inv
<1> QED
  BY <1>5, <1>6, <1>7, <1>8, StepsOfKind

\* One interval runs if the automatic refresh is on and the window in sight, none otherwise, and a
\* notice that is shown has one timeout that ends it.
THEOREM RefreshAsSetCorrect == WebSpec => []RefreshAsSet
<1>1. WebInit => ShellInv
  <2> SUFFICES ASSUME WebInit, page.kind = "shell"
               PROVE  ShellInv
    BY DEF ShellInv
  <2>1. page = [ShellFresh EXCEPT !.mounted = FALSE]
    BY FirstPage DEF FreshOf
  <2> QED
    BY <2>1 DEF ShellInv, ShellFresh, RefreshKnown, NoticeKnown
<1>2. Inv /\ ShellInv /\ [WebNext]_webVars => ShellInv'
  BY ShellNext
<1>3. ShellInv => RefreshAsSet
  BY DEF ShellInv, RefreshAsSet, RefreshKnown, NoticeKnown
<1> QED
  BY <1>1, <1>2, <1>3, InvCorrect, PTL DEF WebSpec

-----------------------------------------------------------------------------
(* The requery task: the interval and the timeout of the page that is open   *)
(* are those that its state calls for.                                       *)

Watched(p) ==
    /\ p.pending \in BOOLEAN
    /\ p.poll = (IF p.pending THEN 1000 ELSE IF Running(p) THEN 5000 ELSE 0)
    /\ p.pendingTimer = p.pending

RequeryInv == page.kind = "requery" =>
    /\ page.pending \in BOOLEAN
    /\ page.mounted => Watched(page)

RequeryFields ==
    {"kind", "mounted", "busy", "available", "status", "form", "pending", "pendingTimer", "poll", "scheduleTimer"}

SameWatch(p, q) ==
    /\ p.mounted = q.mounted /\ p.pending = q.pending /\ p.poll = q.poll
    /\ p.pendingTimer = q.pendingTimer /\ p.status = q.status

LEMMA PendingSet ==
    ASSUME NEW p, DOMAIN p = RequeryFields, NEW active \in BOOLEAN
    PROVE  /\ Watched(SetPending(p, active)) /\ DOMAIN SetPending(p, active) = RequeryFields
           /\ SetPending(p, active).mounted = p.mounted
BY DEF SetPending, EnsurePolling, Watched, Running, RequeryFields

LEMMA PollingEnsured ==
    ASSUME NEW p, DOMAIN p = RequeryFields, p.pending \in BOOLEAN
    PROVE  /\ p.pendingTimer = p.pending => Watched(EnsurePolling(p))
           /\ EnsurePolling(p).pending = p.pending /\ EnsurePolling(p).mounted = p.mounted
           /\ DOMAIN EnsurePolling(p) = RequeryFields
BY DEF EnsurePolling, Watched, Running, RequeryFields

LEMMA RequeryStep ==
    ASSUME Inv, RequeryInv, page.kind = "requery", NEW i, RequeryEvent \/ RequeryResume(i)
    PROVE  RequeryInv'
<1>1. DOMAIN page = RequeryFields
  BY DEF Inv, Framed, FreshOf, RequeryFresh, RequeryFields
<1>2. page.pending \in BOOLEAN /\ (page.mounted => Watched(page))
  BY DEF RequeryInv
<1>3. ASSUME SameWatch(page', page)
      PROVE  RequeryInv'
  BY <1>2, <1>3 DEF RequeryInv, Watched, SameWatch, Running
<1>4. ASSUME NEW p, DOMAIN p = RequeryFields, Watched(p), SameWatch(page', p)
      PROVE  RequeryInv'
  BY <1>4 DEF RequeryInv, Watched, SameWatch, Running
<1>5. ASSUME NEW p, DOMAIN p = RequeryFields, NEW j
      PROVE  SameWatch(Lower(p, j), p) /\ SameWatch(AskStatus(p), p)
  BY <1>5 DEF Lower, AskStatus, Raise, SameWatch, RequeryFields
<1>6. ASSUME NEW p, DOMAIN p = RequeryFields, SameWatch(p, page), PostSchedule(p)
      PROVE  RequeryInv'
  <2>1. SameWatch(page', p)
    BY <1>6 DEF PostSchedule, Raise, SameWatch, RequeryFields
  <2> QED
    BY <1>3, <1>6, <2>1 DEF SameWatch
<1>7. CASE RequeryRefresh \/ PollFires
  BY <1>1, <1>3, <1>5, <1>7 DEF RequeryRefresh, PollFires, RefreshStatus
<1>8. CASE PendingTimeout
  <2> DEFINE p == [page EXCEPT !.pending = FALSE, !.pendingTimer = FALSE]
  <2>1. DOMAIN p = RequeryFields /\ p.pending = FALSE /\ p.pendingTimer = FALSE
    BY <1>1 DEF RequeryFields
  <2>2. page' = EnsurePolling(p)
    BY <1>8 DEF PendingTimeout
  <2> HIDE DEF p
  <2>3. Watched(page')
    BY <2>1, <2>2, PollingEnsured
  <2> QED
    BY <2>3 DEF RequeryInv, Watched
<1>9. CASE AskAction \/ ServerRequery
  BY <1>3, <1>9 DEF AskAction, ServerRequery, SameWatch
<1>10. CASE ToggleSchedule
  <2>1. \A v : LET p == [page EXCEPT !.form.enabled = v] IN DOMAIN p = RequeryFields /\ SameWatch(p, page)
    BY <1>1 DEF SameWatch, RequeryFields
  <2> QED
    BY <1>6, <1>10, <2>1 DEF ToggleSchedule
<1>11. CASE EditSchedule
  <2>1. SameWatch(page', page)
    BY <1>1, <1>11 DEF EditSchedule, SameWatch, RequeryFields
  <2> QED
    BY <1>3, <2>1
<1>12. CASE ScheduleFires
  <2>1. LET p == [page EXCEPT !.scheduleTimer = FALSE] IN DOMAIN p = RequeryFields /\ SameWatch(p, page)
    BY <1>1 DEF SameWatch, RequeryFields
  <2> QED
    BY <1>6, <1>12, <2>1 DEF ScheduleFires
<1>13. CASE StatusRead(i)
  <2>1. CASE StatusKnown(i)
    <3>1. PICK p : /\ \E status, config : p = StatusShown(page, status, config)
                   /\ \/ page' = Lower(SetPending(p, FALSE), i)
                      \/ page' = Lower(EnsurePolling(p), i)
      BY <2>1 DEF StatusKnown
    <3>2. /\ DOMAIN p = RequeryFields /\ p.mounted = page.mounted
          /\ p.pending = page.pending /\ p.pendingTimer = page.pendingTimer
      BY <1>1, <3>1 DEF StatusShown, RequeryFields
    <3>3. CASE page' = Lower(SetPending(p, FALSE), i)
      BY <1>4, <1>5, <3>2, <3>3, PendingSet
    <3>4. CASE page' = Lower(EnsurePolling(p), i)
      <4>1. SameWatch(page', EnsurePolling(p)) /\ DOMAIN EnsurePolling(p) = RequeryFields
        BY <1>2, <1>5, <3>2, <3>4, PollingEnsured
      <4>2. page'.pending = page.pending /\ page'.mounted = page.mounted
        BY <1>2, <3>2, <4>1, PollingEnsured DEF SameWatch
      <4>3. page.mounted => Watched(EnsurePolling(p))
        BY <1>2, <3>2, PollingEnsured DEF Watched
      <4>4. CASE page.mounted
        BY <1>4, <4>1, <4>3, <4>4
      <4>5. CASE ~page.mounted
        BY <1>2, <4>2, <4>5 DEF RequeryInv
      <4> QED
        BY <4>4, <4>5
    <3> QED
      BY <3>1, <3>3, <3>4
  <2>2. CASE StatusUnknown(i)
    <3>1. \A v, w : DOMAIN [page EXCEPT !.available = v, !.status = w] = RequeryFields
      BY <1>1 DEF RequeryFields
    <3>2. CASE page' = Lower(SetPending([page EXCEPT !.available = FALSE, !.status = None], FALSE), i)
      BY <1>4, <1>5, <3>1, <3>2, PendingSet
    <3>3. CASE page' = Lower([page EXCEPT !.available = TRUE], i)
      <4>1. SameWatch(page', page)
        BY <1>1, <3>3 DEF Lower, SameWatch, RequeryFields
      <4> QED
        BY <1>3, <4>1
    <3> QED
      BY <2>2, <3>2, <3>3 DEF StatusUnknown
  <2> QED
    BY <1>13, <2>1, <2>2 DEF StatusRead
<1>14. CASE ActionAnswered(i)
  <2>1. SameWatch(page', page)
    BY <1>1, <1>14 DEF ActionAnswered, Acting, SameWatch, RequeryFields
  <2> QED
    BY <1>3, <2>1
<1>15. CASE ActionPosted(i)
  <2>1. PICK p : /\ p = page \/ \E active \in BOOLEAN : p = SetPending(page, active)
                 /\ \/ page' = AskStatus(p) \/ page' = Lower(p, i) \/ page' = Raise(p, {"listStatsRefreshing"})
    <3>1. AllGood(i) \in BOOLEAN
      BY DEF AllGood
    <3> QED
      BY <1>15, <3>1 DEF ActionPosted
  <2>2. DOMAIN p = RequeryFields
    BY <1>1, <2>1, PendingSet
  <2>3. SameWatch(page', p)
    BY <1>5, <2>1, <2>2 DEF Raise, SameWatch, RequeryFields
  <2>4. CASE p = page
    BY <1>3, <2>3, <2>4
  <2>5. CASE \E active \in BOOLEAN : p = SetPending(page, active)
    <3>1. Watched(p)
      BY <1>1, <2>5, PendingSet
    <3> QED
      BY <1>4, <2>2, <2>3, <3>1
  <2> QED
    BY <2>1, <2>4, <2>5
<1>16. CASE RuleCountsRead(i) \/ ScheduleSaved(i)
  BY <1>1, <1>3, <1>5, <1>16 DEF RuleCountsRead, ScheduleSaved
<1> QED
  BY <1>7, <1>8, <1>9, <1>10, <1>11, <1>12, <1>13, <1>14, <1>15, <1>16 DEF RequeryEvent, RequeryResume

LEMMA RequeryNext ==
    ASSUME Inv, RequeryInv, [WebNext]_webVars
    PROVE  RequeryInv'
<1> SUFFICES ASSUME page'.kind = "requery"
             PROVE  RequeryInv'
  BY DEF RequeryInv
<1>1. page.kind = "requery"
  BY StepsOfKind
<1>2. DOMAIN page = RequeryFields
  BY <1>1 DEF Inv, Framed, FreshOf, RequeryFresh, RequeryFields
<1>3. CASE UNCHANGED page
  BY <1>3 DEF RequeryInv, Watched, Running
<1>4. CASE Mount
  <2>1. page'.pending = FALSE /\ page'.pendingTimer = FALSE /\ page'.poll = 0 /\ page'.status = None
    BY <1>1, <1>4 DEF Mount, RequeryMounted, AskStatus, Raise, RequeryFresh
  <2>2. page'.pending \in BOOLEAN /\ page'.pendingTimer = page'.pending /\ ~page'.pending
    BY <2>1, Zenon
  <2>3. page'.status # "running"
    BY <2>1, StatusAssumption
  <2> QED
    BY <2>1, <2>2, <2>3 DEF RequeryInv, Watched, Running
<1>5. CASE Unmount
  <2>1. page'.mounted = FALSE /\ page'.pending \in {FALSE, page.pending}
    BY <1>1, <1>2, <1>5 DEF Unmount, LeftPage, FreshOf, RequeryFresh, RequeryUnmounted, RequeryFields
  <2> QED
    BY <1>1, <2>1 DEF RequeryInv
<1>6. ASSUME NEW i, Event \/ Resume(i)
      PROVE  RequeryInv'
  BY <1>1, <1>6, RequeryStep DEF Event, Resume
<1>7. CASE UNCHANGED webVars \/ ServerStep \/ DialogStep
  BY <1>3, <1>7, OthersWait DEF webVars, Inv
<1> QED
  BY <1>4, <1>5, <1>6, <1>7, StepsOfKind

\* While the data page is open its requery task is polled if and only if it runs or is awaited,
\* every second while it is awaited, and a wait has the timer that ends it.
THEOREM RequeryIsWatchedCorrect == WebSpec => []RequeryIsWatched
<1>1. WebInit => RequeryInv
  <2> SUFFICES ASSUME WebInit, page.kind = "requery"
               PROVE  RequeryInv
    BY DEF RequeryInv
  <2>1. page.pending = FALSE /\ page.mounted = FALSE
    BY FirstPage DEF FreshOf, RequeryFresh
  <2> QED
    BY <2>1 DEF RequeryInv
<1>2. Inv /\ RequeryInv /\ [WebNext]_webVars => RequeryInv'
  BY RequeryNext
<1>3. RequeryInv => RequeryIsWatched
  BY DEF RequeryInv, RequeryIsWatched, Watched, Running
<1> QED
  BY <1>1, <1>2, <1>3, InvCorrect, PTL DEF WebSpec

-----------------------------------------------------------------------------
(* The local lists: every text stays with its list, in the editor, in the    *)
(* drafts, on the way to the server and back, and at the server.             *)

Of(t, text) == \A line \in text : line[1] = t

ServerApart ==
    /\ DOMAIN server = Lists \cup {"groups"} /\ server["groups"] \subseteq GroupLists
    /\ \A t \in Lists : Of(t, server[t])

PageApart(p) ==
    /\ p.groups \subseteq GroupLists
    /\ p.selected \in Lists \cup {None} /\ Of(p.selected, p.content)
    /\ \A t \in DOMAIN p.drafts : t \in Lists /\ Of(t, p.drafts[t].content)

GoodReply(t) == "only" \in DOMAIN t.got /\ t.got["only"].ok

TaskApart(t, drafts) ==
    \/ /\ t.fn \in {"init", "listRefresh"} /\ t.ask = One(Get("groups"))
       /\ GoodReply(t) => t.got["only"].val \subseteq GroupLists
    \/ /\ t.fn = "loadList" /\ t.mem \in Lists /\ t.ask = One(Get(t.mem))
       /\ GoodReply(t) => Of(t.mem, t.got["only"].val)
    \/ /\ t.fn = "saveList" /\ t.mem.tag \in Lists /\ t.mem.left \subseteq drafts
       /\ \E text : Of(t.mem.tag, text) /\ t.ask = One(Put(t.mem.tag, text))

ListInv == page.kind = "list" =>
    ServerApart /\ PageApart(page) /\ \A i \in DOMAIN tasks : TaskApart(tasks[i], DOMAIN page.drafts)

ListFields == {"kind", "mounted", "busy", "selected", "content", "drafts", "groups"}

LEMMA NewTaskApart ==
    ASSUME NEW fn, NEW ask, NEW mem, NEW lower, NEW drafts,
           \/ fn \in {"init", "listRefresh"} /\ ask = One(Get("groups"))
           \/ fn = "loadList" /\ mem \in Lists /\ ask = One(Get(mem))
           \/ /\ fn = "saveList" /\ mem.tag \in Lists /\ mem.left \subseteq drafts
              /\ \E text : Of(mem.tag, text) /\ ask = One(Put(mem.tag, text))
    PROVE  TaskApart(Task(fn, ask, mem, lower), drafts)
<1> DEFINE t == Task(fn, ask, mem, lower)
<1>1. t.fn = fn /\ t.ask = ask /\ t.mem = mem /\ DOMAIN t.got = {}
  BY TaskFields
<1> HIDE DEF t
<1>2. TaskApart(t, drafts)
  BY <1>1 DEF TaskApart, GoodReply
<1> QED
  BY <1>2 DEF t

LEMMA MoreDrafts ==
    ASSUME NEW t, NEW drafts, NEW more, TaskApart(t, drafts), drafts \subseteq more
    PROVE  TaskApart(t, more)
BY DEF TaskApart

\* The functions that wait, after one more has begun, gone on or ended.
LEMMA TasksApart ==
    ASSUME NEW drafts, NEW more, drafts \subseteq more,
           \A j \in DOMAIN tasks : TaskApart(tasks[j], drafts),
           NEW fn, NEW ask, NEW mem, NEW lower,
           \/ Begin(fn, ask, mem, lower) /\ TaskApart(Task(fn, ask, mem, lower), more)
           \/ \E i \in DOMAIN tasks : Await(i, fn, ask, mem, lower) /\ TaskApart(Task(fn, ask, mem, lower), more)
           \/ \E i : End(i)
           \/ UNCHANGED tasks
    PROVE  \A j \in DOMAIN tasks' : TaskApart(tasks'[j], more)
<1>1. \A j \in DOMAIN tasks : TaskApart(tasks[j], more)
  BY MoreDrafts
<1>2. CASE Begin(fn, ask, mem, lower) /\ TaskApart(Task(fn, ask, mem, lower), more)
  <2>1. PICK n : /\ DOMAIN tasks' = DOMAIN tasks \cup {n}
                 /\ tasks'[n] = Task(fn, ask, mem, lower)
                 /\ \A j \in DOMAIN tasks : tasks'[j] = tasks[j]
    BY <1>2, BeginAdds
  <2> QED
    BY <1>1, <1>2, <2>1
<1>3. CASE \E i \in DOMAIN tasks : Await(i, fn, ask, mem, lower) /\ TaskApart(Task(fn, ask, mem, lower), more)
  <2>1. PICK i \in DOMAIN tasks : Await(i, fn, ask, mem, lower) /\ TaskApart(Task(fn, ask, mem, lower), more)
    BY <1>3
  <2>2. /\ DOMAIN tasks' = DOMAIN tasks /\ tasks'[i] = Task(fn, ask, mem, lower)
        /\ \A j \in DOMAIN tasks : j # i => tasks'[j] = tasks[j]
    BY <2>1, AwaitGoes
  <2> QED
    BY <1>1, <2>1, <2>2
<1>4. CASE \E i : End(i)
  BY <1>1, <1>4, EndRemoves
<1> QED
  BY <1>1, <1>2, <1>3, <1>4

LEMMA ListServed ==
    ASSUME Inv, ListInv, page.kind = "list", ServerStep
    PROVE  ListInv'
<1>1. Questions /\ ServerApart /\ \A j \in DOMAIN tasks : TaskApart(tasks[j], DOMAIN page.drafts)
  BY DEF Inv, ListInv
<1>2. PICK i, k : /\ i \in DOMAIN tasks /\ k \in Unanswered(i)
                  /\ Serve(i, k) \/ Refuse(i, k) \/ LoseReply(i, k)
  BY DEF ServerStep
<1>3. UNCHANGED page
  BY <1>2 DEF Serve, Refuse, LoseReply
<1> DEFINE t == tasks[i]
<1>4. TaskApart(t, DOMAIN page.drafts)
  BY <1>1, <1>2
<1>5. k = "only" /\ k \notin DOMAIN t.got /\ DOMAIN t.got \subseteq {"only"}
  BY <1>1, <1>2, <1>4 DEF Unanswered, Waiting, TaskApart, One, Questions
<1>6. PICK reply : /\ GiveReply(i, k, reply)
                   /\ \/ reply = Failed
                      \/ reply = Good(Answer(t.ask[k]))
                   /\ server' \in {server, Applied(t.ask[k])}
  BY <1>2 DEF Serve, Refuse, LoseReply
<1>7. /\ DOMAIN tasks' = DOMAIN tasks /\ SameTask(t, tasks'[i])
      /\ DOMAIN tasks'[i].got = {"only"} /\ tasks'[i].got["only"] = reply
      /\ \A j \in DOMAIN tasks : j # i => tasks'[j] = tasks[j]
  BY <1>1, <1>2, <1>5, <1>6, ReplyGiven
<1> HIDE DEF t
<1>8. ServerApart' /\ TaskApart(tasks'[i], DOMAIN page.drafts)
  <2>1. CASE t.fn \in {"init", "listRefresh"} /\ t.ask = One(Get("groups"))
    <3>1. Applied(t.ask[k]) = server /\ Answer(t.ask[k]) = server["groups"]
      BY <1>5, <2>1 DEF Applied, Answer, One, Get
    <3> QED
      BY <1>1, <1>6, <1>7, <2>1, <3>1 DEF TaskApart, SameTask, ServerApart, Failed, Good, GoodReply
  <2>2. CASE t.fn = "loadList" /\ t.mem \in Lists /\ t.ask = One(Get(t.mem))
    <3>1. Applied(t.ask[k]) = server /\ Answer(t.ask[k]) = server[t.mem]
      BY <1>5, <2>2 DEF Applied, Answer, One, Get
    <3> QED
      BY <1>1, <1>6, <1>7, <2>2, <3>1 DEF TaskApart, SameTask, ServerApart, Failed, Good, GoodReply
  <2>3. ASSUME t.fn = "saveList", t.mem.tag \in Lists, t.mem.left \subseteq DOMAIN page.drafts,
               NEW text, Of(t.mem.tag, text), t.ask = One(Put(t.mem.tag, text))
        PROVE  ServerApart' /\ TaskApart(tasks'[i], DOMAIN page.drafts)
    <3>1. Applied(t.ask[k]) = [server EXCEPT ![t.mem.tag] = text]
      <4> DEFINE request == t.ask[k]
      <4>1. request.op = "put" /\ request.key = t.mem.tag /\ request.val = text
        BY <1>5, <2>3 DEF One, Put
      <4> HIDE DEF request
      <4>2. Applied(request) = [server EXCEPT ![t.mem.tag] = text]
        BY <4>1 DEF Applied
      <4> QED
        BY <4>2 DEF request
    <3>2. ServerApart'
      BY <1>1, <1>6, <2>3, <3>1, ListsAssumption DEF ServerApart
    <3> QED
      BY <1>7, <2>3, <3>2 DEF TaskApart, SameTask
  <2> QED
    BY <1>4, <2>1, <2>2, <2>3 DEF TaskApart
<1> QED
  BY <1>1, <1>3, <1>7, <1>8 DEF ListInv

LEMMA ListStep ==
    ASSUME Inv, ListInv, page.kind = "list", NEW i, ListEvent \/ ListResume(i)
    PROVE  ListInv'
<1>1. DOMAIN page = ListFields
  BY DEF Inv, Framed, FreshOf, ListFresh, ListFields
<1>2. ServerApart /\ PageApart(page) /\ \A j \in DOMAIN tasks : TaskApart(tasks[j], DOMAIN page.drafts)
  BY DEF ListInv
<1>3. UNCHANGED server
  BY DEF ListEvent, ListResume, SelectList, TypeInEditor, SaveList, ListRefresh, ListLoaded, ListSaved,
         ProfilesLoaded, OnlyPage
<1>4. ServerApart'
  BY <1>2, <1>3 DEF ServerApart
<1>5. ASSUME PageApart(page'), DOMAIN page.drafts \subseteq DOMAIN page'.drafts,
             NEW fn, NEW ask, NEW mem, NEW lower,
             \/ /\ Begin(fn, ask, mem, lower)
                /\ TaskApart(Task(fn, ask, mem, lower), DOMAIN page'.drafts)
             \/ \E j \in DOMAIN tasks : /\ Await(j, fn, ask, mem, lower)
                                        /\ TaskApart(Task(fn, ask, mem, lower), DOMAIN page'.drafts)
             \/ \E j : End(j)
             \/ UNCHANGED tasks
      PROVE  ListInv'
  <2>1. \A j \in DOMAIN tasks' : TaskApart(tasks'[j], DOMAIN page'.drafts)
    BY <1>2, <1>5, TasksApart
  <2> QED
    BY <1>4, <1>5, <2>1 DEF ListInv, PageApart
<1>6. ASSUME NEW t \in DOMAIN page.drafts
      PROVE  PageApart(ShowDraft(t)) /\ DOMAIN ShowDraft(t) = ListFields /\ ShowDraft(t).drafts = page.drafts
             /\ ShowDraft(t).groups = page.groups
  BY <1>1, <1>2 DEF ShowDraft, PageApart, ListFields
<1>7. ASSUME NEW t \in Lists
      PROVE  PageApart(ShowLoading(t)) /\ DOMAIN ShowLoading(t) = ListFields /\ ShowLoading(t).drafts = page.drafts
             /\ ShowLoading(t).groups = page.groups
  BY <1>1, <1>2 DEF ShowLoading, Raise, PageApart, ListFields, Of
<1>8. CASE SelectList
  <2>1. PICK t \in Profiles : \/ HasDraft(t) /\ page' = ShowDraft(t) /\ UNCHANGED tasks
                              \/ page' = ShowLoading(t) /\ Begin("loadList", Fetch(t), t, {"loading"})
    BY <1>8 DEF SelectList
  <2>2. t \in Lists
    BY <1>2 DEF Profiles, PageApart, Lists
  <2>3. CASE HasDraft(t) /\ page' = ShowDraft(t) /\ UNCHANGED tasks
    BY <1>5, <1>6, <2>3 DEF HasDraft
  <2>4. CASE page' = ShowLoading(t) /\ Begin("loadList", Fetch(t), t, {"loading"})
    <3>1. TaskApart(Task("loadList", Fetch(t), t, {"loading"}), DOMAIN page'.drafts)
      BY <2>2, NewTaskApart DEF Fetch
    <3>2. PageApart(page') /\ page'.drafts = page.drafts
      BY <1>7, <2>2, <2>4
    <3> QED
      BY <1>5, <2>4, <3>1, <3>2
  <2> QED
    BY <2>1, <2>3, <2>4
<1>9. CASE TypeInEditor
  <2> DEFINE t == page.selected
             text == page.content \cup {NewLine(t)}
  <2>1. t \in Lists /\ page' = EditorInput(text) /\ UNCHANGED tasks
    BY <1>2, <1>9 DEF TypeInEditor, PageApart, OnlyPage
  <2>2. Of(t, text)
    BY <1>2 DEF PageApart, Of, NewLine
  <2>3. /\ page'.selected = t /\ page'.content = text /\ page'.groups = page.groups
        /\ \E original : page'.drafts = Extend(page.drafts, t, Draft(original, text))
    <3> HIDE DEF text
    <3> QED
      BY <1>1, <2>1 DEF EditorInput, ListFields
  <2> HIDE DEF t, text
  <2>4. PICK original : page'.drafts = Extend(page.drafts, t, Draft(original, text))
    BY <2>3
  <2>5. /\ DOMAIN page'.drafts = DOMAIN page.drafts \cup {t} /\ page'.drafts[t].content = text
        /\ \A u \in DOMAIN page.drafts : u # t => page'.drafts[u] = page.drafts[u]
    BY <2>4 DEF Extend, Draft
  <2>6. PageApart(page')
    BY <1>2, <2>1, <2>2, <2>3, <2>5 DEF PageApart
  <2> QED
    BY <1>5, <2>1, <2>5, <2>6
<1>10. CASE SaveList
  <2>1. PICK t \in DirtyLists : /\ page' = Raise(page, {"saving"})
                                /\ Begin("saveList", PostList(t), [tag |-> t, left |-> DirtyLists \ {t}], {"saving"})
    BY <1>10 DEF SaveList
  <2>2. DirtyLists \subseteq DOMAIN page.drafts
    BY DEF DirtyLists
  <2>3. t \in Lists /\ Of(t, page.drafts[t].content)
    BY <1>2, <2>2 DEF PageApart
  <2>4. PageApart(page') /\ page'.drafts = page.drafts
    BY <1>1, <1>2, <2>1 DEF Raise, PageApart, ListFields
  <2>5. TaskApart(Task("saveList", PostList(t), [tag |-> t, left |-> DirtyLists \ {t}], {"saving"}),
                  DOMAIN page'.drafts)
    BY <2>2, <2>3, <2>4, NewTaskApart DEF PostList
  <2> QED
    BY <1>5, <2>1, <2>4, <2>5
<1>11. CASE ListRefresh
  <2>1. Begin("listRefresh", One(Get("groups")), None, {}) /\ UNCHANGED page
    BY <1>11 DEF ListRefresh
  <2>2. TaskApart(Task("listRefresh", One(Get("groups")), None, {}), DOMAIN page'.drafts)
    BY NewTaskApart
  <2> QED
    BY <1>2, <1>5, <2>1, <2>2
<1>12. CASE ListLoaded(i)
  <2>1. i \in DOMAIN tasks /\ tasks[i].fn = "loadList" /\ DOMAIN tasks[i].got = DOMAIN tasks[i].ask /\ End(i)
        /\ page' = Lower(IF Reply(i).ok THEN ListShown(tasks[i].mem, Reply(i).val) ELSE page, i)
    BY <1>12 DEF ListLoaded, Replied
  <2>2. CASE ~Reply(i).ok
    <3>1. PageApart(page') /\ page'.drafts = page.drafts
      BY <1>1, <1>2, <2>1, <2>2 DEF Lower, PageApart, ListFields
    <3> QED
      BY <1>5, <2>1, <3>1
  <2>3. CASE Reply(i).ok
    <3> DEFINE t == tasks[i].mem
               text == Reply(i).val
    <3>1. t \in Lists /\ Of(t, text)
      BY <1>2, <2>1, <2>3 DEF TaskApart, One, GoodReply, Reply
    <3>2. page' = Lower(ListShown(t, text), i)
      BY <2>1, <2>3
    <3> HIDE DEF t, text
    <3>3. /\ page'.drafts = Extend(page.drafts, t, Draft(text, text))
          /\ page'.selected = page.selected /\ page'.groups = page.groups
          /\ page'.content = IF page.selected = t THEN text ELSE page.content
      BY <1>1, <3>2 DEF ListShown, Lower, ListFields
    <3>4. /\ DOMAIN page'.drafts = DOMAIN page.drafts \cup {t} /\ page'.drafts[t].content = text
          /\ \A u \in DOMAIN page.drafts : u # t => page'.drafts[u] = page.drafts[u]
      BY <3>3 DEF Extend, Draft
    <3>5. PageApart(page')
      BY <1>2, <3>1, <3>3, <3>4 DEF PageApart
    <3> QED
      BY <1>5, <2>1, <3>4, <3>5
  <2> QED
    BY <2>2, <2>3
<1>13. CASE ListSaved(i)
  <2> DEFINE tag == tasks[i].mem.tag
             left == tasks[i].mem.left
             p == AfterPost(i)
  <2>1. i \in DOMAIN tasks /\ tasks[i].fn = "saveList"
    BY <1>13 DEF ListSaved, Replied
  <2>2. /\ tag \in Lists /\ left \subseteq DOMAIN page.drafts
        /\ Of(tag, tasks[i].ask["only"].val)
    <3>1. TaskApart(tasks[i], DOMAIN page.drafts)
      BY <1>2, <2>1
    <3>2. PICK text : Of(tag, text) /\ tasks[i].ask = One(Put(tag, text))
      BY <2>1, <3>1 DEF TaskApart
    <3>3. tasks[i].ask["only"].val = text
      BY <3>2 DEF One, Put
    <3> QED
      BY <2>1, <3>1, <3>2, <3>3 DEF TaskApart
  <2>3. DOMAIN p = ListFields /\ DOMAIN p.drafts = DOMAIN page.drafts /\ PageApart(p)
    <3>1. CASE p = page
      BY <1>1, <1>2, <3>1
    <3>2. ASSUME NEW text, text = tasks[i].ask["only"].val, p = [page EXCEPT !.drafts[tag] = Draft(text, text)]
          PROVE  DOMAIN p = ListFields /\ DOMAIN p.drafts = DOMAIN page.drafts /\ PageApart(p)
      <4> HIDE DEF tag, p
      <4>1. /\ DOMAIN p = ListFields /\ p.drafts = [page.drafts EXCEPT ![tag] = Draft(text, text)]
            /\ p.groups = page.groups /\ p.selected = page.selected /\ p.content = page.content
        BY <1>1, <3>2 DEF ListFields
      <4>2. DOMAIN p.drafts = DOMAIN page.drafts
            /\ \A u \in DOMAIN page.drafts : p.drafts[u].content = IF u = tag THEN text ELSE page.drafts[u].content
        BY <4>1 DEF Draft
      <4> QED
        BY <1>2, <2>2, <3>2, <4>1, <4>2 DEF PageApart
    <3>3. p = page \/ \E text : text = tasks[i].ask["only"].val /\ p = [page EXCEPT !.drafts[tag] = Draft(text, text)]
      BY DEF AfterPost
    <3> HIDE DEF p, tag
    <3> QED
      BY <3>1, <3>2, <3>3
  <2>4. \/ page' = Lower(ShowActiveDraft(p), i) /\ End(i)
        \/ \E t \in left : page' = p /\ Await(i, "saveList", PostList(t), [tag |-> t, left |-> left \ {t}], {"saving"})
    BY <1>13 DEF ListSaved
  <2> HIDE DEF p, left
  <2>5. CASE page' = Lower(ShowActiveDraft(p), i) /\ End(i)
    <3>1. PageApart(page') /\ page'.drafts = p.drafts
      BY <2>3, <2>5 DEF Lower, ShowActiveDraft, PageApart, ListFields
    <3> QED
      BY <1>5, <2>3, <2>5, <3>1
  <2>6. ASSUME NEW t \in left, page' = p,
               Await(i, "saveList", PostList(t), [tag |-> t, left |-> left \ {t}], {"saving"})
        PROVE  ListInv'
    <3>1. t \in Lists /\ Of(t, page.drafts[t].content)
      BY <1>2, <2>2 DEF PageApart
    <3>2. TaskApart(Task("saveList", PostList(t), [tag |-> t, left |-> left \ {t}], {"saving"}), DOMAIN page'.drafts)
      BY <2>2, <2>3, <2>6, <3>1, NewTaskApart DEF PostList
    <3> QED
      BY <1>5, <2>1, <2>3, <2>6, <3>2
  <2> QED
    BY <2>4, <2>5, <2>6
<1>14. CASE ProfilesLoaded(i)
  <2> DEFINE groups == Settled(i, "only", {})
             t == IF tasks[i].fn = "init" /\ page.selected = None THEN FirstList ELSE page.selected
  <2>1. i \in DOMAIN tasks /\ tasks[i].fn \in {"init", "listRefresh"} /\ DOMAIN tasks[i].got = DOMAIN tasks[i].ask
    BY <1>14 DEF ProfilesLoaded, Replied
  <2>2. groups \subseteq GroupLists
    BY <1>2, <2>1 DEF TaskApart, Settled, One, GoodReply
  <2>3. \/ page' = [page EXCEPT !.groups = groups] /\ End(i)
        \/ HasDraft(t) /\ page' = [ShowDraft(t) EXCEPT !.groups = groups] /\ End(i)
        \/ /\ t # None /\ page' = [ShowLoading(t) EXCEPT !.groups = groups]
           /\ Await(i, "loadList", Fetch(t), t, {"loading"})
    <3>1. [page EXCEPT !.groups = groups].groups = groups
      BY <1>1 DEF ListFields
    <3> QED
      BY <1>14, <3>1 DEF ProfilesLoaded
  <2>4. t \in Lists \cup {None}
    BY <1>2, FirstListAssumption DEF PageApart, Lists
  <2> HIDE DEF groups, t
  <2>5. CASE page' = [page EXCEPT !.groups = groups] /\ End(i)
    <3>1. PageApart(page') /\ page'.drafts = page.drafts
      BY <1>1, <1>2, <2>2, <2>5 DEF PageApart, ListFields
    <3> QED
      BY <1>5, <2>5, <3>1
  <2>6. CASE HasDraft(t) /\ page' = [ShowDraft(t) EXCEPT !.groups = groups] /\ End(i)
    <3>1. PageApart(page') /\ page'.drafts = page.drafts
      BY <1>6, <2>2, <2>6 DEF PageApart, ListFields, HasDraft
    <3> QED
      BY <1>5, <2>6, <3>1
  <2>7. CASE /\ t # None /\ page' = [ShowLoading(t) EXCEPT !.groups = groups]
             /\ Await(i, "loadList", Fetch(t), t, {"loading"})
    <3>1. PageApart(page') /\ page'.drafts = page.drafts
      BY <1>7, <2>2, <2>4, <2>7 DEF PageApart, ListFields
    <3>2. TaskApart(Task("loadList", Fetch(t), t, {"loading"}), DOMAIN page'.drafts)
      BY <2>4, <2>7, NewTaskApart DEF Fetch
    <3> QED
      BY <1>5, <2>1, <2>7, <3>1, <3>2
  <2> QED
    BY <2>3, <2>5, <2>6, <2>7
<1> QED
  BY <1>8, <1>9, <1>10, <1>11, <1>12, <1>13, <1>14 DEF ListEvent, ListResume

LEMMA ListNext ==
    ASSUME Inv, ListInv, [WebNext]_webVars
    PROVE  ListInv'
<1> SUFFICES ASSUME page'.kind = "list"
             PROVE  ListInv'
  BY DEF ListInv
<1>1. page.kind = "list"
  BY StepsOfKind
<1>2. DOMAIN page = ListFields
  BY <1>1 DEF Inv, Framed, FreshOf, ListFresh, ListFields
<1>3. ServerApart /\ PageApart(page) /\ \A j \in DOMAIN tasks : TaskApart(tasks[j], DOMAIN page.drafts)
  BY <1>1 DEF ListInv
<1>4. CASE UNCHANGED webVars
  BY <1>3, <1>4 DEF ListInv, ServerApart, PageApart, webVars
<1> DEFINE Blank(p) == p.groups = {} /\ p.selected = None /\ p.content = {} /\ DOMAIN p.drafts = {}
<1>5. \A p : Blank(p) => PageApart(p)
  BY DEF PageApart, Of
<1>6. CASE Mount
  <2>1. page' = ListFresh /\ Begin("init", One(Get("groups")), None, {}) /\ UNCHANGED server
        /\ DOMAIN tasks = {}
    BY <1>1, <1>6 DEF Mount, ListMounted, Nothing
  <2>2. Blank(page')
    BY <2>1 DEF ListFresh, Nothing
  <2>3. TaskApart(Task("init", One(Get("groups")), None, {}), DOMAIN page'.drafts)
    BY NewTaskApart
  <2>4. \A j \in DOMAIN tasks' : TaskApart(tasks'[j], DOMAIN page'.drafts)
    <3>1. \A j \in DOMAIN tasks : TaskApart(tasks[j], {})
      BY <2>1
    <3> QED
      BY <2>1, <2>3, <3>1, TasksApart
  <2> QED
    BY <1>3, <1>5, <2>1, <2>2, <2>4 DEF ListInv, ServerApart, PageApart
<1>7. CASE Unmount
  <2>1. UNCHANGED <<server, tasks>>
    BY <1>7 DEF Unmount, OnlyPage
  <2>2. CASE tasks = Nothing /\ page' = [ListFresh EXCEPT !.mounted = FALSE]
    <3>1. Blank(page') /\ DOMAIN tasks = {}
      BY <2>2 DEF ListFresh, Nothing
    <3> QED
      BY <1>3, <1>5, <2>1, <3>1 DEF ListInv, ServerApart, PageApart
  <2>3. CASE page' = [page EXCEPT !.mounted = FALSE]
    <3>1. PageApart(page') /\ page'.drafts = page.drafts
      BY <1>2, <1>3, <2>3 DEF PageApart, ListFields
    <3> QED
      BY <1>3, <2>1, <3>1 DEF ListInv, ServerApart, PageApart
  <2> QED
    BY <1>1, <1>7, <2>2, <2>3 DEF Unmount, LeftPage, FreshOf
<1>8. CASE ServerStep
  BY <1>1, <1>8, ListServed
<1>9. ~DialogStep
  <2>1. Questions
    BY DEF Inv
  <2>2. dialog = None
    BY <1>3, <2>1 DEF Questions, TaskApart, Askers
  <2> QED
    BY <2>2 DEF DialogStep, AnswerDialog
<1>10. ASSUME NEW i, Event \/ Resume(i)
       PROVE  ListInv'
  BY <1>1, <1>10, ListStep DEF Event, Resume
<1> QED
  BY <1>4, <1>6, <1>7, <1>8, <1>9, <1>10, StepsOfKind

\* The text of one list is never saved as another list, however selecting, loading, typing and saving
\* overlap.
THEOREM ListsKeepApartCorrect == WebSpec => []ListsKeepApart
<1>1. WebInit => ListInv
  <2> SUFFICES ASSUME WebInit, page.kind = "list"
               PROVE  ListInv
    BY DEF ListInv
  <2>1. page = [ListFresh EXCEPT !.mounted = FALSE] /\ server = ListServer /\ DOMAIN tasks = {}
    BY FirstPage DEF FreshOf, ServersOf
  <2>2. PageApart(page)
    BY <2>1 DEF ListFresh, Nothing, PageApart, Of
  <2>3. ServerApart
    <3>1. DOMAIN server = Lists \cup {"groups"} /\ server["groups"] = GroupLists
          /\ \A t \in Lists : server[t] = {OldLine(t)}
      BY <2>1, ListsAssumption DEF ListServer
    <3> QED
      BY <3>1 DEF ServerApart, Of, OldLine
  <2> QED
    BY <2>1, <2>2, <2>3 DEF ListInv
<1>2. Inv /\ ListInv /\ [WebNext]_webVars => ListInv'
  BY ListNext
<1>3. ListInv => ListsKeepApart
  BY DEF ListInv, ListsKeepApart, ServerApart, Of
<1> QED
  BY <1>1, <1>2, <1>3, InvCorrect, PTL DEF WebSpec

-----------------------------------------------------------------------------
(* The diversion rules: what the page shows came from the plugin of its type, *)
(* and what it sends goes there under the rule's own name.                   *)

IsRule(rule, type) == DOMAIN rule = {"name", "type", "enabled"} /\ rule.type = type

\* A row of the table, as it was read.
IsRow(row) == row.home \in RuleTypes /\ IsRule(row.rule, row.home)

ServerRules ==
    /\ DOMAIN server = RuleTypes \cup {"specials", AdGuard} /\ server["specials"] \subseteq GroupTypes
    /\ \A t \in RuleTypes : \A n \in DOMAIN server[t] : server[t][n].name = n /\ IsRule(server[t][n], t)

PageRules(p) ==
    /\ p.mode \in {Diversion, AdGuard} /\ p.groups \subseteq GroupTypes
    /\ \A row \in p.rows : IsRow(row)
    /\ p.editor # None /\ ~p.editor.new /\ p.mode = Diversion => IsRow(p.editor.row)

\* A request that leaves each rule with the plugin of its type.
Files(request) ==
    \/ request.op \in {"get", "call", "confirm"}
    \/ request.key = AdGuard /\ request.op \in {"set", "add"}
    \/ request.key \in RuleTypes \cup {AdGuard} /\ request.op = "drop"
    \/ /\ request.key \in RuleTypes /\ request.op = "set"
       /\ request.val.name = request.at /\ IsRule(request.val, request.key)

RulesOf(t, val) == \A n \in DOMAIN val : IsRule(val[n], t)

TaskRules(t, mode) ==
    /\ \A k \in DOMAIN t.ask : Files(t.ask[k])
    /\ t.fn = "ruleGroups" => /\ t.ask = One(Get("specials"))
                              /\ GoodReply(t) => t.got["only"].val \subseteq GroupTypes
    /\ t.fn = "diversionRules" => \A k \in DOMAIN t.ask :
        /\ k \in RuleTypes /\ t.ask[k] = Get(k)
        /\ k \in DOMAIN t.got /\ t.got[k].ok => RulesOf(k, t.got[k].val)
    /\ t.fn = "deleteOld" => /\ t.mem.rule.type \in RuleTypes
                             /\ IsRule(t.mem.rule, t.mem.rule.type)
    /\ t.fn = "deleteRule" /\ mode = Diversion => IsRow(t.mem)

RulesInv == page.kind = "rules" =>
    ServerRules /\ PageRules(page) /\ \A i \in DOMAIN tasks : TaskRules(tasks[i], page.mode)

RulesFields == {"kind", "mounted", "busy", "mode", "groups", "rows", "adguard", "editor", "later"}

LEMMA PlainFiles ==
    ASSUME NEW key, NEW at, NEW val
    PROVE  /\ Files(Get(key)) /\ Files(Call(key, at)) /\ Files(Question)
           /\ Files(Set(AdGuard, at, val)) /\ Files(Add(AdGuard, val)) /\ Files(Drop(AdGuard, at))
           /\ key \in RuleTypes => Files(Drop(key, at))
           /\ key \in RuleTypes /\ IsRule(val, key) => Files(Set(key, val.name, val))
BY DEF Files, Get, Call, Question, Set, Add, Drop

LEMMA OneFiles ==
    ASSUME NEW request, Files(request)
    PROVE  \A k \in DOMAIN One(request) : Files(One(request)[k])
BY DEF One

\* What a function that has just sent its requests has to keep.
Sound(fn, ask, mem, mode) ==
    /\ \A k \in DOMAIN ask : Files(ask[k])
    /\ fn = "ruleGroups" => ask = One(Get("specials"))
    /\ fn = "diversionRules" => \A k \in DOMAIN ask : k \in RuleTypes /\ ask[k] = Get(k)
    /\ fn = "deleteOld" => mem.rule.type \in RuleTypes /\ IsRule(mem.rule, mem.rule.type)
    /\ fn = "deleteRule" /\ mode = Diversion => IsRow(mem)

LEMMA SoundTask ==
    ASSUME NEW fn, NEW ask, NEW mem, NEW lower, NEW mode, Sound(fn, ask, mem, mode)
    PROVE  TaskRules(Task(fn, ask, mem, lower), mode)
<1> DEFINE t == Task(fn, ask, mem, lower)
<1>1. t.fn = fn /\ t.ask = ask /\ t.mem = mem /\ DOMAIN t.got = {}
  BY TaskFields
<1> HIDE DEF t
<1>2. TaskRules(t, mode)
  BY <1>1 DEF TaskRules, Sound, GoodReply
<1> QED
  BY <1>2 DEF t

LEMMA TasksSound ==
    ASSUME Questions, NEW mode, \A j \in DOMAIN tasks : TaskRules(tasks[j], mode),
           NEW fn, NEW ask, NEW mem, NEW lower, Sound(fn, ask, mem, mode)
    PROVE  /\ Begin(fn, ask, mem, lower) => \A j \in DOMAIN tasks' : TaskRules(tasks'[j], mode)
           /\ \A i \in DOMAIN tasks :
                Await(i, fn, ask, mem, lower) => \A j \in DOMAIN tasks' : TaskRules(tasks'[j], mode)
           /\ ask = One(Question) /\ AskFirst(fn, mem) /\ Clickable =>
                \A j \in DOMAIN tasks' : TaskRules(tasks'[j], mode)
<1>1. ASSUME Begin(fn, ask, mem, lower)
      PROVE  \A j \in DOMAIN tasks' : TaskRules(tasks'[j], mode)
  <2>1. PICK n : /\ DOMAIN tasks' = DOMAIN tasks \cup {n}
                 /\ tasks'[n] = Task(fn, ask, mem, lower)
                 /\ \A j \in DOMAIN tasks : tasks'[j] = tasks[j]
    BY <1>1, BeginAdds
  <2> QED
    BY <2>1, SoundTask
<1>2. ASSUME NEW i \in DOMAIN tasks, Await(i, fn, ask, mem, lower)
      PROVE  \A j \in DOMAIN tasks' : TaskRules(tasks'[j], mode)
  <2>1. /\ DOMAIN tasks' = DOMAIN tasks /\ tasks'[i] = Task(fn, ask, mem, lower)
        /\ \A j \in DOMAIN tasks : j # i => tasks'[j] = tasks[j]
    BY <1>2, AwaitGoes
  <2> QED
    BY <2>1, SoundTask
<1>3. ASSUME ask = One(Question), AskFirst(fn, mem), Clickable
      PROVE  \A j \in DOMAIN tasks' : TaskRules(tasks'[j], mode)
  <2>1. PICK n : /\ DOMAIN tasks' = DOMAIN tasks \cup {n}
                 /\ tasks'[n] = Task(fn, One(Question), mem, {})
                 /\ \A j \in DOMAIN tasks : tasks'[j] = tasks[j]
    BY <1>3, AskFirstAdds DEF Clickable
  <2>2. TaskRules(Task(fn, One(Question), mem, {}), mode)
    BY <1>3, SoundTask
  <2> QED
    BY <2>1, <2>2
<1> QED
  BY <1>1, <1>2, <1>3

\* The server does what a request says that leaves each rule in its place.
LEMMA FiledRight ==
    ASSUME ServerRules, NEW request, Files(request), request.op # "confirm",
           server' \in {server, Applied(request)}
    PROVE  ServerRules'
<1>1. CASE server' = server
  BY <1>1 DEF ServerRules
<1>2. CASE server' = Applied(request) /\ request.op \in {"get", "call"}
  BY <1>2 DEF ServerRules, Applied
<1>3. ASSUME server' = Applied(request), request.op \in {"set", "add", "drop"}
      PROVE  ServerRules'
  <2>1. PICK v : /\ server' = [server EXCEPT ![request.key] = v]
                 /\ request.op = "drop" => v = Without(server[request.key], request.at)
                 /\ request.op = "set" => v = Extend(server[request.key], request.at, request.val)
    BY <1>3 DEF Applied
  <2>2. CASE request.key = AdGuard
    BY <2>1, <2>2, RuleTypesAssumption DEF ServerRules, AdGuard
  <2>3. CASE request.key \in RuleTypes /\ request.op = "drop"
    <3>1. \A n \in DOMAIN v : n \in DOMAIN server[request.key] /\ v[n] = server[request.key][n]
      BY <2>1, <2>3 DEF Without
    <3> QED
      BY <2>1, <2>3, <3>1, RuleTypesAssumption DEF ServerRules
  <2>4. CASE /\ request.key \in RuleTypes /\ request.op = "set"
             /\ request.val.name = request.at /\ IsRule(request.val, request.key)
    <3>1. \A n \in DOMAIN v : IF n = request.at THEN v[n] = request.val
                              ELSE n \in DOMAIN server[request.key] /\ v[n] = server[request.key][n]
      BY <2>1, <2>4 DEF Extend
    <3> QED
      BY <2>1, <2>4, <3>1, RuleTypesAssumption DEF ServerRules
  <2> QED
    BY <1>3, <2>2, <2>3, <2>4 DEF Files
<1> QED
  BY <1>1, <1>2, <1>3 DEF Files

LEMMA RulesServed ==
    ASSUME Inv, RulesInv, page.kind = "rules", ServerStep
    PROVE  RulesInv'
<1>1. Questions /\ ServerRules /\ PageRules(page) /\ \A j \in DOMAIN tasks : TaskRules(tasks[j], page.mode)
  BY DEF Inv, RulesInv
<1>2. PICK i, k : /\ i \in DOMAIN tasks /\ k \in Unanswered(i)
                  /\ Serve(i, k) \/ Refuse(i, k) \/ LoseReply(i, k)
  BY DEF ServerStep
<1>3. UNCHANGED page
  BY <1>2 DEF Serve, Refuse, LoseReply
<1> DEFINE t == tasks[i]
           u == tasks'[i]
           mode == page.mode
<1>4. k \in DOMAIN t.ask /\ k \notin DOMAIN t.got /\ t.ask[k].op # "confirm" /\ TaskRules(t, mode)
  BY <1>1, <1>2 DEF Unanswered, Waiting
<1>5. PICK reply : /\ GiveReply(i, k, reply)
                   /\ \/ reply = Failed
                      \/ reply = Good(Answer(t.ask[k]))
                   /\ server' \in {server, Applied(t.ask[k])}
  BY <1>2 DEF Serve, Refuse, LoseReply
<1>6. /\ DOMAIN tasks' = DOMAIN tasks /\ SameTask(t, u)
      /\ DOMAIN u.got = DOMAIN t.got \cup {k} /\ u.got[k] = reply
      /\ \A l \in DOMAIN t.got : l # k => u.got[l] = t.got[l]
      /\ \A j \in DOMAIN tasks : j # i => tasks'[j] = tasks[j]
  BY <1>1, <1>2, <1>5, ReplyGiven
<1>7. Files(t.ask[k]) /\ u.fn = t.fn /\ u.ask = t.ask /\ u.mem = t.mem
  BY <1>4, <1>6 DEF TaskRules, SameTask
<1> HIDE DEF t, u, mode
<1>8. ServerRules'
  BY <1>1, <1>4, <1>5, <1>7, FiledRight
<1>9. reply.ok => reply.val = Answer(t.ask[k])
  BY <1>5 DEF Failed, Good
<1>10. TaskRules(u, mode)
  <2>1. \A l \in DOMAIN u.ask : Files(u.ask[l])
    BY <1>4, <1>7 DEF TaskRules
  <2>2. CASE t.fn = "ruleGroups"
    <3>1. t.ask = One(Get("specials")) /\ (GoodReply(t) => t.got["only"].val \subseteq GroupTypes)
      BY <1>4, <2>2 DEF TaskRules
    <3>2. k = "only" /\ Answer(t.ask[k]) = server["specials"]
      BY <1>4, <3>1 DEF One, Get, Answer
    <3>3. GoodReply(u) => u.got["only"].val \subseteq GroupTypes
      BY <1>1, <1>6, <1>9, <3>2 DEF GoodReply, ServerRules
    <3> QED
      BY <1>7, <2>1, <2>2, <3>1, <3>3 DEF TaskRules
  <2>3. CASE t.fn = "diversionRules"
    <3>1. \A l \in DOMAIN t.ask : /\ l \in RuleTypes /\ t.ask[l] = Get(l)
                                  /\ l \in DOMAIN t.got /\ t.got[l].ok => RulesOf(l, t.got[l].val)
      BY <1>4, <2>3 DEF TaskRules
    <3>2. Answer(t.ask[k]) = server[k] /\ RulesOf(k, server[k])
      <4>1. k \in RuleTypes /\ t.ask[k] = Get(k)
        BY <1>4, <3>1
      <4> QED
        BY <1>1, <4>1 DEF Answer, Get, ServerRules, RulesOf
    <3>3. ASSUME NEW l \in DOMAIN u.ask
          PROVE  /\ l \in RuleTypes /\ u.ask[l] = Get(l)
                 /\ l \in DOMAIN u.got /\ u.got[l].ok => RulesOf(l, u.got[l].val)
      <4>1. l \in RuleTypes /\ u.ask[l] = Get(l)
        BY <1>7, <3>1
      <4>2. CASE l = k
        <5>1. u.got[l].ok => RulesOf(l, u.got[l].val)
          BY <1>6, <1>9, <3>2, <4>2, Zenon
        <5> QED
          BY <4>1, <5>1
      <4>3. CASE l # k
        <5>1. l \in DOMAIN u.got => l \in DOMAIN t.got /\ u.got[l] = t.got[l]
          BY <1>6, <4>3
        <5>2. l \in DOMAIN t.got /\ t.got[l].ok => RulesOf(l, t.got[l].val)
          BY <1>7, <3>1, Zenon
        <5> QED
          BY <4>1, <5>1, <5>2
      <4> QED
        BY <4>2, <4>3
    <3> QED
      BY <1>7, <2>1, <2>3, <3>3 DEF TaskRules
  <2>4. CASE t.fn \notin {"ruleGroups", "diversionRules"}
    BY <1>4, <1>7, <2>1, <2>4 DEF TaskRules
  <2> QED
    BY <2>2, <2>3, <2>4
<1>11. \A j \in DOMAIN tasks' : TaskRules(tasks'[j], page.mode)
  BY <1>1, <1>6, <1>10 DEF u, mode
<1> QED
  BY <1>1, <1>3, <1>8, <1>11 DEF RulesInv, PageRules

LEMMA RulesAnswered ==
    ASSUME Inv, RulesInv, page.kind = "rules", DialogStep
    PROVE  RulesInv'
<1>1. Questions /\ ServerRules /\ PageRules(page) /\ \A j \in DOMAIN tasks : TaskRules(tasks[j], page.mode)
  BY DEF Inv, RulesInv
<1>2. PICK reply : dialog # None /\ GiveReply(dialog, "only", reply) /\ UNCHANGED <<page, server>>
  BY DEF DialogStep, AnswerDialog
<1>3. dialog \in DOMAIN tasks /\ tasks[dialog].fn \in Askers
  BY <1>1, <1>2 DEF Questions
<1>4. /\ DOMAIN tasks' = DOMAIN tasks /\ SameTask(tasks[dialog], tasks'[dialog])
      /\ \A j \in DOMAIN tasks : j # dialog => tasks'[j] = tasks[j]
  BY <1>1, <1>2, <1>3, ReplyGiven
<1>5. TaskRules(tasks'[dialog], page.mode)
  BY <1>1, <1>3, <1>4 DEF TaskRules, SameTask, Askers
<1>6. \A j \in DOMAIN tasks' : TaskRules(tasks'[j], page.mode)
  BY <1>1, <1>4, <1>5
<1> QED
  BY <1>1, <1>2, <1>6 DEF RulesInv, ServerRules, PageRules

\* A step of the page's own, whatever it begins, goes on with or ends.
LEMMA RulesMove ==
    ASSUME Questions, RulesInv, page.kind = "rules", PageRules(page'), page'.mode = page.mode, UNCHANGED server,
           NEW fn, NEW ask, NEW mem, NEW lower,
           \/ /\ Sound(fn, ask, mem, page.mode)
              /\ Begin(fn, ask, mem, lower) \/ \E i \in DOMAIN tasks : Await(i, fn, ask, mem, lower)
           \/ \E i : End(i)
           \/ UNCHANGED tasks
    PROVE  RulesInv'
<1>1. ServerRules /\ \A j \in DOMAIN tasks : TaskRules(tasks[j], page.mode)
  BY DEF RulesInv
<1>2. \A j \in DOMAIN tasks' : TaskRules(tasks'[j], page.mode)
  <2>1. CASE \E i : End(i)
    BY <1>1, <2>1, EndRemoves
  <2>2. CASE /\ Sound(fn, ask, mem, page.mode)
             /\ Begin(fn, ask, mem, lower) \/ \E i \in DOMAIN tasks : Await(i, fn, ask, mem, lower)
    BY <1>1, <2>2, TasksSound
  <2> QED
    BY <1>1, <2>1, <2>2
<1> QED
  BY <1>1, <1>2 DEF RulesInv, ServerRules

\* What no step of the table or the editor touches.
SameView(p, q) == p.mode = q.mode /\ p.groups = q.groups /\ p.rows = q.rows /\ p.editor = q.editor

LEMMA ViewKept ==
    ASSUME NEW p, NEW q, PageRules(q), SameView(p, q)
    PROVE  PageRules(p)
BY DEF PageRules, SameView

\* Which functions send requests that leave each rule with the plugin of its type.
LEMMA PlainSound ==
    ASSUME NEW mem, NEW mode, NEW request, Files(request)
    PROVE  /\ Sound("ruleGroups", One(Get("specials")), mem, mode)
           /\ \A keys \in SUBSET RuleTypes : Sound("diversionRules", GetAll(keys), mem, mode)
           /\ \A fn \in {"adguardRules", "download", "putRule", "changeRule", "saveAdguard", "updateRules"} :
                    Sound(fn, One(request), mem, mode)
<1>1. \A k \in DOMAIN One(request) : Files(One(request)[k])
  BY OneFiles
<1>2. \A k \in DOMAIN One(Get("specials")) : Files(One(Get("specials"))[k])
  BY OneFiles, PlainFiles
<1>3. ASSUME NEW keys \in SUBSET RuleTypes
      PROVE  Sound("diversionRules", GetAll(keys), mem, mode)
  BY PlainFiles DEF GetAll, Sound
<1>4. Sound("ruleGroups", One(Get("specials")), mem, mode)
  BY <1>2 DEF Sound
<1>5. ASSUME NEW fn \in {"adguardRules", "download", "putRule", "changeRule", "saveAdguard", "updateRules"}
      PROVE  Sound(fn, One(request), mem, mode)
  BY <1>1 DEF Sound
<1> QED
  BY <1>3, <1>4, <1>5

LEMMA RowsOfTheirPlugin ==
    ASSUME PageRules(page), NEW row, IsRow(row)
    PROVE  /\ PluginOf(row) = row.home /\ PluginOf(row) \in RuleTypes
           /\ LET flipped == [row.rule EXCEPT !.enabled = ~@]
              IN  Files(Set(PluginOf(row), flipped.name, flipped))
<1>1. PluginOf(row) = row.home /\ row.home \in RuleTypes /\ IsRule(row.rule, row.home)
  BY DEF IsRow, IsRule, PluginOf
<1> DEFINE flipped == [row.rule EXCEPT !.enabled = ~@]
<1>2. IsRule(flipped, row.home)
  BY <1>1 DEF IsRule
<1> HIDE DEF flipped
<1>3. Files(Set(row.home, flipped.name, flipped))
  BY <1>1, <1>2, PlainFiles
<1> QED
  BY <1>1, <1>3 DEF flipped

LEMMA RulesStep ==
    ASSUME Inv, RulesInv, page.kind = "rules", NEW i, RulesEvent \/ RulesResume(i)
    PROVE  RulesInv'
<1>1. DOMAIN page = RulesFields
  BY DEF Inv, Framed, FreshOf, RulesFresh, RulesFields
<1>2. Questions /\ PageRules(page) /\ \A j \in DOMAIN tasks : TaskRules(tasks[j], page.mode)
  BY DEF Inv, RulesInv
<1>3. KnownTypes \in SUBSET RuleTypes
  BY <1>2 DEF KnownTypes, RuleTypes, PageRules
<1>4. \A fn : i \in Replied(fn) => i \in DOMAIN tasks /\ tasks[i].fn = fn /\ DOMAIN tasks[i].got = DOMAIN tasks[i].ask
  BY DEF Replied
<1>5. Files(Get(AdGuard)) /\ Sound("adguardRules", One(Get(AdGuard)), None, page.mode)
  BY PlainFiles, PlainSound
<1>6. ASSUME NEW p, DOMAIN p = RulesFields, SameView(p, page), ReloadRules(p), UNCHANGED server
      PROVE  RulesInv'
  <2>1. SameView(page', page)
    BY <1>6 DEF ReloadRules, Raise, SameView, RulesFields
  <2>2. PageRules(page') /\ page'.mode = page.mode
    BY <1>2, <2>1, ViewKept DEF SameView
  <2>3. \/ Begin("ruleGroups", One(Get("specials")), None, {"special"})
        \/ Begin("adguardRules", One(Get(AdGuard)), None, {AdGuard})
    BY <1>6 DEF ReloadRules
  <2> QED
    BY <1>2, <1>5, <1>6, <2>2, <2>3, PlainSound, RulesMove
<1>7. ASSUME NEW p, DOMAIN p = RulesFields, PageRules(p), p.mode = page.mode, NEW mem, AskDiversion(i, p, mem),
             i \in DOMAIN tasks, UNCHANGED server
      PROVE  RulesInv'
  <2>1. SameView(page', p)
    BY <1>7 DEF AskDiversion, Raise, SameView, RulesFields
  <2>2. PageRules(page') /\ page'.mode = page.mode
    BY <1>7, <2>1, ViewKept DEF SameView
  <2>3. BuiltInTypes \cup p.groups \in SUBSET RuleTypes
    BY <1>7 DEF RuleTypes, PageRules
  <2>4. Sound("diversionRules", GetAll(BuiltInTypes \cup p.groups), mem, page.mode)
    BY <1>5, <2>3, PlainSound
  <2>5. Await(i, "diversionRules", GetAll(BuiltInTypes \cup p.groups), mem, {Diversion})
    BY <1>7 DEF AskDiversion
  <2> QED
    BY <1>2, <1>7, <2>2, <2>4, <2>5, RulesMove
<1>8. ASSUME SameView(page', page), UNCHANGED server, NEW fn, NEW ask, NEW mem, NEW lower,
             \/ /\ Sound(fn, ask, mem, page.mode)
                /\ Begin(fn, ask, mem, lower) \/ (i \in DOMAIN tasks /\ Await(i, fn, ask, mem, lower))
             \/ End(i)
             \/ UNCHANGED tasks
      PROVE  RulesInv'
  <2>1. PageRules(page') /\ page'.mode = page.mode
    BY <1>2, <1>8, ViewKept DEF SameView
  <2> QED
    BY <1>2, <1>8, <2>1, RulesMove
<1>9. SameView(page, page)
  BY DEF SameView
<1>10. CASE RulesRefresh
  BY <1>1, <1>6, <1>9, <1>10 DEF RulesRefresh
<1>11. CASE RuleGroupsRead(i)
  <2> DEFINE groups == Settled(i, "only", page.groups)
             p == Lower([page EXCEPT !.groups = groups], i)
  <2>1. /\ i \in DOMAIN tasks /\ tasks[i].fn = "ruleGroups" /\ DOMAIN tasks[i].got = DOMAIN tasks[i].ask
        /\ AskDiversion(i, p, Reloading) /\ UNCHANGED server
    BY <1>1, <1>4, <1>11 DEF RuleGroupsRead, RulesFields
  <2>2. groups \subseteq GroupTypes
    BY <1>2, <2>1 DEF TaskRules, PageRules, Settled, One, GoodReply
  <2> HIDE DEF groups
  <2>3. DOMAIN p = RulesFields /\ PageRules(p) /\ p.mode = page.mode
    BY <1>1, <1>2, <2>2 DEF Lower, PageRules, RulesFields
  <2> QED
    BY <1>7, <2>1, <2>3
<1>12. CASE DiversionRead(i)
  <2> DEFINE rows == MergedRows(i)
             p == RulesInView(Lower([page EXCEPT !.rows = rows], i))
  <2>1. /\ i \in DOMAIN tasks /\ tasks[i].fn = "diversionRules" /\ DOMAIN tasks[i].got = DOMAIN tasks[i].ask
        /\ UNCHANGED server
    BY <1>4, <1>12 DEF DiversionRead
  <2>2. \A k \in DOMAIN tasks[i].got :
            k \in RuleTypes /\ (tasks[i].got[k].ok => RulesOf(k, tasks[i].got[k].val))
    BY <1>2, <2>1 DEF TaskRules
  <2>3. \A row \in rows : IsRow(row)
    BY <2>2 DEF MergedRows, RulesOf, IsRow
  <2>4. \/ page' = p /\ End(i)
        \/ \E mem : AskDiversion(i, p, mem)
        \/ page' = p /\ \E k, x, mem : Await(i, "download", One(Call(k, x)), mem, {})
    BY <1>12 DEF DiversionRead
  <2> HIDE DEF rows
  <2>5. DOMAIN p = RulesFields /\ PageRules(p) /\ p.mode = page.mode
    BY <1>1, <1>2, <2>3 DEF RulesInView, Lower, PageRules, RulesFields
  <2> HIDE DEF p
  <2>6. CASE page' = p /\ End(i)
    BY <1>2, <2>1, <2>5, <2>6, RulesMove
  <2>7. ASSUME NEW mem, AskDiversion(i, p, mem)
        PROVE  RulesInv'
    BY <1>7, <2>1, <2>5, <2>7
  <2>8. ASSUME NEW k, NEW x, NEW mem, page' = p, Await(i, "download", One(Call(k, x)), mem, {})
        PROVE  RulesInv'
    <3>1. Sound("download", One(Call(k, x)), mem, page.mode)
      BY PlainFiles, PlainSound
    <3> QED
      BY <1>2, <2>1, <2>5, <2>8, <3>1, RulesMove
  <2> QED
    BY <2>4, <2>6, <2>7, <2>8
<1>13. CASE DownloadAsked(i)
  <2>1. i \in DOMAIN tasks /\ UNCHANGED server
    BY <1>4, <1>13 DEF DownloadAsked
  <2>2. CASE page' = page /\ End(i)
    BY <1>8, <1>9, <2>1, <2>2
  <2>3. ASSUME NEW mem, AskDiversion(i, page, mem)
        PROVE  RulesInv'
    BY <1>1, <1>2, <1>7, <2>1, <2>3
  <2> QED
    BY <1>13, <2>2, <2>3 DEF DownloadAsked
<1>14. CASE AdguardRead(i)
  <2>1. UNCHANGED server /\ End(i) /\ PageRules(page') /\ page'.mode = page.mode
    BY <1>1, <1>2, <1>14 DEF AdguardRead, RulesInView, Lower, PageRules, RulesFields
  <2> QED
    BY <1>2, <2>1, RulesMove
<1>15. CASE OpenRuleEditor \/ CloseRuleEditor
  <2>1. UNCHANGED <<server, tasks>>
    BY <1>15 DEF OpenRuleEditor, CloseRuleEditor, OnlyPage
  <2>2. PICK editor : /\ page' = [page EXCEPT !.editor = editor]
                      /\ \/ editor = None \/ editor = EditorOf(TRUE, None)
                         \/ \E row \in RuleRows : editor = EditorOf(FALSE, row)
    BY <1>15 DEF OpenRuleEditor, CloseRuleEditor
  <2>3. editor # None /\ ~editor.new /\ page.mode = Diversion => IsRow(editor.row)
    BY <1>2, <2>2 DEF EditorOf, RuleRows, PageRules
  <2>4. PageRules(page') /\ page'.mode = page.mode
    BY <1>1, <1>2, <2>2, <2>3 DEF PageRules, RulesFields
  <2> QED
    BY <1>2, <2>1, <2>4, RulesMove
<1>16. CASE SaveDiversion
  <2>1. PICK name, type, enabled :
            LET row == page.editor.row
                rule == Rule(name, type, enabled)
            IN  /\ type \in KnownTypes /\ page.mode = Diversion /\ page.editor # None
                /\ \/ /\ ~page.editor.new
                      /\ \E download : Begin("deleteOld", One(Drop(PluginOf(row), row.rule.name)),
                                             [rule |-> rule, download |-> download], {})
                   \/ \E download : Begin("putRule", One(Set(type, name, rule)),
                                          [rule |-> rule, download |-> download], {})
                /\ UNCHANGED <<page, server>>
    BY <1>16 DEF SaveDiversion
  <2> DEFINE row == page.editor.row
             rule == Rule(name, type, enabled)
  <2>2. type \in RuleTypes /\ IsRule(rule, type) /\ rule.name = name /\ rule.type = type
    BY <1>3, <2>1 DEF Rule, IsRule
  <2> HIDE DEF rule
  <2>3. ASSUME ~page.editor.new, NEW download,
               Begin("deleteOld", One(Drop(PluginOf(row), row.rule.name)), [rule |-> rule, download |-> download], {})
        PROVE  RulesInv'
    <3>1. IsRow(row)
      BY <1>2, <2>1, <2>3 DEF PageRules
    <3>2. PluginOf(row) \in RuleTypes
      BY <1>2, <3>1, RowsOfTheirPlugin
    <3>3. \A k \in DOMAIN One(Drop(PluginOf(row), row.rule.name)) :
              Files(One(Drop(PluginOf(row), row.rule.name))[k])
      BY <3>2, PlainFiles, OneFiles
    <3>4. Sound("deleteOld", One(Drop(PluginOf(row), row.rule.name)), [rule |-> rule, download |-> download],
                page.mode)
      BY <2>2, <3>3 DEF Sound
    <3> QED
      BY <1>8, <1>9, <2>1, <2>3, <3>4
  <2>4. ASSUME NEW download,
               Begin("putRule", One(Set(type, name, rule)), [rule |-> rule, download |-> download], {})
        PROVE  RulesInv'
    <3>1. Sound("putRule", One(Set(type, name, rule)), [rule |-> rule, download |-> download], page.mode)
      BY <2>2, PlainFiles, PlainSound
    <3> QED
      BY <1>8, <1>9, <2>1, <2>4, <3>1
  <2> QED
    BY <2>1, <2>3, <2>4 DEF rule
<1>17. CASE OldDeleted(i)
  <2> DEFINE rule == tasks[i].mem.rule
  <2>1. /\ i \in DOMAIN tasks /\ tasks[i].fn = "deleteOld" /\ UNCHANGED <<page, server>>
        /\ Await(i, "putRule", One(Set(rule.type, rule.name, rule)), tasks[i].mem, {}) \/ End(i)
    BY <1>4, <1>17 DEF OldDeleted
  <2>2. rule.type \in RuleTypes /\ IsRule(rule, rule.type)
    BY <1>2, <2>1 DEF TaskRules
  <2> HIDE DEF rule
  <2>3. Sound("putRule", One(Set(rule.type, rule.name, rule)), tasks[i].mem, page.mode)
    BY <2>2, PlainFiles, PlainSound
  <2> QED
    BY <1>8, <1>9, <2>1, <2>3
<1>18. CASE RulePut(i)
  <2>1. /\ i \in DOMAIN tasks /\ UNCHANGED server
        /\ (\E mem : AskDiversion(i, [page EXCEPT !.editor = None], mem)) \/ (End(i) /\ UNCHANGED page)
    BY <1>4, <1>18 DEF RulePut
  <2>2. LET p == [page EXCEPT !.editor = None]
        IN  DOMAIN p = RulesFields /\ PageRules(p) /\ p.mode = page.mode
    BY <1>1, <1>2 DEF PageRules, RulesFields
  <2> QED
    BY <1>7, <1>8, <1>9, <2>1, <2>2
<1>19. CASE ToggleRule
  <2>1. PICK row \in RuleRows :
            LET flipped == [row.rule EXCEPT !.enabled = ~@]
            IN  /\ UNCHANGED <<page, server>>
                /\ \/ /\ page.mode = Diversion
                      /\ Begin("changeRule", One(Set(PluginOf(row), flipped.name, flipped)), None, {})
                   \/ \E v : Begin("changeRule", One(Set(AdGuard, row, v)), None, {})
    BY <1>19 DEF ToggleRule
  <2> DEFINE flipped == [row.rule EXCEPT !.enabled = ~@]
  <2>2. CASE page.mode = Diversion /\ Begin("changeRule", One(Set(PluginOf(row), flipped.name, flipped)), None, {})
    <3>1. IsRow(row)
      BY <1>2, <2>2 DEF RuleRows, PageRules
    <3>2. Files(Set(PluginOf(row), flipped.name, flipped))
      BY <1>2, <3>1, RowsOfTheirPlugin
    <3> HIDE DEF flipped
    <3>3. Sound("changeRule", One(Set(PluginOf(row), flipped.name, flipped)), None, page.mode)
      BY <3>2, PlainSound
    <3> QED
      BY <1>8, <1>9, <2>1, <2>2, <3>3
  <2>3. ASSUME NEW v, Begin("changeRule", One(Set(AdGuard, row, v)), None, {})
        PROVE  RulesInv'
    <3>1. Sound("changeRule", One(Set(AdGuard, row, v)), None, page.mode)
      BY PlainFiles, PlainSound
    <3> QED
      BY <1>8, <1>9, <2>1, <2>3, <3>1
  <2> QED
    BY <2>1, <2>2, <2>3
<1>20. CASE DeleteRule
  <2>1. PICK row \in RuleRows : Clickable /\ AskFirst("deleteRule", row) /\ UNCHANGED <<page, server>>
    BY <1>20 DEF DeleteRule, TableInReach
  <2>2. page.mode = Diversion => IsRow(row)
    BY <1>2 DEF RuleRows, PageRules
  <2>3. Sound("deleteRule", One(Question), row, page.mode)
    <3>1. \A k \in DOMAIN One(Question) : Files(One(Question)[k])
      BY PlainFiles, OneFiles
    <3> QED
      BY <2>2, <3>1 DEF Sound
  <2>4. \A j \in DOMAIN tasks' : TaskRules(tasks'[j], page.mode)
    BY <1>2, <2>1, <2>3, TasksSound
  <2> QED
    BY <1>2, <2>1, <2>4 DEF RulesInv, ServerRules, PageRules
<1>21. CASE DeleteRuleAnswered(i)
  <2> DEFINE row == tasks[i].mem
             drop == IF page.mode = AdGuard THEN Drop(AdGuard, row) ELSE Drop(PluginOf(row), row.rule.name)
  <2>1. /\ i \in DOMAIN tasks /\ tasks[i].fn = "deleteRule" /\ UNCHANGED <<page, server>>
        /\ Await(i, "changeRule", One(drop), None, {}) \/ End(i)
    BY <1>4, <1>21 DEF DeleteRuleAnswered
  <2>2. Files(drop)
    <3>1. CASE page.mode = AdGuard
      BY <3>1, PlainFiles
    <3>2. CASE page.mode = Diversion
      <4>1. IsRow(row)
        BY <1>2, <2>1, <3>2 DEF TaskRules
      <4>2. PluginOf(row) \in RuleTypes /\ page.mode # AdGuard
        BY <1>2, <3>2, <4>1, RowsOfTheirPlugin DEF AdGuard, Diversion
      <4> QED
        BY <4>2, PlainFiles
    <3> QED
      BY <1>2, <3>1, <3>2 DEF PageRules
  <2> HIDE DEF drop
  <2>3. Sound("changeRule", One(drop), None, page.mode)
    BY <2>2, PlainSound
  <2> QED
    BY <1>8, <1>9, <2>1, <2>3
<1>22. CASE SaveAdguard
  <2>1. PICK enabled : /\ UNCHANGED <<page, server>>
                       /\ \/ Begin("saveAdguard", One(Add(AdGuard, enabled)), None, {})
                          \/ Begin("saveAdguard", One(Set(AdGuard, page.editor.row, enabled)), None, {})
    BY <1>22 DEF SaveAdguard
  <2>2. /\ Sound("saveAdguard", One(Add(AdGuard, enabled)), None, page.mode)
        /\ Sound("saveAdguard", One(Set(AdGuard, page.editor.row, enabled)), None, page.mode)
    BY PlainFiles, PlainSound
  <2> QED
    BY <1>8, <1>9, <2>1, <2>2
<1>23. CASE RuleChanged(i)
  <2> DEFINE closed == IF tasks[i].fn = "saveAdguard" THEN [page EXCEPT !.editor = None] ELSE page
  <2>1. /\ i \in DOMAIN tasks /\ UNCHANGED server
        /\ \/ AskDiversion(i, closed, Reloading)
           \/ page' = Raise(closed, {AdGuard}) /\ Await(i, "adguardRules", One(Get(AdGuard)), None, {AdGuard})
           \/ page' = page /\ End(i)
    BY <1>23 DEF RuleChanged, Replied
  <2>2. DOMAIN closed = RulesFields /\ PageRules(closed) /\ closed.mode = page.mode
    BY <1>1, <1>2 DEF PageRules, RulesFields
  <2> HIDE DEF closed
  <2>3. CASE AskDiversion(i, closed, Reloading)
    BY <1>7, <2>1, <2>2, <2>3
  <2>4. CASE page' = Raise(closed, {AdGuard}) /\ Await(i, "adguardRules", One(Get(AdGuard)), None, {AdGuard})
    <3>1. SameView(page', closed)
      BY <2>2, <2>4 DEF Raise, SameView, RulesFields
    <3>2. PageRules(page') /\ page'.mode = page.mode
      BY <2>2, <3>1, ViewKept DEF SameView
    <3> QED
      BY <1>2, <1>5, <2>1, <2>4, <3>2, RulesMove
  <2> QED
    BY <1>8, <1>9, <2>1, <2>3, <2>4
<1>24. CASE UpdateRules
  <2>1. /\ UNCHANGED <<page, server>>
        /\ \/ \E row \in RuleRows : Begin("updateRules", One(DownloadOf(row)), None, {})
           \/ Begin("updateRules", One(Call(AdGuard, None)), None, {})
           \/ Begin("updateRules", [row \in page.rows |-> DownloadOf(row)], None, {})
    BY <1>24 DEF UpdateRules
  <2>2. \A row : Files(DownloadOf(row))
    BY PlainFiles DEF DownloadOf
  <2>3. /\ \A row : Sound("updateRules", One(DownloadOf(row)), None, page.mode)
        /\ Sound("updateRules", One(Call(AdGuard, None)), None, page.mode)
    BY <2>2, PlainFiles, PlainSound
  <2>4. Sound("updateRules", [row \in page.rows |-> DownloadOf(row)], None, page.mode)
    BY <2>2 DEF Sound
  <2> QED
    BY <1>8, <1>9, <2>1, <2>3, <2>4
<1>25. CASE RulesUpdated(i)
  <2>1. SameView(page', page) /\ UNCHANGED server /\ End(i)
    BY <1>1, <1>25 DEF RulesUpdated, SameView, RulesFields
  <2> QED
    BY <1>8, <2>1
<1>26. CASE UpdateTimerFires
  <2>1. SameView(page', page) /\ UNCHANGED server
    BY <1>1, <1>26 DEF UpdateTimerFires, Raise, SameView, RulesFields
  <2>2. \/ Begin("diversionRules", GetAll(KnownTypes), Reloading, {Diversion})
        \/ Begin("adguardRules", One(Get(AdGuard)), None, {AdGuard})
    BY <1>26 DEF UpdateTimerFires
  <2>3. Sound("diversionRules", GetAll(KnownTypes), Reloading, page.mode)
    BY <1>3, <1>5, PlainSound
  <2> QED
    BY <1>5, <1>8, <2>1, <2>2, <2>3
<1> QED
  BY <1>10, <1>11, <1>12, <1>13, <1>14, <1>15, <1>16, <1>17, <1>18, <1>19, <1>20, <1>21, <1>22, <1>23, <1>24, <1>25,
     <1>26 DEF RulesEvent, RulesResume

LEMMA RulesNext ==
    ASSUME Inv, RulesInv, [WebNext]_webVars
    PROVE  RulesInv'
<1> SUFFICES ASSUME page'.kind = "rules"
             PROVE  RulesInv'
  BY DEF RulesInv
<1>1. page.kind = "rules"
  BY StepsOfKind
<1>2. DOMAIN page = RulesFields
  BY <1>1 DEF Inv, Framed, FreshOf, RulesFresh, RulesFields
<1>3. Questions /\ ServerRules /\ PageRules(page) /\ \A j \in DOMAIN tasks : TaskRules(tasks[j], page.mode)
  BY <1>1 DEF Inv, RulesInv
<1>4. CASE UNCHANGED webVars
  BY <1>3, <1>4 DEF RulesInv, ServerRules, PageRules, webVars
<1>5. ASSUME NEW p, p.groups = {}, p.rows = {}, p.editor = None, p.mode \in {Diversion, AdGuard}
      PROVE  PageRules(p)
  BY <1>5 DEF PageRules
<1>6. CASE Mount
  <2>1. PICK mode \in {Diversion, AdGuard} : ReloadRules([RulesFresh EXCEPT !.mode = mode])
    BY <1>1, <1>6 DEF Mount, RulesMounted
  <2>2. UNCHANGED server /\ DOMAIN tasks = {}
    BY <1>6 DEF Mount, Nothing
  <2>3. page'.mode = mode /\ page'.groups = {} /\ page'.rows = {} /\ page'.editor = None
    BY <2>1 DEF ReloadRules, RulesFresh, Raise
  <2>4. PageRules(page')
    BY <1>5, <2>3
  <2>5. \/ Begin("ruleGroups", One(Get("specials")), None, {"special"})
        \/ Begin("adguardRules", One(Get(AdGuard)), None, {AdGuard})
    BY <2>1 DEF ReloadRules
  <2>6. /\ Sound("ruleGroups", One(Get("specials")), None, mode)
        /\ Sound("adguardRules", One(Get(AdGuard)), None, mode)
    BY PlainFiles, PlainSound
  <2>7. \A j \in DOMAIN tasks' : TaskRules(tasks'[j], mode)
    <3>1. \A j \in DOMAIN tasks : TaskRules(tasks[j], mode)
      BY <2>2
    <3> QED
      BY <1>3, <2>5, <2>6, <3>1, TasksSound
  <2> QED
    BY <1>3, <2>2, <2>3, <2>4, <2>7 DEF RulesInv, ServerRules
<1>7. CASE Unmount
  <2>1. UNCHANGED <<server, tasks>>
    BY <1>7 DEF Unmount, OnlyPage
  <2>2. CASE tasks = Nothing /\ page' = [RulesFresh EXCEPT !.mounted = FALSE]
    <3>1. PageRules(page') /\ DOMAIN tasks = {}
      BY <1>5, <2>2 DEF RulesFresh, Nothing
    <3> QED
      BY <1>3, <2>1, <3>1 DEF RulesInv, ServerRules
  <2>3. CASE page' = RulesUnmounted
    <3>1. PageRules(page') /\ page'.mode = page.mode
      BY <1>2, <1>3, <2>3 DEF RulesUnmounted, RulesInView, PageRules, RulesFields
    <3> QED
      BY <1>3, <2>1, <3>1 DEF RulesInv, ServerRules
  <2> QED
    BY <1>1, <1>7, <2>2, <2>3 DEF Unmount, LeftPage, FreshOf
<1>8. CASE ServerStep
  BY <1>1, <1>8, RulesServed
<1>9. CASE DialogStep
  BY <1>1, <1>9, RulesAnswered
<1>10. ASSUME NEW i, Event \/ Resume(i)
       PROVE  RulesInv'
  BY <1>1, <1>10, RulesStep DEF Event, Resume
<1> QED
  BY <1>4, <1>6, <1>7, <1>8, <1>9, <1>10, StepsOfKind

\* Every diversion rule the server keeps is filed under its own name, with the plugin of its own type,
\* however renames, moves and toggles overlap.
THEOREM RulesKeepIdentityCorrect == WebSpec => []RulesKeepIdentity
<1>1. WebInit => RulesInv
  <2> SUFFICES ASSUME WebInit, page.kind = "rules"
               PROVE  RulesInv
    BY DEF RulesInv
  <2>1. page = [RulesFresh EXCEPT !.mounted = FALSE] /\ server = RulesServer /\ DOMAIN tasks = {}
    BY FirstPage DEF FreshOf, ServersOf
  <2>2. PageRules(page)
    BY <2>1 DEF RulesFresh, PageRules
  <2>3. ServerRules
    <3> DEFINE first == CHOOSE n \in RuleNames : TRUE
    <3>1. /\ DOMAIN server = RuleTypes \cup {"specials", AdGuard} /\ server["specials"] = GroupTypes
          /\ \A t \in RuleTypes : server[t] = [n \in {first} |-> Rule(first, t, TRUE)]
      BY <2>1, RuleTypesAssumption DEF RulesServer, AdGuard
    <3> HIDE DEF first
    <3> QED
      BY <3>1 DEF ServerRules, IsRule, Rule
  <2> QED
    BY <2>1, <2>2, <2>3 DEF RulesInv
<1>2. Inv /\ RulesInv /\ [WebNext]_webVars => RulesInv'
  BY RulesNext
<1>3. RulesInv => RulesKeepIdentity
  BY DEF RulesInv, RulesKeepIdentity, ServerRules, IsRule
<1> QED
  BY <1>1, <1>2, <1>3, InvCorrect, PTL DEF WebSpec

=============================================================================
