----------------------------- MODULE ServerProofs -----------------------------
(***************************************************************************)
(* Proofs about the waits of TaskWait.tla and the end of the process of    *)
(* Server.tla, for any number of calls and any time limits.                *)
(***************************************************************************)
EXTENDS ServerProperties, TLAPS

Inv(c) == CallInv(c) /\ ReportIsTrue(c)

LEMMA Initially == Init => ServerInv
<1> SUFFICES ASSUME Init PROVE ServerInv OBVIOUS
<1>0. /\ pc = [c \in Calls |-> "idle"] /\ age = [c \in Calls |-> 0] /\ waited = [c \in Calls |-> 0]
      /\ wire = [c \in Calls |-> FALSE] /\ task = [c \in Calls |-> None] /\ read = [c \in Calls |-> None]
      /\ report = [c \in Calls |-> None] /\ gone = {}
      /\ stdio \in BOOLEAN /\ phase = "up" /\ spent = 0 /\ code = None /\ page = "none" /\ session = FALSE
  BY DEF Init, CallInit
<1>1. TypeOK
  <2>1. CallTypeOK BY <1>0 DEF CallTypeOK
  <2>2. spent \in 0 .. ShutdownLimit BY <1>0, ServerAssumption
  <2>3. QED BY <1>0, <2>1, <2>2 DEF TypeOK
<1>2. ASSUME NEW c \in Calls PROVE CallInv(c) /\ ReportIsTrue(c)
  <2>1. /\ pc[c] = "idle" /\ waited[c] = 0 /\ wire[c] = FALSE /\ task[c] = None /\ read[c] = None
        /\ report[c] = None
    BY <1>0
  <2>2. 0 <= WaitLimit + Interval + Timeout BY WaitAssumption
  <2>3. None \notin {"initiated", "success", "failed", "still running", "wait error", "error"}
    BY NoneAssumption DEF Reports
  <2>4. QED BY <2>1, <2>2, <2>3 DEF CallInv, ReportIsTrue
<1>3. StopInv BY <1>0 DEF StopInv, Active
<1>4. QED BY <1>1, <1>2, <1>3 DEF ServerInv, ReportsAreTrue

\* A call that a step leaves alone keeps its invariant.
LEMMA Same ==
  ASSUME NEW d \in Calls, Inv(d),
         pc'[d] = pc[d], age'[d] = age[d], waited'[d] = waited[d], wire'[d] = wire[d],
         task'[d] = task[d], read'[d] = read[d], report'[d] = report[d]
  PROVE  Inv(d)'
BY DEF Inv, CallInv, ReportIsTrue

\* What a step of one call has to leave as it is.
OtherThan(c) ==
  \A d \in Calls \ {c} :
    /\ pc'[d] = pc[d] /\ age'[d] = age[d] /\ waited'[d] = waited[d] /\ wire'[d] = wire[d]
    /\ task'[d] = task[d] /\ read'[d] = read[d] /\ report'[d] = report[d]

\* A new request or pause, for a call whose other variables are as required.
LEMMA Entering ==
  ASSUME CallTypeOK, NEW c \in Calls, NEW where \in Active \union {"answered"}, Enter(c, where)
  PROVE  /\ pc' \in [Calls -> Active \union {"idle", "answered", "cut"}]
         /\ age' \in [Calls -> Nat] /\ read' \in [Calls -> TaskStates \union {None}]
         /\ pc'[c] = where /\ age'[c] = 0 /\ read'[c] = None
         /\ \A d \in Calls \ {c} : pc'[d] = pc[d] /\ age'[d] = age[d] /\ read'[d] = read[d]
BY DEF CallTypeOK, Enter

LEMMA Beginning ==
  ASSUME CallTypeOK, NEW c \in Calls, Inv(c), Begin(c)
  PROVE  CallTypeOK' /\ Inv(c)' /\ OtherThan(c) /\ pc'[c] = "post"
<1>1. Enter(c, "post") /\ pc[c] = "idle" BY DEF Begin
<1>2. /\ pc' \in [Calls -> Active \union {"idle", "answered", "cut"}]
      /\ age' \in [Calls -> Nat] /\ read' \in [Calls -> TaskStates \union {None}]
      /\ pc'[c] = "post" /\ age'[c] = 0 /\ read'[c] = None
      /\ \A d \in Calls \ {c} : pc'[d] = pc[d] /\ age'[d] = age[d] /\ read'[d] = read[d]
  BY <1>1, Entering DEF Active
<1>3. /\ wire' \in [Calls -> BOOLEAN] /\ wire'[c] = TRUE /\ \A d \in Calls \ {c} : wire'[d] = wire[d]
      /\ UNCHANGED <<waited, task, report, gone>>
  BY DEF CallTypeOK, Begin
<1>4. CallTypeOK' BY <1>2, <1>3 DEF CallTypeOK
<1>5. task[c] = None /\ report[c] = None BY <1>1 DEF Inv, CallInv
<1>6. 0 <= Timeout BY WaitAssumption
<1>7. Inv(c)' BY <1>2, <1>3, <1>5, <1>6, WaitAssumption, NoneAssumption DEF Inv, CallInv, ReportIsTrue, TaskStates, Reports
<1>8. QED BY <1>2, <1>3, <1>4, <1>7 DEF OtherThan

LEMMA Handling ==
  ASSUME CallTypeOK, NEW c \in Calls, Inv(c), Handle(c)
  PROVE  CallTypeOK' /\ Inv(c)' /\ OtherThan(c) /\ pc'[c] \in Active \union {"answered"} /\ pc[c] \in Active
<1>1. /\ pc[c] \in Active /\ UNCHANGED <<wire, task, gone>>
      /\ \E where \in Active \union {"answered"} : Enter(c, where)
  BY DEF Handle, PostReply, PollReply, Wake, Report, Active
<1>2. PICK where \in Active \union {"answered"} : Enter(c, where) BY <1>1
<1>3. /\ pc' \in [Calls -> Active \union {"idle", "answered", "cut"}]
      /\ age' \in [Calls -> Nat] /\ read' \in [Calls -> TaskStates \union {None}]
      /\ pc'[c] = where /\ age'[c] = 0 /\ read'[c] = None
      /\ \A d \in Calls \ {c} : pc'[d] = pc[d] /\ age'[d] = age[d] /\ read'[d] = read[d]
  BY <1>2, Entering
<1>4. waited' = waited \/ (pc[c] = "post" /\ waited' = [waited EXCEPT ![c] = 0])
  BY DEF Handle, PostReply, PollReply, Wake
<1>5. \/ report' = report /\ where # "answered"
      \/ where = "answered" /\ \E what \in Reports : report' = [report EXCEPT ![c] = what]
  BY <1>3 DEF CallTypeOK, Handle, PostReply, PollReply, Wake, Report, Enter, Reports, Active
<1>6. /\ waited' \in [Calls -> Nat] /\ report' \in [Calls -> Reports \union {None}]
      /\ \A d \in Calls \ {c} : waited'[d] = waited[d] /\ report'[d] = report[d]
  BY <1>4, <1>5 DEF CallTypeOK
<1>7. CallTypeOK' BY <1>1, <1>3, <1>6 DEF CallTypeOK
<1>8. report[c] = None BY <1>1 DEF Inv, CallInv, Active
<1>9. waited[c] \in Nat /\ age[c] \in Nat /\ waited'[c] \in {0, waited[c]} /\ waited[c] <= WaitLimit + Interval + Timeout
  BY <1>4 DEF CallTypeOK, Inv, CallInv
<1>10. Inv(c)'
  <2>1. CASE PostReply(c)
    <3>1. \/ where = "answered" /\ report'[c] \in {"initiated", "error"} /\ (report'[c] = "initiated" => task[c] # None)
             /\ waited'[c] = waited[c]
          \/ where = "poll" /\ task[c] # None /\ report'[c] = None /\ waited'[c] = 0
      BY <1>3, <1>8, <2>1 DEF CallTypeOK, PostReply, Report, Enter
    <3>2. (pc[c] = "post") /\ (task[c] # None => ~wire[c]) BY <2>1 DEF PostReply, Inv, CallInv
    <3>3. 0 <= Timeout /\ 0 <= WaitLimit + Interval + 0 /\ 0 <= WaitLimit + Interval + Timeout BY WaitAssumption
    <3>4. QED BY <1>1, <1>3, <1>8, <1>9, <3>1, <3>2, <3>3, WaitAssumption, NoneAssumption DEF Inv, CallInv, ReportIsTrue, TaskStates, Reports
  <2>2. CASE PollReply(c)
    <3>1. /\ waited'[c] = waited[c] /\ task[c] # None /\ ~wire[c] /\ pc[c] = "poll"
          /\ read[c] # None /\ read[c] # "running" => read[c] = task[c]
      BY <2>2 DEF PollReply, Inv, CallInv
    <3>2. \/ where = "answered" /\ report'[c] = "success" /\ read[c] = "OK"
          \/ where = "answered" /\ report'[c] = "failed" /\ read[c] = "failed"
          \/ where = "answered" /\ report'[c] = "still running" /\ waited[c] > WaitLimit
          \/ where = "answered" /\ report'[c] = "wait error"
          \/ where = "sleep" /\ report'[c] = None /\ waited[c] <= WaitLimit
      BY <1>3, <1>8, <2>2 DEF CallTypeOK, PollReply, Report, Enter
    <3>3. waited[c] <= WaitLimit => waited[c] <= WaitLimit + 0 BY <1>9, WaitAssumption
    <3>4. "OK" # None /\ "failed" # None /\ 0 <= Interval BY WaitAssumption, NoneAssumption DEF TaskStates
    <3>5. QED BY <1>1, <1>3, <1>8, <1>9, <3>1, <3>2, <3>3, <3>4, WaitAssumption, NoneAssumption DEF Inv, CallInv, ReportIsTrue, TaskStates, Reports
  <2>3. CASE Wake(c)
    <3>1. /\ waited'[c] = waited[c] /\ task[c] # None /\ ~wire[c] /\ pc[c] = "sleep"
          /\ waited[c] <= WaitLimit + age[c] /\ age[c] <= Interval
      BY <2>3 DEF Wake, Inv, CallInv
    <3>2. \/ where = "poll" /\ report'[c] = None
          \/ where = "answered" /\ report'[c] = "wait error"
      BY <1>3, <1>8, <2>3 DEF CallTypeOK, Wake, Report, Enter
    <3>3. waited[c] <= WaitLimit + Interval + 0 /\ 0 <= Timeout BY <1>9, <3>1, WaitAssumption
    <3>4. QED BY <1>1, <1>3, <1>8, <1>9, <3>1, <3>2, <3>3, WaitAssumption, NoneAssumption DEF Inv, CallInv, ReportIsTrue, TaskStates, Reports
  <2>4. QED BY <2>1, <2>2, <2>3 DEF Handle
<1>11. QED BY <1>1, <1>3, <1>6, <1>7, <1>10 DEF OtherThan

\* Proxmox carries out a request only once, and a task's end is final.
LEMMA Outside ==
  ASSUME CallTypeOK, NEW c \in Calls, Inv(c), Perform(c) \/ TaskEnds(c) \/ ServePoll(c) \/ Leave(c)
  PROVE  CallTypeOK' /\ Inv(c)' /\ OtherThan(c) /\ UNCHANGED pc
<1>0. None \notin {"running", "OK", "failed"} BY NoneAssumption DEF TaskStates
<1>1. CASE Perform(c)
  <2>1. /\ wire[c] /\ wire' = [wire EXCEPT ![c] = FALSE] /\ UNCHANGED <<pc, age, waited, read, report, gone>>
        /\ task' = [task EXCEPT ![c] = "running"] \/ UNCHANGED task
    BY <1>1 DEF Perform
  <2>2. CallTypeOK' BY <2>1 DEF CallTypeOK, TaskStates
  <2>3. pc[c] # "idle" /\ task[c] = None BY <2>1 DEF Inv, CallInv
  <2>4. wire'[c] = FALSE /\ task'[c] \in {None, "running"} BY <2>1, <2>3 DEF CallTypeOK
  <2>5. report[c] \notin {"success", "failed", "initiated", "wait error", "still running"} /\ (read[c] = None \/ read[c] = "running")
    BY <1>0, <2>3 DEF Inv, CallInv, ReportIsTrue
  <2>6. Inv(c)' BY <2>1, <2>3, <2>4, <2>5 DEF Inv, CallInv, ReportIsTrue
  <2>7. QED BY <2>1, <2>2, <2>6 DEF OtherThan, CallTypeOK
<1>2. CASE TaskEnds(c)
  <2>1. PICK exit \in {"OK", "failed"} : task' = [task EXCEPT ![c] = exit] BY <1>2 DEF TaskEnds
  <2>2. task[c] = "running" /\ UNCHANGED <<pc, age, waited, wire, read, report, gone>> BY <1>2 DEF TaskEnds
  <2>3. CallTypeOK' BY <2>1, <2>2 DEF CallTypeOK, TaskStates
  <2>4. task'[c] \in {"OK", "failed"} /\ task'[c] # None /\ task[c] # None BY <1>0, <2>1, <2>2 DEF CallTypeOK
  <2>5. report[c] \notin {"success", "failed"} /\ (read[c] = None \/ read[c] = "running") BY <2>2 DEF Inv, CallInv, ReportIsTrue
  <2>6. Inv(c)' BY <2>2, <2>4, <2>5 DEF Inv, CallInv, ReportIsTrue
  <2>7. QED BY <2>1, <2>2, <2>3, <2>6 DEF OtherThan, CallTypeOK
<1>3. CASE ServePoll(c)
  <2>1. read' = [read EXCEPT ![c] = task[c]] /\ UNCHANGED <<pc, age, waited, wire, task, report, gone>>
    BY <1>3 DEF ServePoll
  <2>2. CallTypeOK' BY <2>1 DEF CallTypeOK
  <2>3. read'[c] = task[c] BY <2>1 DEF CallTypeOK
  <2>4. Inv(c)' BY <2>1, <2>3 DEF Inv, CallInv, ReportIsTrue
  <2>5. QED BY <2>1, <2>2, <2>4 DEF OtherThan, CallTypeOK
<1>4. CASE Leave(c)
  <2>1. gone' = gone \union {c} /\ UNCHANGED <<pc, age, waited, wire, task, read, report>> BY <1>4 DEF Leave
  <2>2. CallTypeOK' BY <2>1 DEF CallTypeOK
  <2>3. Inv(c)' BY <2>1, Same
  <2>4. QED BY <2>1, <2>2, <2>3 DEF OtherThan
<1>5. QED BY <1>1, <1>2, <1>3, <1>4

\* A tick passes only while no time limit is due.
LEMMA AgingKeeps ==
  ASSUME CallTypeOK, \A c \in Calls : Inv(c), Aging
  PROVE  CallTypeOK' /\ (\A c \in Calls : Inv(c)') /\ UNCHANGED pc
<1>1. /\ NothingDue
      /\ age' = [c \in Calls |-> IF pc[c] \in Active THEN age[c] + 1 ELSE age[c]]
      /\ waited' = [c \in Calls |-> IF pc[c] \in {"poll", "sleep"} THEN waited[c] + 1 ELSE waited[c]]
      /\ UNCHANGED <<pc, wire, task, read, report, gone>>
  BY DEF Aging
<1>2. \A c \in Calls : age[c] \in Nat /\ waited[c] \in Nat BY DEF CallTypeOK
<1>3. \A n \in Nat : n + 1 \in Nat OBVIOUS
<1>4. age' \in [Calls -> Nat] /\ waited' \in [Calls -> Nat] BY <1>1, <1>2, <1>3
<1>5. CallTypeOK' BY <1>1, <1>4 DEF CallTypeOK
<1>6. ASSUME NEW c \in Calls PROVE Inv(c)'
  <2>1. Inv(c) OBVIOUS
  <2>2. CASE pc[c] \in {"poll", "sleep"}
    <3>1. age'[c] = age[c] + 1 /\ waited'[c] = waited[c] + 1 BY <1>1, <2>2 DEF Active
    <3>2. report[c] = None BY <2>1, <2>2 DEF Inv, CallInv
    <3>3. CASE pc[c] = "poll"
      <4>1. age[c] < Timeout /\ waited[c] <= WaitLimit + Interval + age[c] BY <1>1, <2>1, <3>3 DEF NothingDue, Inv, CallInv
      <4>2. age[c] + 1 <= Timeout /\ waited[c] + 1 <= WaitLimit + Interval + (age[c] + 1)
            /\ waited[c] + 1 <= WaitLimit + Interval + Timeout
        BY <1>2, <4>1, WaitAssumption
      <4>3. None \notin {"initiated", "success", "failed", "still running", "wait error", "error"}
        BY NoneAssumption DEF Reports
      <4>4. QED BY <1>1, <2>1, <3>1, <3>2, <3>3, <4>2, <4>3 DEF Inv, CallInv, ReportIsTrue
    <3>4. CASE pc[c] = "sleep"
      <4>1. age[c] < Interval /\ waited[c] <= WaitLimit + age[c] BY <1>1, <2>1, <3>4 DEF NothingDue, Inv, CallInv
      <4>2. age[c] + 1 <= Interval /\ waited[c] + 1 <= WaitLimit + (age[c] + 1)
            /\ waited[c] + 1 <= WaitLimit + Interval + Timeout
        BY <1>2, <4>1, WaitAssumption
      <4>3. None \notin {"initiated", "success", "failed", "still running", "wait error", "error"}
        BY NoneAssumption DEF Reports
      <4>4. QED BY <1>1, <2>1, <3>1, <3>2, <3>4, <4>2, <4>3 DEF Inv, CallInv, ReportIsTrue
    <3>5. QED BY <2>2, <3>3, <3>4
  <2>3. CASE pc[c] = "post"
    <3>1. age'[c] = age[c] + 1 /\ waited'[c] = waited[c] BY <1>1, <2>3 DEF Active
    <3>2. age[c] < Timeout BY <1>1, <2>3 DEF NothingDue
    <3>3. age[c] + 1 <= Timeout BY <1>2, <3>2, WaitAssumption
    <3>4. QED BY <1>1, <2>1, <2>3, <3>1, <3>3 DEF Inv, CallInv, ReportIsTrue
  <2>4. CASE pc[c] \notin Active
    <3>1. age'[c] = age[c] /\ waited'[c] = waited[c] BY <1>1, <2>4 DEF Active
    <3>2. QED BY <1>1, <2>1, <3>1, Same
  <2>5. QED BY <2>2, <2>3, <2>4 DEF Active
<1>7. QED BY <1>1, <1>5, <1>6

\* The end of the process ends every call, and changes nothing that was reported.
LEMMA Cutting ==
  ASSUME CallTypeOK, \A c \in Calls : Inv(c), CutOff
  PROVE  CallTypeOK' /\ (\A c \in Calls : Inv(c)') /\ (\A c \in Calls : pc'[c] \notin Active)
<1>1. /\ pc' = [c \in Calls |-> IF pc[c] \in Active THEN "cut" ELSE pc[c]]
      /\ UNCHANGED <<age, waited, wire, task, read, report, gone>>
  BY DEF CutOff
<1>2. pc' \in [Calls -> Active \union {"idle", "answered", "cut"}] BY <1>1 DEF CallTypeOK
<1>3. CallTypeOK' BY <1>1, <1>2 DEF CallTypeOK
<1>4. ASSUME NEW c \in Calls PROVE Inv(c)' /\ pc'[c] \notin Active
  <2>1. CASE pc[c] \in Active
    <3>1. pc'[c] = "cut" BY <1>1, <2>1
    <3>2. report[c] = None BY <2>1 DEF Inv, CallInv, Active
    <3>3. QED BY <1>1, <3>1, <3>2 DEF Inv, CallInv, ReportIsTrue, Active
  <2>2. CASE pc[c] \notin Active
    <3>1. pc'[c] = pc[c] BY <1>1, <2>2
    <3>2. QED BY <1>1, <2>2, <3>1, Same
  <2>3. QED BY <2>1, <2>2
<1>5. QED BY <1>3, <1>4

\* A step of one call that neither cuts a call off nor revives one.
LEMMA CallSteps ==
  ASSUME ServerInv, UNCHANGED processVars, phase # "exited",
         NEW c \in Calls, CallTypeOK', Inv(c)', OtherThan(c), pc'[c] # "cut"
  PROVE  ServerInv'
<1> USE DEF processVars
<1>1. TypeOK' BY DEF ServerInv, TypeOK
<1>2. ASSUME NEW d \in Calls PROVE Inv(d)'
  <2>1. CASE d # c BY <2>1, Same DEF OtherThan, ServerInv, ReportsAreTrue, Inv
  <2>2. QED BY <2>1
<1>3. \A d \in Calls : pc'[d] # "cut"
  <2>1. \A d \in Calls : pc[d] # "cut" BY DEF ServerInv, StopInv
  <2>2. QED BY <2>1 DEF OtherThan
<1>4. StopInv'
  <2>1. StopInv BY DEF ServerInv
  <2>2. UNCHANGED <<stdio, phase, spent, code>> OBVIOUS
  <2>3. QED BY <1>3, <2>1, <2>2 DEF StopInv
<1>5. QED BY <1>1, <1>2, <1>4 DEF ServerInv, ReportsAreTrue, Inv

LEMMA Exiting ==
  ASSUME ServerInv, NEW how \in Codes, Exit(how)
  PROVE  ServerInv'
<1>1. /\ phase' = "exited" /\ code' = how /\ page' = "none" /\ session' = FALSE /\ CutOff /\ UNCHANGED <<stdio, spent>>
  BY DEF Exit
<1>2. CallTypeOK' /\ (\A c \in Calls : Inv(c)') /\ (\A c \in Calls : pc'[c] \notin Active)
  BY <1>1, Cutting DEF ServerInv, TypeOK, ReportsAreTrue, Inv
<1>3. TypeOK' BY <1>1, <1>2 DEF ServerInv, TypeOK
<1>4. how # None BY ServerAssumption DEF Codes
<1>5. StopInv' BY <1>1, <1>2, <1>4 DEF StopInv
<1>6. QED BY <1>2, <1>3, <1>5 DEF ServerInv, ReportsAreTrue, Inv

\* A step of the process or of a connection that leaves the calls alone.
LEMMA ProcessSteps ==
  ASSUME ServerInv, UNCHANGED <<pc, age, waited, wire, task, read, report>>, gone' \subseteq Calls,
         phase # "exited", phase' # "exited", UNCHANGED <<stdio, code>>,
         phase' \in {"up", "leaving", "ui", "mcp"}, spent' \in 0 .. ShutdownLimit,
         page' \in {"none", "streaming", "stalled"}, session' \in BOOLEAN,
         phase' = "ui" => spent' <= UILimit, phase' = "leaving" => stdio, phase' = "mcp" => ~stdio,
         phase' \in {"up", "leaving"} => spent' = 0
  PROVE  ServerInv'
<1>1. TypeOK' BY DEF ServerInv, TypeOK, CallTypeOK
<1>2. ASSUME NEW d \in Calls PROVE Inv(d)' BY Same DEF ServerInv, ReportsAreTrue, Inv
<1>3. \A d \in Calls : pc'[d] # "cut" BY DEF ServerInv, StopInv
<1>4. code' = None BY DEF ServerInv, StopInv
<1>5. StopInv' BY <1>3, <1>4 DEF StopInv
<1>6. QED BY <1>1, <1>2, <1>5 DEF ServerInv, ReportsAreTrue, Inv

LEMMA Ticking == ServerInv /\ Tick => ServerInv'
<1> SUFFICES ASSUME ServerInv, Tick PROVE ServerInv' OBVIOUS
<1>1. /\ phase # "exited" /\ Aging /\ UNCHANGED <<stdio, phase, code, page, session>>
      /\ phase = "ui" => spent < UILimit
      /\ phase = "mcp" => spent < ShutdownLimit
      /\ spent' = IF phase \in {"ui", "mcp"} THEN spent + 1 ELSE spent
  BY DEF Tick
<1>2. CallTypeOK' /\ (\A c \in Calls : Inv(c)') /\ UNCHANGED pc
  BY <1>1, AgingKeeps DEF ServerInv, TypeOK, ReportsAreTrue, Inv
<1>3. UILimit \in Nat /\ ShutdownLimit \in Nat /\ UILimit < ShutdownLimit /\ spent \in Nat
  BY ServerAssumption DEF ServerInv, TypeOK
<1>4. spent' \in 0 .. ShutdownLimit /\ (phase = "ui" => spent' <= UILimit) /\ (phase \in {"up", "leaving"} => spent' = 0)
  <2>1. CASE phase = "ui"
    <3>1. spent + 1 \in 0 .. ShutdownLimit /\ spent + 1 <= UILimit BY <1>1, <1>3, <2>1
    <3>2. QED BY <1>1, <2>1, <3>1
  <2>2. CASE phase = "mcp"
    <3>1. spent + 1 \in 0 .. ShutdownLimit BY <1>1, <1>3, <2>2
    <3>2. QED BY <1>1, <2>2, <3>1
  <2>3. CASE phase \in {"up", "leaving"} BY <1>1, <2>3 DEF ServerInv, TypeOK, StopInv
  <2>4. QED BY <1>1, <2>1, <2>2, <2>3 DEF ServerInv, TypeOK
<1>5. TypeOK' BY <1>1, <1>2, <1>4 DEF ServerInv, TypeOK
<1>6. StopInv' BY <1>1, <1>2, <1>4 DEF ServerInv, StopInv
<1>7. QED BY <1>2, <1>5, <1>6 DEF ServerInv, ReportsAreTrue, Inv

LEMMA Step == ServerInv /\ [Next]_vars => ServerInv'
<1> SUFFICES ASSUME ServerInv, [Next]_vars PROVE ServerInv' OBVIOUS
<1>0. CallTypeOK /\ (\A c \in Calls : Inv(c)) BY DEF ServerInv, TypeOK, ReportsAreTrue, Inv
<1>1. ASSUME NEW c \in Calls, Accept(c) \/ HangUp(c) \/ HandlerSteps(c) \/ ProxmoxSteps(c)
      PROVE  ServerInv'
  <2>1. CASE Accept(c)
    <3>1. Begin(c) /\ UNCHANGED processVars /\ phase # "exited" BY <2>1 DEF Accept, Listening
    <3>2. QED BY <1>0, <3>1, Beginning, CallSteps
  <2>2. CASE HandlerSteps(c)
    <3>1. Handle(c) /\ UNCHANGED processVars /\ phase # "exited" BY <2>2 DEF HandlerSteps
    <3>2. CallTypeOK' /\ Inv(c)' /\ OtherThan(c) /\ pc'[c] # "cut" BY <1>0, <3>1, Handling DEF Active
    <3>3. QED BY <3>1, <3>2, CallSteps
  <2>3. CASE HangUp(c) \/ ProxmoxSteps(c)
    <3>1. (Perform(c) \/ TaskEnds(c) \/ ServePoll(c) \/ Leave(c)) /\ UNCHANGED processVars /\ phase # "exited"
      BY <2>3 DEF HangUp, ProxmoxSteps
    <3>2. CallTypeOK' /\ Inv(c)' /\ OtherThan(c) /\ UNCHANGED pc BY <1>0, <3>1, Outside
    <3>3. pc'[c] # "cut" BY <3>1, <3>2 DEF ServerInv, StopInv
    <3>4. QED BY <3>1, <3>2, <3>3, CallSteps
  <2>4. QED BY <1>1, <2>1, <2>2, <2>3
<1>2. 0 \in 0 .. ShutdownLimit /\ 0 <= UILimit BY ServerAssumption
<1>3. CASE OpenSession \/ CloseSession \/ PageMoves \/ StreamEnds
  <2>1. /\ UNCHANGED <<callVars, stdio, phase, spent, code>> /\ phase # "exited"
        /\ page' \in {"none", "streaming", "stalled"} /\ session' \in BOOLEAN
    BY <1>3 DEF ServerInv, TypeOK, OpenSession, CloseSession, PageMoves, StreamEnds, Listening
  <2>2. UNCHANGED <<pc, age, waited, wire, task, read, report, gone>> BY <2>1 DEF callVars
  <2>3. QED BY <2>1, <2>2, ProcessSteps DEF ServerInv, TypeOK, CallTypeOK, StopInv
<1>4. CASE Interrupt
  <2>1. /\ ~stdio /\ phase = "up" /\ phase' = "ui" /\ spent' = 0 /\ UNCHANGED <<stdio, code, page, session>>
        /\ UNCHANGED <<pc, age, waited, wire, task, read, report, gone>>
    BY <1>4 DEF Interrupt, callVars
  <2>2. QED BY <1>2, <2>1, ProcessSteps DEF ServerInv, TypeOK, CallTypeOK
<1>5. CASE StopListening
  <2>1. /\ stdio /\ phase = "up" /\ phase' = "leaving" /\ UNCHANGED <<stdio, spent, code, page, session>>
        /\ gone' \in {gone, Calls} /\ UNCHANGED <<pc, age, waited, wire, task, read, report>>
    BY <1>5 DEF StopListening
  <2>2. QED BY <2>1, ProcessSteps DEF ServerInv, TypeOK, CallTypeOK, StopInv
<1>6. CASE ListenReturns
  <2>1. CASE Exit("failure") BY <2>1, Exiting DEF Codes
  <2>2. CASE /\ phase = "leaving" /\ phase' = "ui" /\ spent' = 0 /\ gone' = Calls
             /\ UNCHANGED <<pc, age, waited, wire, task, read, report, stdio, code, page, session>>
    BY <1>2, <2>2, ProcessSteps DEF ServerInv, TypeOK
  <2>3. QED BY <1>6, <2>1, <2>2 DEF ListenReturns
<1>7. CASE ListenerFails \/ Kill BY <1>7, Exiting DEF ListenerFails, Kill, Codes
<1>8. CASE StopUI
  <2>1. CASE Exit("ok") BY <2>1, Exiting DEF Codes
  <2>2. CASE /\ phase = "ui" /\ ~stdio /\ phase' = "mcp" /\ page' = "none"
             /\ UNCHANGED <<callVars, stdio, spent, code, session>>
    <3>1. UNCHANGED <<pc, age, waited, wire, task, read, report, gone>> BY <2>2 DEF callVars
    <3>2. QED BY <2>2, <3>1, ProcessSteps DEF ServerInv, TypeOK, CallTypeOK
  <2>3. QED BY <1>8, <2>1, <2>2 DEF StopUI
<1>9. CASE Shutdown BY <1>9, Exiting DEF Shutdown, Codes
<1>10. CASE Tick BY <1>10, Ticking
<1>11. CASE UNCHANGED vars
  <2>1. /\ UNCHANGED <<pc, age, waited, wire, task, read, report, gone>>
        /\ UNCHANGED <<stdio, phase, spent, code, page, session>>
    BY <1>11 DEF vars, callVars, processVars
  <2>2. TypeOK' BY <2>1 DEF ServerInv, TypeOK, CallTypeOK
  <2>3. \A d \in Calls : Inv(d)' BY <1>0, <2>1, Same
  <2>4. StopInv' BY <2>1 DEF ServerInv, StopInv
  <2>5. QED BY <2>2, <2>3, <2>4 DEF ServerInv, ReportsAreTrue, Inv
<1>12. QED BY <1>1, <1>3, <1>4, <1>5, <1>6, <1>7, <1>8, <1>9, <1>10, <1>11 DEF Next

\* The inductive invariant: what a handler knows of its task, and what each
\* phase of the shutdown has put an end to.
THEOREM ServerInvariant == Spec => []ServerInv
BY Initially, Step, PTL DEF Spec

\* No report says of a task what is not so, whenever polls are answered.
THEOREM TrueReports == Spec => []ReportsAreTrue
<1>1. ServerInv => ReportsAreTrue BY DEF ServerInv
<1>2. QED BY <1>1, ServerInvariant, PTL

\* A wait ends at most one pause and one poll after its limit, for any limits.
THEOREM BoundedWaits == Spec => []WaitsAreBounded
<1>1. ServerInv => WaitsAreBounded BY DEF ServerInv, CallInv, WaitsAreBounded
<1>2. QED BY <1>1, ServerInvariant, PTL

-----------------------------------------------------------------------------
(* The process implements GracefulStop.                                    *)

LEMMA InitMaps == Init => GS!Init
BY DEF Init, CallInit, GS!Init, State, Pending, Broken, Active

\* The end of the process is one of the stops: it breaks off who was waiting.
LEMMA ExitMaps ==
  ASSUME ServerInv, phase # "exited", NEW how, Exit(how)
  PROVE  GS!Stop(how)
<1>1. /\ phase' = "exited" /\ code' = how /\ CutOff /\ UNCHANGED <<stdio, spent>>
  BY DEF Exit
<1>2. pc' = [c \in Calls |-> IF pc[c] \in Active THEN "cut" ELSE pc[c]] BY <1>1 DEF CutOff
<1>3. \A c \in Calls : pc[c] # "cut" BY DEF ServerInv, StopInv
<1>4. Broken' = Pending BY <1>1, <1>2, <1>3 DEF Broken, Pending, Caller
<1>5. Pending' = {} BY <1>1, <1>2 DEF Pending, Active
<1>6. State' = "stopped" BY <1>1 DEF State
<1>7. QED BY <1>1, <1>4, <1>5, <1>6 DEF GS!Stop

\* A step of one call, in a process that stays as it is, ends a caller's waiting
\* or begins it, or nobody outside sees it.
LEMMA CallMaps ==
  ASSUME ServerInv, UNCHANGED processVars, phase # "exited", NEW c \in Calls, OtherThan(c), pc'[c] # "cut"
  PROVE  \/ c \in Posts /\ (GS!Accept(c) \/ GS!Finish(c))
         \/ UNCHANGED <<State, spent, code, Pending, Broken>>
<1>1. UNCHANGED <<stdio, phase, spent, code>> BY DEF processVars
<1>2. UNCHANGED State /\ State # "stopped" BY <1>1 DEF State
<1>3. \A d \in Calls : (Caller(d)' <=> Caller(d)) /\ (d # c => pc'[d] = pc[d]) BY <1>1 DEF Caller, OtherThan
<1>4. UNCHANGED Broken BY <1>3 DEF Broken, ServerInv, StopInv
<1>5. CASE Caller(c) /\ pc[c] \in Active /\ pc'[c] \notin Active
  <2>1. c \in Posts /\ c \in Pending /\ Pending' = Pending \ {c} BY <1>3, <1>5 DEF Pending, Caller
  <2>2. QED BY <1>1, <1>2, <1>4, <2>1 DEF GS!Finish
<1>6. CASE Caller(c) /\ pc[c] \notin Active /\ pc'[c] \in Active
  <2>1. c \in Posts /\ c \notin Pending /\ Pending' = Pending \union {c} BY <1>3, <1>6 DEF Pending, Caller
  <2>2. QED BY <1>1, <1>2, <1>4, <2>1 DEF GS!Accept
<1>7. CASE ~Caller(c) \/ (pc[c] \in Active <=> pc'[c] \in Active)
  <2>1. UNCHANGED Pending BY <1>3, <1>7 DEF Pending
  <2>2. QED BY <1>1, <1>2, <1>4, <2>1
<1>8. QED BY <1>5, <1>6, <1>7

LEMMA Stutter ==
  ASSUME UNCHANGED <<pc, stdio, spent, code>>, UNCHANGED State
  PROVE  UNCHANGED GS!svars
BY DEF GS!svars, Pending, Broken, Caller

LEMMA NextMaps == ServerInv /\ [Next]_vars => [GS!Next]_GS!svars
<1> SUFFICES ASSUME ServerInv, [Next]_vars PROVE GS!Next \/ UNCHANGED GS!svars OBVIOUS
<1>0. CallTypeOK /\ (\A c \in Calls : Inv(c)) BY DEF ServerInv, TypeOK, ReportsAreTrue, Inv
<1>1. ASSUME NEW c \in Calls, Accept(c) \/ HangUp(c) \/ HandlerSteps(c) \/ ProxmoxSteps(c)
      PROVE  GS!Next \/ UNCHANGED GS!svars
  <2>1. UNCHANGED processVars /\ phase # "exited" /\ OtherThan(c) /\ pc'[c] # "cut"
    <3>1. CASE Accept(c)
      <4>1. Begin(c) /\ UNCHANGED processVars /\ phase # "exited" BY <3>1 DEF Accept, Listening
      <4>2. QED BY <1>0, <4>1, Beginning
    <3>2. CASE HandlerSteps(c)
      <4>1. Handle(c) /\ UNCHANGED processVars /\ phase # "exited" BY <3>2 DEF HandlerSteps
      <4>2. OtherThan(c) /\ pc'[c] # "cut" BY <1>0, <4>1, Handling DEF Active
      <4>3. QED BY <4>1, <4>2
    <3>3. CASE HangUp(c) \/ ProxmoxSteps(c)
      <4>1. (Perform(c) \/ TaskEnds(c) \/ ServePoll(c) \/ Leave(c)) /\ UNCHANGED processVars /\ phase # "exited"
        BY <3>3 DEF HangUp, ProxmoxSteps
      <4>2. OtherThan(c) /\ UNCHANGED pc BY <1>0, <4>1, Outside
      <4>3. QED BY <4>1, <4>2 DEF ServerInv, StopInv
    <3>4. QED BY <1>1, <3>1, <3>2, <3>3
  <2>2. CASE c \in Posts /\ (GS!Accept(c) \/ GS!Finish(c)) BY <2>2 DEF GS!Next
  <2>3. CASE UNCHANGED <<State, spent, code, Pending, Broken>> BY <2>3 DEF GS!svars
  <2>4. QED BY <2>1, <2>2, <2>3, CallMaps
<1>2. CASE OpenSession \/ CloseSession \/ PageMoves \/ StreamEnds
  <2>1. UNCHANGED <<pc, stdio, phase, spent, code>>
    BY <1>2 DEF OpenSession, CloseSession, PageMoves, StreamEnds, callVars
  <2>2. UNCHANGED State BY <2>1 DEF State
  <2>3. QED BY <2>1, <2>2, Stutter
<1>3. ASSUME phase \in {"up", "leaving"}, phase' = "ui", spent' = 0, UNCHANGED <<pc, stdio, code>>
      PROVE  GS!Next
  <2>1. State = "serving" /\ State' = "stopping" BY <1>3 DEF State
  <2>2. UNCHANGED <<code, Pending, Broken>> BY <1>3 DEF Pending, Broken, Caller
  <2>3. GS!AskToStop BY <1>3, <2>1, <2>2 DEF GS!AskToStop
  <2>4. QED BY <2>3 DEF GS!Next
<1>4. CASE Interrupt BY <1>3, <1>4 DEF Interrupt, callVars
<1>5. CASE StopListening
  <2>1. UNCHANGED <<pc, stdio, spent, code>> /\ phase = "up" /\ phase' = "leaving" BY <1>5 DEF StopListening
  <2>2. UNCHANGED State BY <2>1 DEF State
  <2>3. QED BY <2>1, <2>2, Stutter
<1>6. ASSUME phase \in {"up", "leaving"}, Exit("failure") PROVE GS!Next
  <2>1. GS!Stop("failure") BY <1>6, ExitMaps
  <2>2. GS!Fail BY <1>6, <2>1 DEF GS!Fail, State
  <2>3. QED BY <2>2 DEF GS!Next
<1>7. CASE ListenReturns BY <1>3, <1>6, <1>7 DEF ListenReturns
<1>8. CASE ListenerFails BY <1>6, <1>8 DEF ListenerFails
<1>9. CASE Kill
  <2>1. stdio /\ phase = "ui" /\ GS!Stop("killed") BY <1>9, ExitMaps DEF Kill
  <2>2. Pending = {} /\ State = "stopping" BY <2>1 DEF Pending, Caller, State
  <2>3. GS!BeKilled BY <2>1, <2>2 DEF GS!BeKilled
  <2>4. QED BY <2>3 DEF GS!Next
<1>10. CASE StopUI
  <2>1. CASE stdio
    <3>1. phase = "ui" /\ GS!Stop("ok") BY <1>10, <2>1, ExitMaps DEF StopUI
    <3>2. Pending = {} /\ State = "stopping" BY <2>1, <3>1 DEF Pending, Caller, State
    <3>3. GS!StopCleanly BY <3>1, <3>2 DEF GS!StopCleanly
    <3>4. QED BY <3>3 DEF GS!Next
  <2>2. CASE ~stdio
    <3>1. phase = "ui" /\ phase' = "mcp" /\ UNCHANGED <<pc, stdio, spent, code>> BY <1>10, <2>2 DEF StopUI, callVars
    <3>2. UNCHANGED State BY <3>1 DEF State
    <3>3. QED BY <3>1, <3>2, Stutter
  <2>3. QED BY <2>1, <2>2
<1>11. CASE Shutdown
  <2>1. phase = "mcp" /\ State = "stopping" BY <1>11 DEF Shutdown, State
  <2>2. CASE Quiescent /\ Exit("ok")
    <3>1. Pending = {} BY <2>2 DEF Quiescent, Pending, Caller
    <3>2. GS!Stop("ok") BY <2>1, <2>2, ExitMaps
    <3>3. GS!StopCleanly BY <2>1, <3>1, <3>2 DEF GS!StopCleanly
    <3>4. QED BY <3>3 DEF GS!Next
  <2>3. CASE spent = ShutdownLimit /\ Exit("failure")
    <3>1. GS!Stop("failure") BY <2>1, <2>3, ExitMaps
    <3>2. GS!GiveUp BY <2>1, <2>3, <3>1 DEF GS!GiveUp
    <3>3. QED BY <3>2 DEF GS!Next
  <2>4. QED BY <1>11, <2>2, <2>3 DEF Shutdown
<1>12. CASE Tick
  <2>1. /\ phase # "exited" /\ UNCHANGED <<pc, stdio, phase, code>>
        /\ phase = "ui" => spent < UILimit
        /\ phase = "mcp" => spent < ShutdownLimit
        /\ spent' = IF phase \in {"ui", "mcp"} THEN spent + 1 ELSE spent
    BY <1>12 DEF Tick, Aging
  <2>2. UNCHANGED <<State, code, Pending, Broken>> BY <2>1 DEF State, Pending, Broken, Caller
  <2>3. CASE phase \in {"ui", "mcp"}
    <3>1. State = "stopping" BY <2>3 DEF State
    <3>2. UILimit \in Nat /\ ShutdownLimit \in Nat /\ UILimit < ShutdownLimit /\ spent \in Nat
      BY ServerAssumption DEF ServerInv, TypeOK
    <3>3. spent < ShutdownLimit BY <2>1, <2>3, <3>2
    <3>4. GS!Pass BY <2>1, <2>2, <2>3, <3>1, <3>3 DEF GS!Pass
    <3>5. QED BY <3>4 DEF GS!Next
  <2>4. CASE phase \notin {"ui", "mcp"} BY <2>1, <2>2, <2>4, Stutter
  <2>5. QED BY <2>3, <2>4
<1>13. CASE UNCHANGED vars
  <2>1. UNCHANGED <<pc, stdio, phase, spent, code>> BY <1>13 DEF vars, callVars, processVars
  <2>2. UNCHANGED State BY <2>1 DEF State
  <2>3. QED BY <2>1, <2>2, Stutter
<1>14. QED BY <1>1, <1>2, <1>4, <1>5, <1>7, <1>8, <1>9, <1>10, <1>11, <1>12, <1>13 DEF Next

\* The process ends as GracefulStop promises, its liveness aside: within the
\* limit, and well only if no caller was cut off.
THEOREM RefinesGracefulStop == Spec => GS!Safety
BY InitMaps, NextMaps, ServerInvariant, PTL DEF Spec, GS!Safety
=============================================================================
