--------------------------- MODULE PrintingProofs ---------------------------
(***************************************************************************)
(* Theorems about Printing, for every finite set of workers, all sets of   *)
(* printers, templates and tasks, whatever brands have a service, whatever *)
(* names are imported, and every bound.                                    *)
(***************************************************************************)
EXTENDS Printing, FiniteSetTheorems, TLAPS

\* A handler has its request, the rows its kind names, and what it fetched.
JobOK(j, row) ==
  /\ j \in Job
  /\ j.kind \in Prints \cup PrinterSaves \cup {"test", "retry"} => j.printer \in Printers
  /\ j.kind \in TemplateSaves \cup {"create_template"} => j.template \in Templates
  /\ j.kind \in Prints \cup TaskSaves => j.task \in Tasks
  /\ j.kind \in TaskSaves => row \in Task
  /\ j.kind \in PrinterSaves => row \in Printer
  /\ j.kind \in TemplateSaves => row \in Template

\* The kinds of request that come to a step.
StepFits(step, kind) ==
  /\ step = "next" => kind = "auto"
  /\ step = "send" => kind \in Prints \cup {"retry", "test", "auto"}
  /\ step = "record" => kind \in Prints
  /\ step = "log" => kind \in Prints \cup {"test", "auto"}
  /\ step = "poll" => kind = "status"
  /\ step = "clear" => kind = "create_template"
  /\ step = "save" => kind \in TaskSaves \cup PrinterSaves \cup TemplateSaves
                                \cup {"create_template"}

HandlerOK(w) ==
  /\ pc[w] = "idle" => job[w] = None
  /\ pc[w] # "idle" => /\ JobOK(job[w], read[w])
                       /\ StepFits(pc[w], job[w].kind)
                       /\ todo[w] # {} => job[w].kind = "auto"
  /\ pc[w] \in {"send", "log"} => job[w].printer \in Printers

HandlersOK == \A w \in Workers : HandlerOK(w)

TypeInv == TypeOK /\ HandlersOK

Keys == Printers \cup Templates \cup Tasks
-----------------------------------------------------------------------------
(***************************************************************************)
(* Type correctness                                                        *)
(***************************************************************************)
\* Setting a column of a row, or what a handler has looked up.
LEMMA PrinterSet ==
  ASSUME NEW j \in Job, NEW p \in Printers
  PROVE  /\ [j EXCEPT !.printer = p] \in Job
         /\ [j EXCEPT !.printer = p].printer = p
         /\ [j EXCEPT !.printer = p].kind = j.kind
         /\ [j EXCEPT !.printer = p].template = j.template
         /\ [j EXCEPT !.printer = p].task = j.task
         /\ [j EXCEPT !.printer = p].on = j.on
         /\ [j EXCEPT !.printer = p].status = j.status
BY DEF Job

LEMMA TemplateSet ==
  ASSUME NEW j \in Job, NEW k \in Templates \cup {None}
  PROVE  /\ [j EXCEPT !.template = k] \in Job
         /\ [j EXCEPT !.template = k].template = k
         /\ [j EXCEPT !.template = k].kind = j.kind
         /\ [j EXCEPT !.template = k].printer = j.printer
         /\ [j EXCEPT !.template = k].task = j.task
         /\ [j EXCEPT !.template = k].on = j.on
         /\ [j EXCEPT !.template = k].status = j.status
BY DEF Job

LEMMA StatusSet ==
  ASSUME NEW row \in Task, NEW s \in Statuses
  PROVE  /\ [row EXCEPT !.status = s] \in Task
         /\ [row EXCEPT !.status = s].status = s
         /\ [row EXCEPT !.status = s].printer = row.printer
         /\ [row EXCEPT !.status = s].template = row.template
BY DEF Task

LEMMA DefaultSet ==
  ASSUME NEW row \in Template, NEW b \in BOOLEAN
  PROVE  /\ [row EXCEPT !.default = b] \in Template
         /\ [row EXCEPT !.default = b].default = b
         /\ (row.default = b => [row EXCEPT !.default = b] = row)
BY DEF Template

LEMMA ActiveSet ==
  ASSUME NEW row \in Template, NEW b \in BOOLEAN
  PROVE  /\ [row EXCEPT !.active = b] \in Template
         /\ [row EXCEPT !.active = b].default = row.default
BY DEF Template

LEMMA OneMore ==
  ASSUME NEW f \in [Printers -> [Subjects -> Nat]], NEW p \in Printers, NEW t \in Subjects
  PROVE  /\ [f EXCEPT ![p][t] = @ + 1] \in [Printers -> [Subjects -> Nat]]
         /\ \A q \in Printers, u \in Subjects :
              [f EXCEPT ![p][t] = @ + 1][q][u] = f[q][u] + (IF q = p /\ u = t THEN 1 ELSE 0)
OBVIOUS

LEMMA RowsTyped ==
  ASSUME TypeOK
  PROVE  /\ Rows(printers) = {p \in Printers : printers[p] \in Printer}
         /\ Rows(templates) = {k \in Templates : templates[k] \in Template}
         /\ Rows(tasks) = {t \in Tasks : tasks[t] \in Task}
BY NoneAssumption DEF TypeOK, Rows

LEMMA DefaultTyped ==
  ASSUME TypeOK
  PROVE  Defaults \subseteq Rows(templates) /\ DefaultTemplate \in Templates \cup {None}
BY RowsTyped DEF Defaults, DefaultTemplate

LEMMA ForPrinterTyped ==
  ASSUME TypeOK, NEW j \in Job, NEW p \in Printers
  PROVE  /\ ForPrinter(j, p) \in Job
         /\ ForPrinter(j, p).printer = p
         /\ ForPrinter(j, p).kind = j.kind
         /\ ForPrinter(j, p).task = j.task
<1> DEFINE k == DefaultTemplate
           i == [j EXCEPT !.printer = p]
<1>1. k \in Templates \cup {None}
  BY DefaultTyped
<1>2. i \in Job /\ i.printer = p /\ i.kind = j.kind /\ i.task = j.task
  BY PrinterSet
<1>3. ForPrinter(j, p) = [i EXCEPT !.template = k]
  BY DEF ForPrinter, Job
<1> HIDE DEF i, k
<1> QED
  BY <1>1, <1>2, <1>3, TemplateSet

\* What a client asks for, and what the handler makes of it.
LEMMA AskedTyped ==
  ASSUME TypeOK, NEW kind \in Kinds, NEW j \in Asked(kind)
  PROVE  /\ j \in Job /\ j.kind = kind
         /\ kind \in NamesPrinter => j.printer \in Rows(printers)
         /\ kind \in TemplateSaves => j.template \in Rows(templates)
         /\ kind = "create_template" => j.template \in FreshTemplates
         /\ kind \in TaskSaves => j.task \in Rows(tasks)
         /\ kind \in Prints => j.task \in FreshTasks
         /\ kind \notin Prints \cup TaskSaves => j.task = None
<1>1. /\ Rows(printers) \subseteq Printers /\ Rows(templates) \subseteq Templates
      /\ Rows(tasks) \subseteq Tasks
      /\ FreshTasks \subseteq Tasks /\ FreshTemplates \subseteq Templates
  BY RowsTyped DEF FreshTasks, FreshTemplates, Unused, TypeOK
<1>2. /\ j.kind = kind /\ j.on \in BOOLEAN /\ j.status \in Statuses \cup {None}
      /\ j.printer \in IF kind \in NamesPrinter THEN Rows(printers) ELSE {None}
      /\ j.task \in CASE kind \in TaskSaves -> Rows(tasks)
                      [] kind \in Prints    -> FreshTasks
                      [] OTHER             -> {None}
      /\ j.template \in CASE kind \in TemplateSaves    -> Rows(templates)
                          [] kind = "create_template" -> FreshTemplates
                          [] kind \in Prints           -> Rows(templates) \cup {None}
                          [] OTHER                    -> {None}
      /\ j = [kind |-> j.kind, printer |-> j.printer, template |-> j.template,
              task |-> j.task, on |-> j.on, status |-> j.status]
  BY DEF Asked
<1>3. TaskSaves \cap Prints = {} /\ TemplateSaves \cap Prints = {}
  BY DEF TaskSaves, Prints, TemplateSaves
<1>4. "create_template" \notin TemplateSaves \cup Prints
  BY DEF TemplateSaves, Prints
<1>5. /\ kind \in NamesPrinter => j.printer \in Rows(printers)
      /\ kind \in TemplateSaves => j.template \in Rows(templates)
      /\ kind = "create_template" => j.template \in FreshTemplates
      /\ kind \in TaskSaves => j.task \in Rows(tasks)
      /\ kind \in Prints => j.task \in FreshTasks
      /\ kind \notin Prints \cup TaskSaves => j.task = None
  BY <1>2, <1>3, <1>4
<1>6. /\ j.printer \in Printers \cup {None} /\ j.template \in Templates \cup {None}
      /\ j.task \in Tasks \cup {None}
  BY <1>1, <1>2, <1>3, <1>4
<1>7. j \in Job
  BY <1>2, <1>6 DEF Job
<1> QED
  BY <1>2, <1>5, <1>7

LEMMA InitTyped == Init => TypeInv
<1> SUFFICES ASSUME Init PROVE TypeInv
  OBVIOUS
<1>1. printers \in [Printers -> Printer \cup {Gone}]
  BY DEF Init, Printer
<1>2. templates \in [Templates -> Template \cup {None, Gone}]
  <2>1. [default : BOOLEAN, active : {TRUE}] \subseteq Template
    BY DEF Template
  <2> DEFINE R == [default : BOOLEAN, active : {TRUE}]
  <2>2. templates \in [Templates -> {None} \cup R]
    BY DEF Init
  <2> HIDE DEF R
  <2> QED
    BY <2>1, <2>2 DEF R
<1>3. tasks \in [Tasks -> Task \cup {None, Gone}]
  <2>1. Rows(templates) \subseteq Templates
    BY <1>2 DEF Rows
  <2> DEFINE R == [printer : Printers, template : Rows(templates), status : {"pending"}]
  <2>2. R \subseteq Task
    BY <2>1 DEF Task, Statuses
  <2>3. tasks \in [Tasks -> {None} \cup R]
    BY DEF Init
  <2> HIDE DEF R
  <2> QED
    BY <2>2, <2>3
<1>4. TypeOK
  BY <1>1, <1>2, <1>3 DEF Init, TypeOK, Steps, Subjects
<1>5. HandlersOK
  BY DEF Init, HandlersOK, HandlerOK
<1> QED
  BY <1>4, <1>5 DEF TypeInv

\* The locals, apart from the tables.
LocalsOK ==
  /\ pc \in [Workers -> Steps]
  /\ job \in [Workers -> Job \cup {None}]
  /\ read \in [Workers -> Printer \cup Template \cup Task \cup {None}]
  /\ todo \in [Workers -> SUBSET Printers]
  /\ ok \in [Workers -> BOOLEAN]
  /\ HandlersOK

TablesOK ==
  /\ printers \in [Printers -> Printer \cup {Gone}]
  /\ templates \in [Templates -> Template \cup {None, Gone}]
  /\ tasks \in [Tasks -> Task \cup {None, Gone}]
  /\ logs \in [Printers -> [Subjects -> Nat]]
  /\ paper \in [Printers -> [Subjects -> Nat]]
  /\ raced \subseteq Keys
  /\ doubted \subseteq Subjects /\ edited \subseteq Tasks /\ owed \in BOOLEAN

LEMMA TypeParts ==
  /\ TypeInv <=> LocalsOK /\ TablesOK
  /\ TypeInv' <=> LocalsOK' /\ TablesOK'
BY DEF TypeInv, TypeOK, LocalsOK, TablesOK, Keys

\* A handler that ends is idle, the others are as they were.
LEMMA FinishLocals ==
  ASSUME LocalsOK, NEW w \in Workers, Finish(w)
  PROVE  /\ LocalsOK'
         /\ pc'[w] = "idle" /\ job'[w] = None
         /\ \A v \in Workers \ {w} :
              /\ pc'[v] = pc[v] /\ job'[v] = job[v] /\ read'[v] = read[v]
              /\ todo'[v] = todo[v] /\ ok'[v] = ok[v]
<1>1. /\ pc'[w] = "idle" /\ job'[w] = None
      /\ \A v \in Workers \ {w} :
           /\ pc'[v] = pc[v] /\ job'[v] = job[v] /\ read'[v] = read[v]
           /\ todo'[v] = todo[v] /\ ok'[v] = ok[v]
  BY DEF Finish, LocalsOK
<1>2. HandlersOK'
  BY <1>1 DEF LocalsOK, HandlersOK, HandlerOK
<1>3. /\ pc' \in [Workers -> Steps] /\ job' \in [Workers -> Job \cup {None}]
      /\ read' \in [Workers -> Printer \cup Template \cup Task \cup {None}]
      /\ todo' \in [Workers -> SUBSET Printers] /\ ok' \in [Workers -> BOOLEAN]
  BY DEF Finish, LocalsOK, Steps
<1> QED
  BY <1>1, <1>2, <1>3 DEF LocalsOK

\* A handler goes on to a later step, with what it has.
LEMMA AdvanceLocals ==
  ASSUME LocalsOK, NEW w \in Workers, NEW step \in Steps, pc[w] # "idle",
         pc' = [pc EXCEPT ![w] = step], UNCHANGED <<job, read, todo>>,
         ok' \in [Workers -> BOOLEAN],
         step # "idle",
         step \in {"send", "log"} => job[w].printer \in Printers,
         StepFits(step, job[w].kind)
  PROVE  LocalsOK'
<1>1. HandlersOK'
  BY DEF LocalsOK, HandlersOK, HandlerOK
<1> QED
  BY <1>1 DEF LocalsOK

\* Marking raced rows.
LEMMA RaceTyped ==
  ASSUME NEW w, NEW S \in SUBSET Keys, raced \subseteq Keys, Race(w, S)
  PROVE  raced' \subseteq Keys /\ raced \subseteq raced'
BY DEF Race

\* What a handler that was admitted takes with it.
LEMMA LookedUpTyped ==
  ASSUME TypeOK, NEW kind \in Kinds, NEW j \in Asked(kind)
  PROVE  /\ JobOK(LookedUp(j), Fetched(j))
         /\ LookedUp(j).kind = kind /\ LookedUp(j).task = j.task
         /\ LookedUp(j).on = j.on /\ LookedUp(j).status = j.status
         /\ kind # "retry" => LookedUp(j).printer = j.printer
         /\ kind \notin Prints => LookedUp(j).template = j.template
         /\ kind \in Prints \cup {"retry", "test"} => LookedUp(j).printer \in Printers
<1>1. /\ j \in Job /\ j.kind = kind
      /\ kind \in NamesPrinter => j.printer \in Rows(printers)
      /\ kind \in TemplateSaves => j.template \in Rows(templates)
      /\ kind = "create_template" => j.template \in FreshTemplates
      /\ kind \in TaskSaves => j.task \in Rows(tasks)
      /\ kind \in Prints => j.task \in FreshTasks
  BY AskedTyped
<1>2. FreshTasks \subseteq Tasks /\ FreshTemplates \subseteq Templates
  BY DEF FreshTasks, FreshTemplates, Unused, TypeOK
<1>3. /\ kind \in NamesPrinter => j.printer \in Printers /\ printers[j.printer] \in Printer
      /\ kind \in TemplateSaves => j.template \in Templates /\ templates[j.template] \in Template
      /\ kind \in TaskSaves => j.task \in Tasks /\ tasks[j.task] \in Task
  BY <1>1, RowsTyped
<1> USE DEF Prints, TaskSaves, PrinterSaves, TemplateSaves, NamesPrinter
<1>4. CASE kind = "retry"
  <2>1. LookedUp(j) = [j EXCEPT !.printer = tasks[j.task].printer] /\ Fetched(j) = tasks[j.task]
    BY <1>1, <1>4 DEF LookedUp, Fetched
  <2>2. tasks[j.task].printer \in Printers
    BY <1>3, <1>4 DEF Task
  <2> DEFINE i == LookedUp(j)
  <2>3. /\ i \in Job /\ i.kind = kind /\ i.task = j.task /\ i.on = j.on
        /\ i.status = j.status /\ i.template = j.template /\ i.printer \in Printers
    BY <1>1, <2>1, <2>2, PrinterSet
  <2> QED
    BY <1>1, <1>3, <1>4, <2>1, <2>3 DEF JobOK
<1>5. CASE kind \in Prints
  <2>1. LookedUp(j) = j \/ LookedUp(j) = [j EXCEPT !.template = DefaultTemplate]
    BY <1>1, <1>5 DEF LookedUp
  <2> DEFINE i == LookedUp(j)
             k == DefaultTemplate
  <2>2. k \in Templates \cup {None}
    BY DefaultTyped
  <2>3. i = j \/ i = [j EXCEPT !.template = k]
    BY <2>1
  <2> HIDE DEF i, k
  <2>4. /\ i \in Job /\ i.kind = kind /\ i.task = j.task /\ i.on = j.on
        /\ i.status = j.status /\ i.printer = j.printer
    <3>1. CASE i = j
      BY <1>1, <3>1
    <3>2. CASE i = [j EXCEPT !.template = k]
      BY <1>1, <2>2, <3>2, TemplateSet
    <3> QED
      BY <2>3, <3>1, <3>2
  <2>5. j.printer \in Printers /\ j.task \in Tasks
    BY <1>1, <1>2, <1>3, <1>5
  <2>6. JobOK(i, Fetched(j))
    BY <1>5, <2>4, <2>5 DEF JobOK
  <2>7. i = LookedUp(j)
    BY DEF i
  <2> QED
    BY <1>5, <2>4, <2>5, <2>6, <2>7
<1>6. CASE kind \notin Prints \cup {"retry"}
  <2>1. LookedUp(j) = j
    BY <1>1, <1>6 DEF LookedUp
  <2>2. /\ kind \in TaskSaves => Fetched(j) = tasks[j.task]
        /\ kind \in PrinterSaves => Fetched(j) = printers[j.printer]
        /\ kind \in TemplateSaves => Fetched(j) = templates[j.template]
    BY <1>1 DEF Fetched
  <2> QED
    BY <1>1, <1>2, <1>3, <1>6, <2>1, <2>2 DEF JobOK
<1> QED
  BY <1>4, <1>5, <1>6

LEMMA ReceiveTyped ==
  ASSUME TypeInv, NEW w \in Workers, NEW kind \in Kinds, NEW j \in Asked(kind), Receive(w, j)
  PROVE  TypeInv'
<1>1. TypeOK /\ LocalsOK /\ TablesOK
  BY TypeParts DEF TypeInv
<1>2. CASE ~Admitted(j)
  BY <1>1, <1>2, TypeParts
  DEF Receive, Arrives, locals, tables, LocalsOK, TablesOK, HandlersOK, HandlerOK
<1>3. CASE Admitted(j)
  <2> DEFINE i == LookedUp(j)
             row == Fetched(j)
             todos == IF j.kind = "auto" THEN AutoPrinters ELSE {}
             step == FirstStep(j)
  <2>1. /\ job' = [job EXCEPT ![w] = i] /\ read' = [read EXCEPT ![w] = row]
        /\ todo' = [todo EXCEPT ![w] = todos] /\ pc' = [pc EXCEPT ![w] = step]
        /\ ok' = ok /\ Race(w, Target(j))
        /\ UNCHANGED <<tables, paper, doubted, edited, owed>>
    BY <1>3 DEF Receive
  <2>2. /\ JobOK(i, row) /\ i.kind = kind
        /\ kind \in Prints \cup {"retry", "test"} => i.printer \in Printers
    BY <1>1, LookedUpTyped
  <2>3. row \in Printer \cup Template \cup Task \cup {None}
    <3>1. j \in Job /\ j.kind = kind
      BY <1>1, AskedTyped
    <3> QED
      BY <2>2, <3>1 DEF JobOK, Fetched
  <2>4. todos \in SUBSET Printers
    BY <1>1, RowsTyped DEF AutoPrinters
  <2>5. /\ step \in Steps /\ step \notin {"idle", "log"} /\ StepFits(step, kind)
        /\ step = "send" => kind \in Prints \cup {"retry", "test"}
        /\ todos # {} => kind = "auto"
    <3>1. j.kind = kind
      BY <1>1, AskedTyped
    <3> USE DEF TaskSaves, PrinterSaves, TemplateSaves, Prints, Kinds
    <3>2. /\ FirstStep(j) \in {"send", "next", "clear", "save", "poll"}
          /\ StepFits(FirstStep(j), kind)
          /\ FirstStep(j) = "send" => kind \in Prints \cup {"retry", "test"}
      BY <3>1 DEF FirstStep, StepFits
    <3> QED
      BY <3>1, <3>2 DEF Steps
  <2>6. Target(j) \subseteq Keys
    <3>1. j.kind = kind
      BY <1>1, AskedTyped
    <3>2. /\ kind \in TaskSaves => j.task \in Tasks
          /\ kind \in PrinterSaves => j.printer \in Printers
          /\ kind \in TemplateSaves => j.template \in Templates
      BY <1>1, AskedTyped, RowsTyped DEF NamesPrinter
    <3> QED
      BY <3>1, <3>2 DEF Target, Keys
  <2>7. raced' \subseteq Keys
    BY <1>1, <2>1, <2>6, RaceTyped DEF TablesOK
  <2> HIDE DEF i, row, todos, step
  <2>8. i \in Job
    BY <2>2 DEF JobOK
  <2>9. HandlersOK'
    BY <1>1, <2>1, <2>2, <2>5, <2>8 DEF LocalsOK, HandlersOK, HandlerOK
  <2>10. LocalsOK'
    BY <1>1, <2>1, <2>3, <2>4, <2>5, <2>8, <2>9 DEF LocalsOK
  <2>11. TablesOK'
    BY <1>1, <2>1, <2>7 DEF TablesOK, tables
  <2> QED
    BY <2>10, <2>11, TypeParts
<1> QED
  BY <1>2, <1>3

LEMMA PrintTyped ==
  ASSUME TypeInv, NEW w \in Workers,
         NextPrinter(w) \/ Send(w) \/ Poll(w) \/ Record(w) \/ Log(w)
  PROVE  TypeInv'
<1>1. LocalsOK /\ TablesOK /\ TypeOK /\ HandlerOK(w)
  BY TypeParts DEF TypeInv, HandlersOK
<1> USE DEF Steps
<1>2. CASE NextPrinter(w)
  <2>1. TablesOK'
    BY <1>1, <1>2 DEF NextPrinter, TablesOK, tables, history
  <2>2. CASE Finish(w)
    BY <1>1, <2>1, <2>2, FinishLocals, TypeParts
  <2>3. CASE ~Finish(w)
    <3>1. PICK p \in todo[w] :
            /\ job' = [job EXCEPT ![w] = ForPrinter(@, p)]
            /\ todo' = [todo EXCEPT ![w] = @ \ {p}]
            /\ pc' = [pc EXCEPT ![w] = "send"] /\ UNCHANGED <<read, ok>>
      BY <1>2, <2>3 DEF NextPrinter
    <3> DEFINE i == ForPrinter(job[w], p)
    <3>2. /\ pc[w] # "idle" /\ JobOK(job[w], read[w]) /\ p \in Printers
          /\ job[w].kind = "auto"
      BY <1>1, <1>2 DEF NextPrinter, HandlerOK, StepFits, LocalsOK
    <3>3. i \in Job /\ i.printer = p /\ i.kind = "auto"
      BY <1>1, <3>2, ForPrinterTyped DEF JobOK
    <3>4. JobOK(i, read[w]) /\ StepFits("send", i.kind)
      BY <3>3 DEF JobOK, StepFits, Prints, PrinterSaves, TemplateSaves, TaskSaves
    <3>5. job' = [job EXCEPT ![w] = i]
      BY <1>1, <3>1 DEF LocalsOK
    <3> HIDE DEF i
    <3>6. HandlersOK'
      BY <1>1, <3>1, <3>2, <3>3, <3>4, <3>5 DEF LocalsOK, HandlersOK, HandlerOK
    <3>7. LocalsOK'
      BY <1>1, <3>1, <3>3, <3>5, <3>6 DEF LocalsOK
    <3> QED
      BY <2>1, <3>7, TypeParts
  <2> QED
    BY <2>2, <2>3
<1>3. CASE Send(w)
  <2>1. pc[w] = "send" /\ JobOK(job[w], read[w]) /\ job[w].printer \in Printers
    BY <1>1, <1>3 DEF Send, HandlerOK
  <2>2. job[w].task \in Subjects
    BY <2>1 DEF JobOK, Job, Subjects
  <2>3. PICK answer \in Answers :
          LET out == answer # "refused" /\ ~Blank(job[w]) IN
          /\ ok' = [ok EXCEPT ![w] = answer = "printed"]
          /\ paper' = IF out THEN [paper EXCEPT ![job[w].printer][job[w].task] = @ + 1]
                      ELSE paper
          /\ doubted' = IF out /\ answer = "lost" THEN doubted \cup {job[w].task} ELSE doubted
    BY <1>3 DEF Send
  <2>4. paper' \in [Printers -> [Subjects -> Nat]] /\ doubted' \subseteq Subjects
    BY <1>1, <2>1, <2>2, <2>3 DEF TablesOK
  <2>5. TablesOK'
    BY <1>1, <1>3, <2>4 DEF Send, TablesOK, tables
  <2>6. ok' \in [Workers -> BOOLEAN]
    BY <1>1, <2>3 DEF LocalsOK
  <2>7. /\ AfterSend(job[w].kind) \in {"save", "record", "log"}
        /\ StepFits(AfterSend(job[w].kind), job[w].kind)
    BY <1>1, <2>1 DEF HandlerOK, AfterSend, StepFits, TaskSaves, Prints
  <2>8. LocalsOK'
    BY <1>1, <1>3, <2>1, <2>6, <2>7, AdvanceLocals DEF Send
  <2> QED
    BY <2>5, <2>8, TypeParts
<1>4. CASE Poll(w)
  <2>1. TablesOK'
    BY <1>1, <1>4 DEF Poll, TablesOK, tables, history
  <2>2. CASE Finish(w)
    BY <1>1, <2>1, <2>2, FinishLocals, TypeParts
  <2>3. CASE ~Finish(w)
    <3>1. /\ pc[w] = "poll" /\ pc' = [pc EXCEPT ![w] = "save"]
          /\ UNCHANGED <<job, read, todo, ok>>
      BY <1>4, <2>3 DEF Poll
    <3>2. StepFits("save", job[w].kind)
      BY <1>1, <3>1 DEF HandlerOK, StepFits, PrinterSaves
    <3> QED
      BY <1>1, <2>1, <3>1, <3>2, AdvanceLocals, TypeParts DEF LocalsOK
  <2> QED
    BY <2>2, <2>3
<1>5. CASE Record(w)
  <2>1. pc[w] = "record" /\ JobOK(job[w], read[w]) /\ job[w].kind \in Prints
    BY <1>1, <1>5 DEF Record, HandlerOK, StepFits
  <2>2. job[w].task \in Tasks /\ job[w].printer \in Printers
    BY <2>1 DEF JobOK
  <2>3. CASE Recordable(w) /\ ~Finish(w)
    <3> DEFINE row == [printer |-> job[w].printer, template |-> job[w].template,
                       status |-> Outcome(w)]
    <3>1. row \in Task
      BY <1>1, <2>2, <2>3, RowsTyped DEF Recordable, Task, Outcome, Statuses
    <3>2. /\ tasks' = [tasks EXCEPT ![job[w].task] = row] /\ pc' = [pc EXCEPT ![w] = "log"]
          /\ UNCHANGED <<job, read, todo, ok, printers, templates, logs, paper, history>>
      BY <1>5, <2>3 DEF Record
    <3> HIDE DEF row
    <3>3. TablesOK'
      BY <1>1, <2>2, <3>1, <3>2 DEF TablesOK, history
    <3>4. LocalsOK'
      BY <1>1, <2>1, <2>2, <3>2, AdvanceLocals DEF LocalsOK, StepFits
    <3> QED
      BY <3>3, <3>4, TypeParts
  <2>4. CASE ~Recordable(w)
    <3>1. Finish(w) /\ TablesOK'
      BY <1>1, <1>5, <2>4 DEF Record, TablesOK, history
    <3> QED
      BY <1>1, <3>1, FinishLocals, TypeParts
  <2>5. CASE Recordable(w) /\ Finish(w)
    <3>1. pc' = [pc EXCEPT ![w] = "log"] /\ pc' = [pc EXCEPT ![w] = "idle"]
      BY <1>5, <2>5 DEF Record, Finish
    <3> QED
      BY <1>1, <3>1 DEF LocalsOK
  <2> QED
    BY <2>3, <2>4, <2>5
<1>6. CASE Log(w)
  <2>1. pc[w] = "log" /\ JobOK(job[w], read[w]) /\ job[w].printer \in Printers
    BY <1>1, <1>6 DEF Log, HandlerOK
  <2>2. job[w].task \in Subjects
    BY <2>1 DEF JobOK, Job, Subjects
  <2>3. TablesOK'
    <3>1. logs' = logs \/ logs' = [logs EXCEPT ![job[w].printer][job[w].task] = @ + 1]
      BY <1>6 DEF Log
    <3>2. logs' \in [Printers -> [Subjects -> Nat]]
      <4> DEFINE p == job[w].printer
                 t == job[w].task
                 more == [logs EXCEPT ![p][t] = @ + 1]
      <4>1. logs \in [Printers -> [Subjects -> Nat]]
        BY <1>1 DEF TablesOK
      <4>2. p \in Printers /\ t \in Subjects
        BY <2>1, <2>2
      <4>3. logs' = logs \/ logs' = more
        BY <3>1
      <4> HIDE DEF p, t
      <4>4. more \in [Printers -> [Subjects -> Nat]]
        BY <4>1, <4>2, OneMore
      <4> QED
        BY <4>1, <4>3, <4>4
    <3>3. UNCHANGED <<printers, templates, tasks, paper, history>>
      BY <1>6 DEF Log
    <3> QED
      BY <1>1, <3>2, <3>3 DEF TablesOK, history
  <2>4. CASE Finish(w)
    BY <1>1, <2>3, <2>4, FinishLocals, TypeParts
  <2>5. CASE ~Finish(w)
    <3>1. /\ pc' = [pc EXCEPT ![w] = "next"] /\ UNCHANGED <<job, read, todo, ok>>
          /\ todo[w] # {}
      BY <1>6, <2>5 DEF Log
    <3>2. StepFits("next", job[w].kind)
      BY <1>1, <2>1, <3>1 DEF HandlerOK, StepFits
    <3> QED
      BY <1>1, <2>1, <2>3, <3>1, <3>2, AdvanceLocals, TypeParts DEF LocalsOK
  <2> QED
    BY <2>4, <2>5
<1> QED
  BY <1>2, <1>3, <1>4, <1>5, <1>6


LEMMA ClearedTyped ==
  ASSUME TypeOK
  PROVE  /\ Cleared \in [Templates -> Template \cup {None, Gone}]
         /\ Rows(Cleared) = Rows(templates)
         /\ \A k \in Rows(templates) : Cleared[k].default = FALSE
         /\ \A k \in Templates \ Rows(templates) : Cleared[k] = templates[k]
         /\ \A k \in Rows(templates) : ~templates[k].default => Cleared[k] = templates[k]
<1>1. \A k \in Rows(templates) : /\ k \in Templates /\ templates[k] \in Template
                                 /\ Cleared[k] = [templates[k] EXCEPT !.default = FALSE]
  BY RowsTyped DEF Cleared
<1>2. \A k \in Templates \ Rows(templates) : Cleared[k] = templates[k]
  BY DEF Cleared
<1>3. \A k \in Rows(templates) :
        /\ Cleared[k] \in Template /\ Cleared[k].default = FALSE
        /\ ~templates[k].default => Cleared[k] = templates[k]
  <2> SUFFICES ASSUME NEW k \in Rows(templates)
               PROVE  /\ Cleared[k] \in Template /\ Cleared[k].default = FALSE
                      /\ ~templates[k].default => Cleared[k] = templates[k]
    OBVIOUS
  <2> DEFINE row == templates[k]
  <2>1. row \in Template /\ Cleared[k] = [row EXCEPT !.default = FALSE]
    BY <1>1
  <2>2. row.default \in BOOLEAN
    BY <2>1 DEF Template
  <2>3. ~row.default => row.default = FALSE
    BY <2>2
  <2> HIDE DEF row
  <2>4. ~row.default => Cleared[k] = row
    BY <2>1, <2>3, DefaultSet
  <2>5. Cleared[k] \in Template /\ Cleared[k].default = FALSE
    BY <2>1 DEF Template
  <2> QED
    BY <2>4, <2>5 DEF row
<1>4. Cleared = [k \in Templates |-> Cleared[k]]
  BY DEF Cleared
<1>5. Cleared \in [Templates -> Template \cup {None, Gone}]
  BY <1>2, <1>3, <1>4 DEF TypeOK
<1>6. Rows(Cleared) = Rows(templates)
  <2>1. Rows(Cleared) = {k \in Templates : Cleared[k] \notin {None, Gone}}
    BY <1>4 DEF Rows
  <2>2. \A k \in Rows(templates) : Cleared[k] \notin {None, Gone}
    BY <1>3, NoneAssumption
  <2>3. \A k \in Templates : templates[k] \notin {None, Gone} <=> k \in Rows(templates)
    BY DEF Rows, TypeOK
  <2>4. \A k \in Templates : Cleared[k] \notin {None, Gone} <=> k \in Rows(templates)
    BY <1>2, <2>2, <2>3
  <2>5. Rows(templates) \subseteq Templates
    BY <1>1
  <2> QED
    BY <2>1, <2>4, <2>5
<1> QED
  BY <1>2, <1>3, <1>5, <1>6

\* What the saves write.
LEMMA SavedTaskTyped ==
  ASSUME TypeInv, NEW w \in Workers, pc[w] = "save", job[w].kind \in TaskSaves
  PROVE  /\ SavedTask(w) \in Task /\ job[w].task \in Tasks /\ read[w] \in Task
         /\ SavedTask(w).printer = read[w].printer
         /\ job[w].kind = "retry" => SavedTask(w).status = Outcome(w)
         /\ job[w].kind # "retry" /\ job[w].status = None => SavedTask(w) = read[w]
<1>1. /\ job[w] \in Job /\ read[w] \in Task /\ job[w].task \in Tasks
      /\ Outcome(w) \in Statuses
  BY DEF TypeInv, HandlersOK, HandlerOK, JobOK, Outcome, Statuses
<1>2. job[w].status \in Statuses \cup {None}
  BY <1>1 DEF Job
<1>3. CASE job[w].kind = "retry"
  <2> DEFINE row == read[w]
             s == Outcome(w)
  <2>1. SavedTask(w) = [row EXCEPT !.status = s]
    BY <1>3 DEF SavedTask
  <2>2. row \in Task /\ s \in Statuses
    BY <1>1
  <2> HIDE DEF row, s
  <2>3. /\ SavedTask(w) \in Task /\ SavedTask(w).printer = row.printer
        /\ SavedTask(w).status = s
    BY <2>1, <2>2 DEF Task
  <2> QED
    BY <1>1, <1>3, <2>3 DEF row, s
<1>4. CASE job[w].kind # "retry" /\ job[w].status # None
  BY <1>1, <1>2, <1>4, StatusSet DEF SavedTask, TaskSaves
<1>5. CASE job[w].kind # "retry" /\ job[w].status = None
  BY <1>1, <1>5 DEF SavedTask
<1> QED
  BY <1>3, <1>4, <1>5

LEMMA SavedTemplateTyped ==
  ASSUME TypeInv, NEW w \in Workers, pc[w] = "save",
         job[w].kind \in TemplateSaves \cup {"create_template"}
  PROVE  /\ SavedTemplate(w) \in Template /\ job[w].template \in Templates
         /\ job[w].kind \in {"create_template", "patch_default"} =>
              SavedTemplate(w).default = job[w].on
         /\ job[w].kind = "set_default" => SavedTemplate(w).default
         /\ job[w].kind = "patch_active" => SavedTemplate(w).default = read[w].default
<1>1. /\ job[w] \in Job /\ job[w].template \in Templates
      /\ job[w].kind \in TemplateSaves => read[w] \in Template
  BY DEF TypeInv, HandlersOK, HandlerOK, JobOK
<1>2. job[w].on \in BOOLEAN
  BY <1>1 DEF Job
<1>3. CASE job[w].kind = "create_template"
  BY <1>1, <1>2, <1>3 DEF SavedTemplate, Template
<1>4. CASE job[w].kind = "set_default"
  BY <1>1, <1>4, DefaultSet DEF SavedTemplate, TemplateSaves
<1>5. CASE job[w].kind = "patch_default"
  <2> DEFINE row == read[w]
             on == job[w].on
  <2>1. SavedTemplate(w) = [row EXCEPT !.default = on]
    BY <1>5 DEF SavedTemplate
  <2>2. row \in Template /\ on \in BOOLEAN
    BY <1>1, <1>2, <1>5 DEF TemplateSaves
  <2> HIDE DEF row, on
  <2>3. SavedTemplate(w) \in Template /\ SavedTemplate(w).default = on
    BY <2>1, <2>2 DEF Template
  <2> QED
    BY <1>1, <1>5, <2>3 DEF row, on
<1>6. CASE job[w].kind = "patch_active"
  <2> DEFINE row == read[w]
             on == job[w].on
  <2>1. SavedTemplate(w) = [row EXCEPT !.active = on]
    BY <1>6 DEF SavedTemplate
  <2>2. row \in Template /\ on \in BOOLEAN
    BY <1>1, <1>2, <1>6 DEF TemplateSaves
  <2> HIDE DEF row, on
  <2>3. SavedTemplate(w) \in Template /\ SavedTemplate(w).default = row.default
    BY <2>1, <2>2, ActiveSet, Zenon
  <2> QED
    BY <1>1, <1>6, <2>3 DEF row, on
<1> QED
  BY <1>3, <1>4, <1>5, <1>6 DEF TemplateSaves

LEMMA SaveTyped ==
  ASSUME TypeInv, NEW w \in Workers,
         SaveTask(w) \/ SavePrinter(w) \/ Clear(w) \/ SaveTemplate(w)
  PROVE  TypeInv'
<1>1. LocalsOK /\ TablesOK /\ TypeOK /\ HandlerOK(w)
  BY TypeParts DEF TypeInv, HandlersOK
<1>2. CASE SaveTask(w)
  <2>1. SavedTask(w) \in Task /\ job[w].task \in Tasks
    BY <1>2, SavedTaskTyped DEF SaveTask
  <2>2. raced' \subseteq Keys
    <3>1. {job[w].task} \subseteq Keys
      BY <2>1 DEF Keys
    <3>2. Race(w, {job[w].task}) \/ raced' = raced
      BY <1>2 DEF SaveTask
    <3> QED
      BY <1>1, <3>1, <3>2, RaceTyped DEF TablesOK
  <2>3. doubted' \subseteq Subjects /\ edited' \subseteq Tasks
    BY <1>1, <1>2, <2>1 DEF SaveTask, TablesOK, Subjects
  <2>4. tasks' = [tasks EXCEPT ![job[w].task] = SavedTask(w)] \/ tasks' = tasks
    BY <1>2 DEF SaveTask
  <2>5. tasks' \in [Tasks -> Task \cup {None, Gone}]
    BY <1>1, <2>1, <2>4 DEF TablesOK
  <2>6. UNCHANGED <<printers, templates, logs, paper, owed>> /\ Finish(w)
    BY <1>2 DEF SaveTask
  <2>7. TablesOK'
    BY <1>1, <2>2, <2>3, <2>5, <2>6 DEF TablesOK
  <2> QED
    BY <1>1, <2>6, <2>7, FinishLocals, TypeParts
<1>3. CASE SavePrinter(w)
  <2>1. /\ job[w].printer \in Printers /\ read[w] \in Printer /\ job[w].on \in BOOLEAN
    BY <1>1, <1>3 DEF SavePrinter, HandlerOK, JobOK, Job
  <2>2. SavedPrinter(w) \in Printer
    BY <2>1 DEF SavedPrinter, Printer
  <2>3. raced' \subseteq Keys
    <3>1. {job[w].printer} \subseteq Keys
      BY <2>1 DEF Keys
    <3> QED
      BY <1>1, <1>3, <3>1, RaceTyped DEF SavePrinter, TablesOK
  <2>4. /\ printers' = [printers EXCEPT ![job[w].printer] = SavedPrinter(w)] /\ Finish(w)
        /\ UNCHANGED <<templates, tasks, logs, paper, doubted, edited, owed>>
    BY <1>3 DEF SavePrinter
  <2>5. TablesOK'
    BY <1>1, <2>1, <2>2, <2>3, <2>4 DEF TablesOK
  <2> QED
    BY <1>1, <2>4, <2>5, FinishLocals, TypeParts
<1>4. CASE Clear(w)
  <2>1. pc[w] = "clear" /\ JobOK(job[w], read[w]) /\ job[w].kind = "create_template"
    BY <1>1, <1>4 DEF Clear, HandlerOK, StepFits
  <2>2. Cleared \in [Templates -> Template \cup {None, Gone}] /\ Defaults \subseteq Keys
    BY <1>1, ClearedTyped, DefaultTyped, RowsTyped DEF Keys
  <2>3. templates' \in [Templates -> Template \cup {None, Gone}] /\ raced' \subseteq Keys
    <3>1. (templates' = Cleared \/ templates' = templates) /\ (Race(w, Defaults) \/ raced' = raced)
      BY <1>4 DEF Clear
    <3> QED
      BY <1>1, <2>2, <3>1, RaceTyped DEF TablesOK
  <2>4. TablesOK'
    BY <1>1, <1>4, <2>3 DEF Clear, TablesOK
  <2>5. CASE Finish(w)
    BY <1>1, <2>4, <2>5, FinishLocals, TypeParts
  <2>6. CASE ~Finish(w)
    <3>1. pc' = [pc EXCEPT ![w] = "save"] /\ UNCHANGED <<job, read, todo, ok>>
      BY <1>4, <2>6 DEF Clear
    <3>2. StepFits("save", job[w].kind) /\ "save" \in Steps
      BY <2>1 DEF StepFits, Steps
    <3> QED
      BY <1>1, <2>1, <2>4, <3>1, <3>2, AdvanceLocals, TypeParts DEF LocalsOK
  <2> QED
    BY <2>5, <2>6
<1>5. CASE SaveTemplate(w)
  <2> DEFINE before == IF job[w].kind = "set_default" THEN Cleared ELSE templates
             row == SavedTemplate(w)
             key == job[w].template
             after == [before EXCEPT ![key] = row]
             changed == {key} \cup {k \in Templates : before[k] # templates[k]}
  <2>1. row \in Template /\ key \in Templates
    BY <1>5, SavedTemplateTyped DEF SaveTemplate
  <2>2. before \in [Templates -> Template \cup {None, Gone}]
    BY <1>1, ClearedTyped DEF TypeOK
  <2>3. /\ templates' = after \/ templates' = templates
        /\ Race(w, changed) \/ raced' = raced
        /\ owed' \in BOOLEAN
    BY <1>1, <1>5 DEF SaveTemplate, TablesOK
  <2>4. changed \subseteq Keys
    BY <2>1 DEF Keys
  <2> HIDE DEF before, row, key
  <2>5. templates' \in [Templates -> Template \cup {None, Gone}]
    BY <1>1, <2>1, <2>2, <2>3 DEF TablesOK
  <2> HIDE DEF changed, after
  <2>6. raced' \subseteq Keys
    BY <1>1, <2>3, <2>4, RaceTyped DEF TablesOK
  <2>7. UNCHANGED <<printers, tasks, logs, paper, doubted, edited>> /\ Finish(w)
    BY <1>5 DEF SaveTemplate
  <2>8. TablesOK'
    BY <1>1, <2>3, <2>5, <2>6, <2>7 DEF TablesOK
  <2> QED
    BY <1>1, <2>7, <2>8, FinishLocals, TypeParts
<1> QED
  BY <1>2, <1>3, <1>4, <1>5

LEMMA FailTyped ==
  ASSUME TypeInv, NEW w \in Workers, Fail(w)
  PROVE  TypeInv'
<1>1. LocalsOK /\ TablesOK /\ TypeOK /\ HandlerOK(w)
  BY TypeParts DEF TypeInv, HandlersOK
<1>2. pc[w] = "save" /\ job[w].kind = "retry" => job[w].task \in Subjects
  BY <1>1 DEF HandlerOK, JobOK, TaskSaves, Subjects
<1>3. doubted' \subseteq Subjects /\ owed' \in BOOLEAN
  BY <1>1, <1>2 DEF Fail, TablesOK
<1>4. UNCHANGED <<tables, paper, raced, edited>> /\ Finish(w)
  BY DEF Fail
<1>5. TablesOK'
  BY <1>1, <1>3, <1>4 DEF TablesOK, tables
<1> QED
  BY <1>1, <1>4, <1>5, FinishLocals, TypeParts

LEMMA CascadeTyped ==
  ASSUME TypeOK, NEW keys, keys \subseteq Keys, Cascade(keys)
  PROVE  /\ tasks' \in [Tasks -> Task \cup {None, Gone}]
         /\ logs' \in [Printers -> [Subjects -> Nat]]
         /\ raced' \subseteq Keys
         /\ \A p \in Printers, t \in Subjects : logs'[p][t] = 0 \/ logs'[p][t] = logs[p][t]
         /\ \A t \in Tasks : tasks'[t] = tasks[t] \/ (t \in Rows(tasks) /\ tasks'[t] = Gone)
         /\ \A t \in Tasks : t \in keys /\ t \in Rows(tasks) => tasks'[t] = Gone
<1> DEFINE doomed == {t \in Rows(tasks) : t \in keys \/ tasks[t].printer \in keys
                                                \/ tasks[t].template \in keys}
<1>1. /\ tasks' = [t \in Tasks |-> IF t \in doomed THEN Gone ELSE tasks[t]]
      /\ logs' = [p \in Printers |-> [t \in Subjects |->
                    IF p \in keys \/ t \in doomed THEN 0 ELSE logs[p][t]]]
      /\ raced' = raced \cup ((keys \cup doomed) \cap InHand(Workers))
  BY DEF Cascade
<1>2. doomed \subseteq Rows(tasks) /\ Rows(tasks) \subseteq Tasks /\ Tasks \subseteq Keys
  BY RowsTyped DEF Keys
<1>3. \A t \in Rows(tasks) : t \in keys => t \in doomed
  OBVIOUS
<1> HIDE DEF doomed
<1>4. logs' \in [Printers -> [Subjects -> Nat]]
  BY <1>1 DEF TypeOK
<1>5. tasks' \in [Tasks -> Task \cup {None, Gone}]
  BY <1>1 DEF TypeOK
<1>6. raced' \subseteq Keys
  BY <1>1, <1>2 DEF TypeOK, Keys
<1> QED
  BY <1>1, <1>2, <1>3, <1>4, <1>5, <1>6

LEMMA RowTyped ==
  ASSUME TypeInv, CreateTask \/ DeleteTask \/ DeletePrinter \/ DeleteTemplate
  PROVE  TypeInv'
<1>1. LocalsOK /\ TablesOK /\ TypeOK
  BY TypeParts DEF TypeInv
<1>2. LocalsOK'
  BY <1>1 DEF CreateTask, DeleteTask, DeletePrinter, DeleteTemplate, locals, LocalsOK,
              HandlersOK, HandlerOK
<1>3. CASE CreateTask
  <2>1. PICK t \in FreshTasks, p \in Rows(printers), k \in Rows(templates), s \in Statuses :
          /\ tasks' = [tasks EXCEPT ![t] = [printer |-> p, template |-> k, status |-> s]]
          /\ edited' = IF s # "pending" THEN edited \cup {t} ELSE edited
    BY <1>3 DEF CreateTask
  <2>2. t \in Tasks /\ [printer |-> p, template |-> k, status |-> s] \in Task
    BY <1>1, RowsTyped DEF FreshTasks, Unused, TypeOK, Task
  <2>3. TablesOK'
    BY <1>1, <1>3, <2>1, <2>2 DEF CreateTask, TablesOK
  <2> QED
    BY <1>2, <2>3, TypeParts
<1>4. CASE DeleteTask
  <2>1. PICK t \in Rows(tasks) : Cascade({t})
    BY <1>4 DEF DeleteTask
  <2>2. {t} \subseteq Keys
    BY <1>1, RowsTyped DEF Keys
  <2>3. TablesOK'
    BY <1>1, <1>4, <2>1, <2>2, CascadeTyped DEF DeleteTask, TablesOK
  <2> QED
    BY <1>2, <2>3, TypeParts
<1>5. CASE DeletePrinter
  <2>1. PICK p \in Rows(printers) : Cascade({p}) /\ printers' = [printers EXCEPT ![p] = Gone]
    BY <1>5 DEF DeletePrinter
  <2>2. {p} \subseteq Keys
    BY <1>1, RowsTyped DEF Keys
  <2>3. TablesOK'
    BY <1>1, <1>5, <2>1, <2>2, CascadeTyped DEF DeletePrinter, TablesOK
  <2> QED
    BY <1>2, <2>3, TypeParts
<1>6. CASE DeleteTemplate
  <2>1. PICK k \in Rows(templates) :
          Cascade({k}) /\ templates' = [templates EXCEPT ![k] = Gone]
          /\ owed' = (owed /\ k \notin Defaults)
    BY <1>6 DEF DeleteTemplate
  <2>2. {k} \subseteq Keys
    BY <1>1, RowsTyped DEF Keys
  <2>3. TablesOK'
    BY <1>1, <1>6, <2>1, <2>2, CascadeTyped DEF DeleteTemplate, TablesOK
  <2> QED
    BY <1>2, <2>3, TypeParts
<1> QED
  BY <1>3, <1>4, <1>5, <1>6

LEMMA StepTyped == TypeInv /\ [Next]_vars => TypeInv'
<1> SUFFICES ASSUME TypeInv, [Next]_vars PROVE TypeInv'
  OBVIOUS
<1>1. CASE UNCHANGED vars
  BY <1>1 DEF vars, tables, locals, history, TypeInv, TypeOK, HandlersOK, HandlerOK
<1>2. CASE Next
  BY <1>2, ReceiveTyped, PrintTyped, SaveTyped, FailTyped, RowTyped DEF Next, Serve
<1> QED
  BY <1>1, <1>2

LEMMA TypeHeld == Spec => []TypeInv
BY InitTyped, StepTyped, PTL DEF Spec

\* Whatever requests overlap, answers are lost and handlers die, the tables and the
\* handlers' locals hold values of their kinds (printing/models.py, printing/api.py).
THEOREM TypeCorrectness == Spec => []TypeOK
<1>1. TypeInv => TypeOK
  BY DEF TypeInv
<1> QED
  BY <1>1, TypeHeld, PTL
-----------------------------------------------------------------------------
(***************************************************************************)
(* The log and the paper                                                   *)
(***************************************************************************)
\* Handlers that printed and have not logged it.
Unlogged(p, t) ==
  {w \in Workers : /\ pc[w] \in {"record", "log"} /\ ok[w] /\ ~Blank(job[w])
                   /\ job[w].printer = p /\ job[w].task = t}

CoverInv ==
  \A p \in Printers, t \in Subjects :
    logs[p][t] + Cardinality(Unlogged(p, t)) <= paper[p][t]

LEMMA UnloggedCounted ==
  ASSUME NEW p, NEW t
  PROVE  /\ IsFiniteSet(Unlogged(p, t)) /\ Cardinality(Unlogged(p, t)) \in Nat
         /\ IsFiniteSet(Unlogged(p, t)') /\ Cardinality(Unlogged(p, t)') \in Nat
<1>1. Unlogged(p, t) \subseteq Workers /\ Unlogged(p, t)' \subseteq Workers
  BY DEF Unlogged
<1>2. IsFiniteSet(Unlogged(p, t)) /\ IsFiniteSet(Unlogged(p, t)')
  BY <1>1, WorkersAssumption, FS_Subset
<1> QED
  BY <1>2, FS_CardinalityType

\* Fewer prints to log, no more log rows, no less paper.
LEMMA CoverKept ==
  ASSUME TypeInv, TypeInv', CoverInv,
         NEW p \in Printers, NEW t \in Subjects,
         Unlogged(p, t)' \subseteq Unlogged(p, t),
         logs'[p][t] <= logs[p][t], paper'[p][t] >= paper[p][t]
  PROVE  logs'[p][t] + Cardinality(Unlogged(p, t)') <= paper'[p][t]
<1>1. Cardinality(Unlogged(p, t)') <= Cardinality(Unlogged(p, t))
  BY UnloggedCounted, FS_Subset
<1>2. /\ logs[p][t] \in Nat /\ paper[p][t] \in Nat
      /\ logs'[p][t] \in Nat /\ paper'[p][t] \in Nat
  BY DEF TypeInv, TypeOK
<1>3. logs[p][t] + Cardinality(Unlogged(p, t)) <= paper[p][t]
  BY DEF CoverInv
<1> QED
  BY <1>1, <1>2, <1>3, UnloggedCounted

\* Nobody takes paper back.
LEMMA PaperGrows ==
  ASSUME TypeInv, [Next]_vars, NEW p \in Printers, NEW t \in Subjects
  PROVE  paper'[p][t] >= paper[p][t]
<1>1. paper[p][t] \in Nat
  BY DEF TypeInv, TypeOK
<1>2. CASE paper' = paper
  BY <1>1, <1>2
<1>3. CASE \E w \in Workers : Send(w)
  <2>1. PICK w \in Workers : Send(w)
    BY <1>3
  <2>2. job[w].printer \in Printers /\ job[w].task \in Subjects
    BY <2>1 DEF Send, TypeInv, HandlersOK, HandlerOK, JobOK, Job, Subjects
  <2> DEFINE more == [paper EXCEPT ![job[w].printer][job[w].task] = @ + 1]
  <2>3. paper' = paper \/ paper' = more
    BY <2>1 DEF Send
  <2>4. paper \in [Printers -> [Subjects -> Nat]]
    BY DEF TypeInv, TypeOK
  <2>5. more[p][t] = paper[p][t] + (IF p = job[w].printer /\ t = job[w].task THEN 1 ELSE 0)
    BY <2>2, <2>4, OneMore
  <2> HIDE DEF more
  <2> QED
    BY <1>1, <2>3, <2>5
<1> QED
  BY <1>2, <1>3
  DEF Next, Serve, Receive, NextPrinter, Poll, Record, Log, SaveTask, SavePrinter, Clear,
      SaveTemplate, CreateTask, DeleteTask, DeletePrinter, DeleteTemplate, Fail, vars, tables

\* A handler that prints or logs has a printer, and a task or None.
LEMMA PrintSubject ==
  ASSUME TypeInv, NEW w \in Workers, pc[w] \in {"send", "log"}
  PROVE  job[w].printer \in Printers /\ job[w].task \in Subjects
BY DEF TypeInv, HandlersOK, HandlerOK, JobOK, Job, Subjects

\* A step that moves one handler out of the way of the log, or nobody into it.
LEMMA UnloggedShrinks ==
  ASSUME LocalsOK, NEW w \in Workers,
         pc'[w] \notin {"record", "log"},
         \A v \in Workers \ {w} : pc'[v] = pc[v] /\ job'[v] = job[v] /\ ok'[v] = ok[v],
         NEW p, NEW t
  PROVE  Unlogged(p, t)' \subseteq Unlogged(p, t)
BY DEF Unlogged, Blank

LEMMA QuietShrinks ==
  ASSUME TypeInv, NEW w \in Workers, NEW p, NEW t,
         \/ \E kind \in Kinds : \E j \in Asked(kind) : Receive(w, j)
         \/ NextPrinter(w) \/ Poll(w) \/ SaveTask(w) \/ SavePrinter(w) \/ Clear(w)
         \/ SaveTemplate(w) \/ Fail(w)
  PROVE  Unlogged(p, t)' \subseteq Unlogged(p, t) /\ logs' = logs
<1>1. LocalsOK
  BY TypeParts
<1>2. logs' = logs
  BY DEF Receive, NextPrinter, Poll, SaveTask, SavePrinter, Clear, SaveTemplate, Fail, tables
<1>3. CASE Finish(w)
  BY <1>1, <1>2, <1>3, FinishLocals, UnloggedShrinks
<1>4. CASE ~Finish(w)
  <2>1. CASE UNCHANGED locals
    BY <1>2, <2>1 DEF locals, Unlogged, Blank
  <2>2. CASE ~UNCHANGED locals
    <3>1. CASE \E kind \in Kinds : \E j \in Asked(kind) : Receive(w, j)
      <4>1. PICK kind \in Kinds : \E j \in Asked(kind) : Receive(w, j)
        BY <3>1
      <4>2. PICK j \in Asked(kind) : Receive(w, j)
        BY <4>1
      <4> DEFINE i == LookedUp(j)
                 step == FirstStep(j)
      <4>3. /\ pc' = [pc EXCEPT ![w] = step] /\ job' = [job EXCEPT ![w] = i] /\ ok' = ok
        BY <2>2, <4>2 DEF Receive
      <4>4. step \notin {"record", "log"}
        BY DEF FirstStep
      <4> HIDE DEF i, step
      <4>5. /\ pc'[w] \notin {"record", "log"}
            /\ \A v \in Workers \ {w} : pc'[v] = pc[v] /\ job'[v] = job[v] /\ ok'[v] = ok[v]
        BY <1>1, <4>3, <4>4 DEF LocalsOK
      <4> QED
        BY <1>1, <1>2, <4>5, UnloggedShrinks
    <3>2. CASE NextPrinter(w)
      <4>1. PICK q \in todo[w] : /\ job' = [job EXCEPT ![w] = ForPrinter(@, q)]
                                /\ pc' = [pc EXCEPT ![w] = "send"] /\ ok' = ok
        BY <1>4, <3>2 DEF NextPrinter
      <4>2. /\ pc'[w] \notin {"record", "log"}
            /\ \A v \in Workers \ {w} : pc'[v] = pc[v] /\ job'[v] = job[v] /\ ok'[v] = ok[v]
        BY <1>1, <4>1 DEF LocalsOK
      <4> QED
        BY <1>1, <1>2, <4>2, UnloggedShrinks
    <3>3. CASE Poll(w) \/ Clear(w)
      <4>1. pc' = [pc EXCEPT ![w] = "save"] /\ job' = job /\ ok' = ok
        BY <1>4, <3>3 DEF Poll, Clear
      <4>2. pc'[w] \notin {"record", "log"}
        BY <1>1, <4>1 DEF LocalsOK
      <4>3. \A v \in Workers \ {w} : pc'[v] = pc[v] /\ job'[v] = job[v] /\ ok'[v] = ok[v]
        BY <1>1, <4>1 DEF LocalsOK
      <4> QED
        BY <1>1, <1>2, <4>2, <4>3, UnloggedShrinks
    <3> QED
      BY <1>4, <3>1, <3>2, <3>3 DEF SaveTask, SavePrinter, SaveTemplate, Fail
  <2> QED
    BY <2>1, <2>2
<1> QED
  BY <1>3, <1>4

\* Sending adds to the paper what it adds to the prints to log.
LEMMA SendCovered ==
  ASSUME TypeInv, TypeInv', CoverInv, NEW w \in Workers, Send(w),
         NEW p \in Printers, NEW t \in Subjects
  PROVE  logs'[p][t] + Cardinality(Unlogged(p, t)') <= paper'[p][t]
<1>1. /\ pc[w] = "send" /\ pc' = [pc EXCEPT ![w] = AfterSend(job[w].kind)]
      /\ job' = job /\ logs' = logs
  BY DEF Send, tables
<1>2. PICK answer \in Answers :
        LET out == answer # "refused" /\ ~Blank(job[w]) IN
        /\ ok' = [ok EXCEPT ![w] = answer = "printed"]
        /\ paper' = IF out THEN [paper EXCEPT ![job[w].printer][job[w].task] = @ + 1]
                    ELSE paper
  BY DEF Send
<1>3. /\ pc \in [Workers -> Steps] /\ ok \in [Workers -> BOOLEAN]
      /\ paper \in [Printers -> [Subjects -> Nat]]
      /\ logs[p][t] \in Nat /\ paper[p][t] \in Nat
      /\ job[w].printer \in Printers /\ job[w].task \in Subjects
  BY <1>1, PrintSubject DEF TypeInv, TypeOK
<1>4. w \notin Unlogged(p, t)
  BY <1>1 DEF Unlogged
<1>5. Unlogged(p, t)' \subseteq Unlogged(p, t) \cup {w}
  BY <1>1, <1>2, <1>3 DEF Unlogged, Blank
<1>6. logs[p][t] + Cardinality(Unlogged(p, t)) <= paper[p][t]
  BY DEF CoverInv
<1>7. CASE w \in Unlogged(p, t)'
  <2>1. ok'[w] /\ ~Blank(job[w]) /\ p = job[w].printer /\ t = job[w].task
    BY <1>1, <1>7 DEF Unlogged, Blank
  <2>2. answer = "printed"
    BY <1>2, <1>3, <2>1
  <2>3. paper' = [paper EXCEPT ![job[w].printer][job[w].task] = @ + 1]
    BY <1>2, <2>1, <2>2
  <2>4. paper'[p][t] = paper[p][t] + 1
    BY <1>3, <2>1, <2>3
  <2>5. Cardinality(Unlogged(p, t)') <= Cardinality(Unlogged(p, t)) + 1
    <3>1. IsFiniteSet(Unlogged(p, t) \cup {w})
      BY UnloggedCounted, FS_AddElement
    <3>2. Cardinality(Unlogged(p, t) \cup {w}) = Cardinality(Unlogged(p, t)) + 1
      BY <1>4, UnloggedCounted, FS_AddElement
    <3> QED
      BY <1>5, <3>1, <3>2, FS_Subset
  <2> QED
    BY <1>1, <1>3, <1>6, <2>4, <2>5, UnloggedCounted
<1>8. CASE w \notin Unlogged(p, t)'
  <2>1. Unlogged(p, t)' \subseteq Unlogged(p, t)
    BY <1>5, <1>8
  <2>2. paper'[p][t] >= paper[p][t]
    <3>1. Next
      BY DEF Next, Serve
    <3> QED
      BY <3>1, PaperGrows
  <2>3. logs'[p][t] <= logs[p][t]
    BY <1>1, <1>3
  <2> QED
    BY <2>1, <2>2, <2>3, CoverKept
<1> QED
  BY <1>7, <1>8

\* Logging a success takes one off the prints to log.
LEMMA LogCovered ==
  ASSUME TypeInv, TypeInv', CoverInv, NEW w \in Workers, Log(w),
         NEW p \in Printers, NEW t \in Subjects
  PROVE  logs'[p][t] + Cardinality(Unlogged(p, t)') <= paper'[p][t]
<1> DEFINE more == [logs EXCEPT ![job[w].printer][job[w].task] = @ + 1]
<1>1. LocalsOK /\ pc[w] = "log" /\ paper' = paper
  BY TypeParts DEF Log
<1>2. /\ pc'[w] \notin {"record", "log"}
      /\ \A v \in Workers \ {w} : pc'[v] = pc[v] /\ job'[v] = job[v] /\ ok'[v] = ok[v]
  <2>1. CASE Finish(w)
    BY <1>1, <2>1, FinishLocals
  <2>2. CASE ~Finish(w)
    <3>1. pc' = [pc EXCEPT ![w] = "next"] /\ job' = job /\ ok' = ok
      BY <2>2 DEF Log
    <3> QED
      BY <1>1, <3>1 DEF LocalsOK
  <2> QED
    BY <2>1, <2>2
<1>3. Unlogged(p, t)' \subseteq Unlogged(p, t) \ {w}
  BY <1>2 DEF Unlogged, Blank
<1>4. /\ logs \in [Printers -> [Subjects -> Nat]]
      /\ logs[p][t] \in Nat /\ paper[p][t] \in Nat /\ logs'[p][t] \in Nat
      /\ job[w].printer \in Printers /\ job[w].task \in Subjects
  BY <1>1, PrintSubject DEF TypeInv, TypeOK
<1>5. CASE logs' = more /\ ~Blank(job[w]) /\ ok[w]
  <2>1. logs'[p][t] = logs[p][t] + (IF p = job[w].printer /\ t = job[w].task THEN 1 ELSE 0)
    BY <1>4, <1>5, OneMore
  <2>2. CASE p = job[w].printer /\ t = job[w].task
    <3>1. w \in Unlogged(p, t)
      BY <1>1, <1>5, <2>2 DEF Unlogged
    <3>2. /\ IsFiniteSet(Unlogged(p, t) \ {w})
          /\ Cardinality(Unlogged(p, t) \ {w}) = Cardinality(Unlogged(p, t)) - 1
      BY <3>1, UnloggedCounted, FS_RemoveElement
    <3>3. Cardinality(Unlogged(p, t)') <= Cardinality(Unlogged(p, t)) - 1
      BY <1>3, <3>2, FS_Subset
    <3>4. logs[p][t] + Cardinality(Unlogged(p, t)) <= paper[p][t]
      BY DEF CoverInv
    <3> QED
      BY <1>1, <1>4, <2>1, <2>2, <3>3, <3>4, UnloggedCounted
  <2>3. CASE ~(p = job[w].printer /\ t = job[w].task)
    BY <1>1, <1>3, <1>4, <2>1, <2>3, CoverKept
  <2> QED
    BY <2>2, <2>3
<1>6. CASE logs' = logs
  BY <1>1, <1>3, <1>4, <1>6, CoverKept
<1> QED
  BY <1>5, <1>6 DEF Log, Loggable, Succeeded

LEMMA CoverStep == TypeInv /\ TypeInv' /\ CoverInv /\ [Next]_vars => CoverInv'
<1> SUFFICES ASSUME TypeInv, TypeInv', CoverInv, [Next]_vars,
                    NEW p \in Printers, NEW t \in Subjects
             PROVE  logs'[p][t] + Cardinality(Unlogged(p, t)') <= paper'[p][t]
  BY DEF CoverInv
<1>1. /\ paper'[p][t] >= paper[p][t] /\ logs[p][t] \in Nat /\ logs'[p][t] \in Nat
      /\ LocalsOK /\ TypeOK
  BY PaperGrows, TypeParts DEF TypeInv, TypeOK
<1>2. CASE Unlogged(p, t)' \subseteq Unlogged(p, t) /\ logs'[p][t] <= logs[p][t]
  BY <1>1, <1>2, CoverKept
<1>3. CASE UNCHANGED vars
  BY <1>1, <1>2, <1>3 DEF vars, tables, locals, Unlogged, Blank
<1>4. ASSUME NEW w \in Workers,
             \/ \E kind \in Kinds : \E j \in Asked(kind) : Receive(w, j)
             \/ NextPrinter(w) \/ Poll(w) \/ SaveTask(w) \/ SavePrinter(w) \/ Clear(w)
             \/ SaveTemplate(w) \/ Fail(w)
      PROVE  logs'[p][t] + Cardinality(Unlogged(p, t)') <= paper'[p][t]
  BY <1>1, <1>2, <1>4, QuietShrinks
<1>5. ASSUME NEW w \in Workers, Record(w)
      PROVE  logs'[p][t] + Cardinality(Unlogged(p, t)') <= paper'[p][t]
  <2>1. logs' = logs /\ pc[w] = "record"
    BY <1>5 DEF Record
  <2>2. CASE Finish(w)
    BY <1>1, <1>2, <2>1, <2>2, FinishLocals, UnloggedShrinks
  <2>3. CASE ~Finish(w)
    <3>1. pc' = [pc EXCEPT ![w] = "log"] /\ job' = job /\ ok' = ok
      BY <1>5, <2>3 DEF Record
    <3>2. Unlogged(p, t)' \subseteq Unlogged(p, t)
      BY <1>1, <2>1, <3>1 DEF Unlogged, Blank, LocalsOK
    <3> QED
      BY <1>1, <1>2, <2>1, <3>2
  <2> QED
    BY <2>2, <2>3
<1>6. CASE CreateTask \/ DeleteTask \/ DeletePrinter \/ DeleteTemplate
  <2>1. Unlogged(p, t)' \subseteq Unlogged(p, t)
    BY <1>6 DEF CreateTask, DeleteTask, DeletePrinter, DeleteTemplate, locals, Unlogged, Blank
  <2>2. logs'[p][t] <= logs[p][t]
    <3>1. CASE CreateTask
      BY <1>1, <3>1 DEF CreateTask
    <3>2. CASE \E keys \in SUBSET Keys : Cascade(keys)
      BY <1>1, <3>2, CascadeTyped
    <3>3. /\ \A u \in Rows(tasks) : {u} \subseteq Keys
          /\ \A q \in Rows(printers) : {q} \subseteq Keys
          /\ \A k \in Rows(templates) : {k} \subseteq Keys
      BY <1>1, RowsTyped DEF Keys
    <3> QED
      BY <1>6, <3>1, <3>2, <3>3 DEF DeleteTask, DeletePrinter, DeleteTemplate
  <2> QED
    BY <1>2, <2>1, <2>2
<1> QED
  BY <1>3, <1>4, <1>5, <1>6, SendCovered, LogCovered DEF Next, Serve

LEMMA InitCovered == Init => CoverInv
<1> SUFFICES ASSUME Init, NEW p \in Printers, NEW t \in Subjects
             PROVE  logs[p][t] + Cardinality(Unlogged(p, t)) <= paper[p][t]
  BY DEF CoverInv
<1>1. Unlogged(p, t) = {}
  BY DEF Init, Unlogged
<1>2. logs[p][t] = 0 /\ paper[p][t] = 0
  BY DEF Init
<1> QED
  BY <1>1, <1>2, FS_EmptySet

\* Every success in the log is a print the cloud took, however handlers, deletions and
\* lost answers interleave (PrintLog.objects.create after print_text, printing/api.py).
THEOREM NoPhantomSuccess == Spec => []LogsAreCovered
<1>1. TypeInv /\ CoverInv => LogsAreCovered
  <2> SUFFICES ASSUME TypeInv, CoverInv, NEW p \in Printers, NEW t \in Subjects
               PROVE  logs[p][t] <= paper[p][t]
    BY DEF LogsAreCovered
  <2>1. logs[p][t] + Cardinality(Unlogged(p, t)) <= paper[p][t]
    BY DEF CoverInv
  <2>2. logs[p][t] \in Nat /\ paper[p][t] \in Nat
    BY DEF TypeInv, TypeOK
  <2> QED
    BY <2>1, <2>2, UnloggedCounted
<1>2. Spec => []CoverInv
  BY InitCovered, CoverStep, TypeHeld, PTL DEF Spec
<1> QED
  BY <1>1, <1>2, TypeHeld, PTL
-----------------------------------------------------------------------------
(***************************************************************************)
(* Completed tasks                                                         *)
(***************************************************************************)
Out(t) == \E p \in Printers : paper[p][t] > 0

\* What a handler will write, or has read, of a task's success.
HandlerProved(w) ==
  /\ pc[w] = "record" /\ ~Blank(job[w]) /\ ok[w] => Out(job[w].task)
  /\ pc[w] = "save" /\ job[w].kind = "retry" /\ ok[w] => Out(job[w].task)
  /\ /\ pc[w] # "idle" /\ job[w].kind \in TaskSaves /\ job[w].task \notin edited
     /\ read[w].status = "completed"
     => Out(job[w].task)

ProvedInv == CompletedWerePrinted /\ \A w \in Workers : HandlerProved(w)

LEMMA OutKept ==
  ASSUME TypeInv, [Next]_vars, NEW t \in Subjects, Out(t)
  PROVE  Out(t)'
<1>1. PICK p \in Printers : paper[p][t] > 0
  BY DEF Out
<1>2. paper'[p][t] >= paper[p][t] /\ paper[p][t] \in Nat
  BY PaperGrows DEF TypeInv, TypeOK
<1>3. paper'[p][t] > 0
  <2> DEFINE now == paper[p][t]
             then == paper'[p][t]
  <2>1. TypeInv'
    BY StepTyped
  <2>2. then \in Nat /\ now \in Nat /\ then >= now /\ now > 0
    BY <1>1, <1>2, <2>1 DEF TypeInv, TypeOK
  <2> HIDE DEF now, then
  <2>3. then > 0
    BY <2>2
  <2> QED
    BY <2>3 DEF then
<1> QED
  BY <1>3 DEF Out

LEMMA EditedGrows ==
  ASSUME [Next]_vars
  PROVE  edited \subseteq edited'
BY ZenonT(30) DEF Next, Serve, Receive, NextPrinter, Send, Poll, Record, Log, SaveTask, SavePrinter, Clear,
       SaveTemplate, CreateTask, DeleteTask, DeletePrinter, DeleteTemplate, Fail, vars, history

\* A handler that another one's step leaves alone.
LEMMA ProvedKept ==
  ASSUME TypeInv, [Next]_vars, NEW w \in Workers, HandlerProved(w),
         pc'[w] = pc[w], job'[w] = job[w], read'[w] = read[w], ok'[w] = ok[w]
  PROVE  HandlerProved(w)'
<1>1. CASE pc[w] = "idle"
  BY <1>1 DEF HandlerProved
<1>2. CASE pc[w] # "idle"
  <2>1. PICK t \in Subjects : job[w].task = t
    BY <1>2 DEF TypeInv, HandlersOK, HandlerOK, JobOK, Job, Subjects
  <2>2. Out(t) => Out(t)'
    BY OutKept
  <2>3. job'[w].task = t
    BY <2>1
  <2>4. edited \subseteq edited'
    BY EditedGrows
  <2>5. (~Blank(job[w]))' => ~Blank(job[w])
    BY DEF Blank
  <2> QED
    BY <2>1, <2>2, <2>3, <2>4, <2>5 DEF HandlerProved, Out
<1> QED
  BY <1>1, <1>2

\* Rows that are as they were, or gone, or written with a proof.
LEMMA RowsProved ==
  ASSUME TypeInv, TypeInv', [Next]_vars, CompletedWerePrinted,
         \A t \in Tasks : \/ tasks'[t] = tasks[t]
                          \/ tasks'[t] = Gone
                          \/ tasks'[t].status = "completed" /\ t \notin edited' => Out(t)'
  PROVE  CompletedWerePrinted'
<1> SUFFICES ASSUME NEW t \in (Rows(tasks) \ edited)', tasks'[t].status = "completed"
             PROVE  Out(t)'
  BY DEF CompletedWerePrinted, Out
<1>1. t \in Tasks /\ tasks'[t] # None /\ tasks'[t] # Gone /\ t \notin edited'
  BY DEF Rows, TypeInv, TypeOK
<1>2. CASE tasks'[t] = tasks[t]
  <2>1. t \in Rows(tasks) \ edited
    BY <1>1, <1>2, EditedGrows DEF Rows, TypeInv, TypeOK
  <2>2. Out(t) /\ t \in Subjects
    BY <1>1, <1>2, <2>1 DEF CompletedWerePrinted, Out, Subjects
  <2> QED
    BY <2>2, OutKept
<1> QED
  BY <1>1, <1>2

LEMMA InitProved == Init => ProvedInv
<1> SUFFICES ASSUME Init PROVE ProvedInv
  OBVIOUS
<1>1. \A t \in Rows(tasks) : tasks[t].status = "pending"
  <2> SUFFICES ASSUME NEW t \in Rows(tasks) PROVE tasks[t].status = "pending"
    OBVIOUS
  <2> DEFINE R == [printer : Printers, template : Rows(templates), status : {"pending"}]
  <2>1. tasks \in [Tasks -> {None} \cup R]
    BY DEF Init
  <2>2. \A row \in R : row.status = "pending"
    OBVIOUS
  <2> HIDE DEF R
  <2>3. tasks[t] \in R
    BY <2>1 DEF Rows
  <2> QED
    BY <2>2, <2>3
<1>2. CompletedWerePrinted
  BY <1>1 DEF CompletedWerePrinted
<1>3. \A w \in Workers : HandlerProved(w)
  BY DEF Init, HandlerProved
<1> QED
  BY <1>2, <1>3 DEF ProvedInv

\* A handler that is at none of the steps that write down a success, for no task it read.
LEMMA NothingToProve ==
  ASSUME NEW w, pc'[w] \notin {"record", "save"} \/ job'[w].kind \notin Prints \cup {"retry"},
         pc'[w] = "record" => job'[w].kind \in Prints,
         pc'[w] = "idle" \/ job'[w].kind \notin TaskSaves
  PROVE  HandlerProved(w)'
BY DEF HandlerProved, TaskSaves, Prints

LEMMA ReceiveProved ==
  ASSUME TypeInv, TypeInv', ProvedInv, NEW w \in Workers, NEW kind \in Kinds \cap Offered,
         NEW j \in Asked(kind), Receive(w, j), Admitted(j)
  PROVE  /\ HandlerProved(w)' /\ UNCHANGED tables
         /\ \A v \in Workers \ {w} : /\ pc'[v] = pc[v] /\ job'[v] = job[v]
                                     /\ read'[v] = read[v] /\ ok'[v] = ok[v]
<1> DEFINE i == LookedUp(j)
           row == Fetched(j)
           step == FirstStep(j)
<1>1. /\ job' = [job EXCEPT ![w] = i] /\ read' = [read EXCEPT ![w] = row]
      /\ pc' = [pc EXCEPT ![w] = step] /\ ok' = ok /\ UNCHANGED <<tables, edited>>
  BY DEF Receive
<1>2. /\ i.kind = kind /\ i.task = j.task /\ j.kind = kind
      /\ kind \in TaskSaves => j.task \in Rows(tasks)
  BY LookedUpTyped, AskedTyped DEF TypeInv
<1>3. kind \in TaskSaves => row = tasks[j.task]
  BY <1>2 DEF Fetched, TaskSaves, PrinterSaves, TemplateSaves
<1>4. step # "record" /\ (step = "save" => kind # "retry")
  BY <1>2 DEF FirstStep
<1> HIDE DEF i, row, step
<1>5. /\ job'[w] = i /\ read'[w] = row /\ pc'[w] = step
      /\ \A v \in Workers \ {w} : /\ pc'[v] = pc[v] /\ job'[v] = job[v]
                                  /\ read'[v] = read[v] /\ ok'[v] = ok[v]
  BY <1>1 DEF TypeInv, TypeOK
<1>6. CASE kind \in TaskSaves
  <2>1. PICK t \in Tasks : t = j.task /\ t \in Rows(tasks)
    BY <1>2, <1>6, RowsTyped DEF TypeInv
  <2>2. tasks[t].status = "completed" /\ t \notin edited => Out(t)
    BY <2>1 DEF ProvedInv, CompletedWerePrinted, Out
  <2>3. [Next]_vars /\ t \in Subjects
    BY DEF Next, Subjects
  <2>4. Out(t) => Out(t)'
    BY <2>3, OutKept
  <2>5. job'[w].task = t /\ job'[w].kind = kind /\ read'[w] = tasks[t]
    BY <1>2, <1>3, <1>5, <1>6, <2>1
  <2> QED
    BY <1>1, <1>4, <1>5, <2>2, <2>4, <2>5 DEF HandlerProved, Out
<1>7. CASE kind \notin TaskSaves
  <2>1. job'[w].kind \notin TaskSaves /\ job'[w].kind # "retry"
    BY <1>2, <1>5, <1>7 DEF TaskSaves
  <2> QED
    BY <1>1, <1>4, <1>5, <2>1 DEF HandlerProved
<1> QED
  BY <1>1, <1>5, <1>6, <1>7

\* What was answered for was printed.
LEMMA SendProved ==
  ASSUME TypeInv, TypeInv', ProvedInv, NEW w \in Workers, Send(w)
  PROVE  /\ HandlerProved(w)' /\ UNCHANGED tables
         /\ \A v \in Workers \ {w} : /\ pc'[v] = pc[v] /\ job'[v] = job[v]
                                     /\ read'[v] = read[v] /\ ok'[v] = ok[v]
<1> DEFINE step == AfterSend(job[w].kind)
<1>1. /\ pc[w] = "send" /\ pc' = [pc EXCEPT ![w] = step]
      /\ UNCHANGED <<job, read, tables, edited>>
  BY DEF Send
<1>2. PICK answer \in Answers :
        LET out == answer # "refused" /\ ~Blank(job[w]) IN
        /\ ok' = [ok EXCEPT ![w] = answer = "printed"]
        /\ paper' = IF out THEN [paper EXCEPT ![job[w].printer][job[w].task] = @ + 1]
                    ELSE paper
  BY DEF Send
<1>3. job[w].printer \in Printers /\ job[w].task \in Subjects
  BY <1>1, PrintSubject
<1>4. PICK t \in Subjects, p \in Printers : t = job[w].task /\ p = job[w].printer
  BY <1>3
<1>5. /\ step = "save" => job[w].kind = "retry"
      /\ step = "record" => job[w].kind \in Prints
      /\ job[w].kind = "retry" => ~Blank(job[w])
  BY <1>1 DEF AfterSend, TypeInv, HandlersOK, HandlerOK, StepFits, Blank
<1> HIDE DEF step
<1>6. /\ pc'[w] = step /\ (ok'[w] <=> answer = "printed")
      /\ \A v \in Workers \ {w} : /\ pc'[v] = pc[v] /\ job'[v] = job[v]
                                  /\ read'[v] = read[v] /\ ok'[v] = ok[v]
  BY <1>1, <1>2 DEF TypeInv, TypeOK
<1>7. ok'[w] /\ ~Blank(job[w]) => Out(t)'
  <2>1. SUFFICES ASSUME ok'[w], ~Blank(job[w]) PROVE Out(t)'
    OBVIOUS
  <2>2. paper' = [paper EXCEPT ![p][t] = @ + 1]
    BY <1>2, <1>4, <1>6, <2>1
  <2>3. paper \in [Printers -> [Subjects -> Nat]]
    BY DEF TypeInv, TypeOK
  <2>4. paper'[p][t] = paper[p][t] + 1 /\ paper[p][t] \in Nat
    BY <2>2, <2>3
  <2>5. paper'[p][t] > 0
    BY <2>4
  <2> QED
    BY <2>5 DEF Out
<1>8. [Next]_vars
  BY DEF Next, Serve
<1>9. Out(t) => Out(t)'
  BY <1>8, OutKept
<1>10. (~Blank(job[w]))' => ~Blank(job[w])
  BY <1>1 DEF Blank
<1>11. HandlerProved(w)
  BY DEF ProvedInv
<1> QED
  BY <1>1, <1>4, <1>5, <1>6, <1>7, <1>9, <1>10, <1>11 DEF HandlerProved, Out

\* The other steps leave no proof in hand to keep.
LEMMA PlainProved ==
  ASSUME TypeInv, NEW w \in Workers,
         \/ NextPrinter(w) \/ Poll(w) \/ Record(w) \/ Log(w) \/ SaveTask(w) \/ SavePrinter(w)
         \/ Clear(w) \/ SaveTemplate(w) \/ Fail(w)
  PROVE  /\ HandlerProved(w)'
         /\ \A v \in Workers \ {w} : /\ pc'[v] = pc[v] /\ job'[v] = job[v]
                                     /\ read'[v] = read[v] /\ ok'[v] = ok[v]
<1>1. LocalsOK /\ HandlerOK(w)
  BY TypeParts DEF TypeInv, HandlersOK
<1>2. CASE Finish(w)
  BY <1>1, <1>2, FinishLocals DEF HandlerProved
<1>3. CASE ~Finish(w) /\ NextPrinter(w)
  <2>1. PICK p \in todo[w] : /\ job' = [job EXCEPT ![w] = ForPrinter(@, p)]
                            /\ pc' = [pc EXCEPT ![w] = "send"] /\ UNCHANGED <<read, ok>>
    BY <1>3 DEF NextPrinter
  <2>2. /\ pc[w] # "idle" /\ job[w] \in Job /\ job[w].kind = "auto" /\ p \in Printers
    BY <1>1, <1>3 DEF NextPrinter, HandlerOK, StepFits, JobOK, LocalsOK
  <2>3. ForPrinter(job[w], p).kind = "auto"
    BY <2>2, ForPrinterTyped DEF TypeInv
  <2>4. /\ pc'[w] = "send" /\ job'[w].kind = "auto"
        /\ \A v \in Workers \ {w} : /\ pc'[v] = pc[v] /\ job'[v] = job[v]
                                    /\ read'[v] = read[v] /\ ok'[v] = ok[v]
    BY <1>1, <2>1, <2>3 DEF LocalsOK
  <2> QED
    BY <2>4 DEF HandlerProved, TaskSaves
<1>4. CASE ~Finish(w) /\ ~NextPrinter(w)
  <2>1. /\ UNCHANGED <<job, read, ok>>
        /\ \/ pc' = [pc EXCEPT ![w] = "save"] /\ pc[w] \in {"poll", "clear"}
           \/ pc' = [pc EXCEPT ![w] = "log"] /\ pc[w] = "record"
           \/ pc' = [pc EXCEPT ![w] = "next"] /\ pc[w] = "log"
    BY <1>4 DEF Poll, Record, Log, SaveTask, SavePrinter, Clear, SaveTemplate, Fail
  <2>2. job[w].kind \notin TaskSaves
    BY <1>1, <2>1 DEF HandlerOK, StepFits, TaskSaves, Prints
  <2>3. /\ pc'[w] \in {"save", "log", "next"} /\ job'[w] = job[w]
        /\ \A v \in Workers \ {w} : /\ pc'[v] = pc[v] /\ job'[v] = job[v]
                                    /\ read'[v] = read[v] /\ ok'[v] = ok[v]
    BY <1>1, <2>1 DEF LocalsOK
  <2> QED
    BY <2>2, <2>3 DEF HandlerProved, TaskSaves
<1> QED
  BY <1>2, <1>3, <1>4

\* What Record and SaveTask write down as completed was printed.
LEMMA WrittenProved ==
  ASSUME TypeInv, TypeInv', ProvedInv, [Next]_vars, NEW w \in Workers, Record(w) \/ SaveTask(w),
         NEW t \in Tasks
  PROVE  tasks'[t] = tasks[t] \/ (tasks'[t].status = "completed" /\ t \notin edited' => Out(t)')
<1>1. HandlerProved(w) /\ TypeOK /\ HandlerOK(w) /\ t \in Subjects
  BY DEF ProvedInv, TypeInv, HandlersOK, Subjects
<1>2. SUFFICES ASSUME tasks'[t] # tasks[t], tasks'[t].status = "completed", t \notin edited'
               PROVE  Out(t)
  BY <1>1, OutKept
<1>3. CASE Record(w)
  <2>1. /\ Recordable(w) /\ pc[w] = "record"
        /\ tasks' = [tasks EXCEPT ![job[w].task] =
                       [printer |-> job[w].printer, template |-> job[w].template,
                        status |-> Outcome(w)]]
    BY <1>2, <1>3 DEF Record
  <2>2. t = job[w].task /\ tasks'[t].status = Outcome(w)
    BY <1>1, <1>2, <2>1 DEF TypeOK
  <2>3. ok[w] /\ ~Blank(job[w])
    BY <1>2, <2>1, <2>2 DEF Outcome, Recordable
  <2> QED
    BY <1>1, <2>1, <2>2, <2>3 DEF HandlerProved
<1>4. CASE SaveTask(w)
  <2>1. /\ pc[w] = "save" /\ job[w].kind \in TaskSaves
        /\ tasks' = [tasks EXCEPT ![job[w].task] = SavedTask(w)]
        /\ edited' = IF job[w].status # None THEN edited \cup {job[w].task} ELSE edited
    BY <1>2, <1>4 DEF SaveTask
  <2>2. /\ SavedTask(w) \in Task /\ job[w].task \in Tasks
        /\ job[w].kind = "retry" => SavedTask(w).status = Outcome(w)
        /\ job[w].kind # "retry" /\ job[w].status = None => SavedTask(w) = read[w]
    BY <2>1, SavedTaskTyped
  <2>3. t = job[w].task /\ tasks'[t] = SavedTask(w)
    BY <1>1, <1>2, <2>1, <2>2 DEF TypeOK
  <2>4. CASE job[w].kind = "retry"
    <3>1. ok[w]
      BY <1>2, <2>2, <2>3, <2>4 DEF Outcome
    <3> QED
      BY <1>1, <2>1, <2>3, <2>4, <3>1 DEF HandlerProved
  <2>5. CASE job[w].kind # "retry"
    <3>1. job[w].status = None /\ t \notin edited
      BY <1>2, <2>1, <2>3
    <3>2. read[w].status = "completed"
      BY <1>2, <2>2, <2>3, <2>5, <3>1
    <3> QED
      BY <1>1, <2>1, <2>3, <3>1, <3>2 DEF HandlerProved
  <2> QED
    BY <2>4, <2>5
<1> QED
  BY <1>3, <1>4

LEMMA ProvedStep == TypeInv /\ TypeInv' /\ ProvedInv /\ [Next]_vars => ProvedInv'
<1> SUFFICES ASSUME TypeInv, TypeInv', ProvedInv, [Next]_vars PROVE ProvedInv'
  OBVIOUS
<1>1. CompletedWerePrinted /\ TypeOK /\ \A w \in Workers : HandlerProved(w)
  BY DEF ProvedInv, TypeInv
<1>2. ASSUME tasks' = tasks PROVE CompletedWerePrinted'
  BY <1>1, <1>2, RowsProved
<1>3. ASSUME UNCHANGED locals PROVE \A w \in Workers : HandlerProved(w)'
  BY <1>1, <1>3, ProvedKept DEF locals
<1>4. ASSUME NEW w \in Workers, HandlerProved(w)',
             \A v \in Workers \ {w} : /\ pc'[v] = pc[v] /\ job'[v] = job[v]
                                     /\ read'[v] = read[v] /\ ok'[v] = ok[v]
      PROVE  \A v \in Workers : HandlerProved(v)'
  BY <1>1, <1>4, ProvedKept
<1>5. CASE UNCHANGED vars
  BY <1>2, <1>3, <1>5 DEF vars, tables, ProvedInv
<1>6. ASSUME NEW w \in Workers, NEW kind \in Kinds \cap Offered, NEW j \in Asked(kind),
             Receive(w, j)
      PROVE  ProvedInv'
  <2>1. CASE Admitted(j)
    <3>1. /\ HandlerProved(w)' /\ UNCHANGED tables
          /\ \A v \in Workers \ {w} : /\ pc'[v] = pc[v] /\ job'[v] = job[v]
                                      /\ read'[v] = read[v] /\ ok'[v] = ok[v]
      BY <1>6, <2>1, ReceiveProved
    <3> QED
      BY <1>2, <1>4, <3>1 DEF tables, ProvedInv
  <2>2. CASE ~Admitted(j)
    BY <1>2, <1>3, <1>6, <2>2 DEF Receive, tables, ProvedInv
  <2> QED
    BY <2>1, <2>2
<1>7. ASSUME NEW w \in Workers, Send(w) PROVE ProvedInv'
  <2>1. /\ HandlerProved(w)' /\ UNCHANGED tables
        /\ \A v \in Workers \ {w} : /\ pc'[v] = pc[v] /\ job'[v] = job[v]
                                    /\ read'[v] = read[v] /\ ok'[v] = ok[v]
    BY <1>7, SendProved
  <2> QED
    BY <1>2, <1>4, <2>1 DEF tables, ProvedInv
<1>8. ASSUME NEW w \in Workers,
             \/ NextPrinter(w) \/ Poll(w) \/ Record(w) \/ Log(w) \/ SaveTask(w)
             \/ SavePrinter(w) \/ Clear(w) \/ SaveTemplate(w) \/ Fail(w)
      PROVE  ProvedInv'
  <2>1. /\ HandlerProved(w)'
        /\ \A v \in Workers \ {w} : /\ pc'[v] = pc[v] /\ job'[v] = job[v]
                                    /\ read'[v] = read[v] /\ ok'[v] = ok[v]
    BY <1>8, PlainProved
  <2>2. CompletedWerePrinted'
    <3>1. CASE Record(w) \/ SaveTask(w)
      BY <1>1, <3>1, WrittenProved, RowsProved
    <3>2. CASE ~(Record(w) \/ SaveTask(w))
      BY <1>2, <1>8, <3>2
      DEF NextPrinter, Poll, Log, SavePrinter, Clear, SaveTemplate, Fail, tables
    <3> QED
      BY <3>1, <3>2
  <2> QED
    BY <1>4, <2>1, <2>2 DEF ProvedInv
<1>9. CASE CreateTask \/ DeleteTask \/ DeletePrinter \/ DeleteTemplate
  <2>1. UNCHANGED locals
    BY <1>9 DEF CreateTask, DeleteTask, DeletePrinter, DeleteTemplate
  <2>2. CASE CreateTask
    <3>1. PICK u \in FreshTasks, p \in Rows(printers), k \in Rows(templates), s \in Statuses :
            /\ tasks' = [tasks EXCEPT ![u] = [printer |-> p, template |-> k, status |-> s]]
            /\ edited' = IF s # "pending" THEN edited \cup {u} ELSE edited
      BY <2>2 DEF CreateTask
    <3>2. \A t \in Tasks : \/ tasks'[t] = tasks[t]
                           \/ tasks'[t].status = "completed" => t \in edited'
      BY <1>1, <3>1 DEF TypeOK
    <3> QED
      BY <1>1, <1>3, <2>1, <3>2, RowsProved DEF ProvedInv
  <2>3. CASE \E keys \in SUBSET Keys : Cascade(keys)
    <3>1. PICK keys \in SUBSET Keys : Cascade(keys)
      BY <2>3
    <3>2. \A t \in Tasks : tasks'[t] = tasks[t] \/ tasks'[t] = Gone
      BY <1>1, <3>1, CascadeTyped
    <3> QED
      BY <1>1, <1>3, <2>1, <3>2, RowsProved DEF ProvedInv
  <2>4. /\ \A u \in Rows(tasks) : {u} \subseteq Keys
        /\ \A q \in Rows(printers) : {q} \subseteq Keys
        /\ \A k \in Rows(templates) : {k} \subseteq Keys
    BY <1>1, RowsTyped DEF Keys
  <2> QED
    BY <1>9, <2>2, <2>3, <2>4 DEF DeleteTask, DeletePrinter, DeleteTemplate
<1> QED
  BY <1>5, <1>6, <1>7, <1>8, <1>9 DEF Next, Serve

LEMMA ProvedHeld == Spec => []ProvedInv
BY InitProved, ProvedStep, TypeHeld, PTL DEF Spec

\* A task nobody edited is completed only if the cloud printed it, though it is marked
\* from an answer that came before, by a handler that may have read an older row
\* (print_order and retry, printing/api.py).
THEOREM NoPhantomCompletion == Spec => []CompletedWerePrinted
<1>1. ProvedInv => CompletedWerePrinted
  BY DEF ProvedInv
<1> QED
  BY <1>1, ProvedHeld, PTL
-----------------------------------------------------------------------------
(***************************************************************************)
(* The default template                                                    *)
(***************************************************************************)
\* Two rows cannot both be plain, nor both be the default.
LEMMA TwoRows ==
  ASSUME NEW S, Cardinality(S) > 1
  PROVE  \E k, l \in S : k # l
<1>1. S # {}
  BY FS_EmptySet
<1>2. \A k \in S : S # {k}
  BY FS_Singleton
<1> QED
  BY <1>1, <1>2

LEMMA InitUnique == Init => Unique(templates)
BY DEF Init

LEMMA UniqueStep == TypeInv /\ Unique(templates) /\ [Next]_vars => Unique(templates)'
<1> SUFFICES ASSUME TypeInv, Unique(templates), [Next]_vars PROVE Unique(templates')
  BY DEF Unique, Rows
<1>1. CASE templates' = templates
  BY <1>1
<1>2. CASE \E w \in Workers : Clear(w) \/ SaveTemplate(w)
  BY <1>2 DEF Clear, SaveTemplate
<1>3. CASE DeleteTemplate
  <2>1. PICK k \in Rows(templates) : templates' = [templates EXCEPT ![k] = Gone]
    BY <1>3 DEF DeleteTemplate
  <2>2. /\ DOMAIN templates = Templates /\ DOMAIN templates' = Templates
        /\ k \in Templates
    BY <2>1 DEF TypeInv, TypeOK, Rows
  <2>3. \A l \in Rows(templates') : l \in Rows(templates) /\ templates'[l] = templates[l]
    BY <2>1, <2>2 DEF Rows
  <2> QED
    BY <2>3 DEF Unique
<1> QED
  BY <1>1, <1>2, <1>3
  DEF Next, Serve, Receive, NextPrinter, Send, Poll, Record, Log, SaveTask, SavePrinter,
      CreateTask, DeleteTask, DeletePrinter, Fail, vars, tables

\* Clearing the defaults breaks the constraint as soon as there are two templates.
LEMMA ClearingClashes ==
  ASSUME TypeInv, Cardinality(Rows(templates)) > 1
  PROVE  ~Unique(Cleared)
<1>1. PICK k \in Rows(templates), l \in Rows(templates) : k # l
  BY TwoRows
<1>2. /\ k \in Rows(Cleared) /\ l \in Rows(Cleared)
      /\ Cleared[k].default = FALSE /\ Cleared[l].default = FALSE
  BY <1>1, ClearedTyped DEF TypeInv
<1> QED
  BY <1>1, <1>2 DEF Unique

\* One row's flag cannot change alone, for it would clash with the other's.
LEMMA FlagStays ==
  ASSUME TypeInv, Unique(templates), Cardinality(Rows(templates)) > 1,
         NEW key \in Templates, NEW row \in Template,
         templates' = [templates EXCEPT ![key] = row], Unique(templates'),
         Rows(templates') = Rows(templates)
  PROVE  Defaults' = Defaults
<1>1. /\ templates \in [Templates -> Template \cup {None, Gone}]
      /\ Rows(templates) = {k \in Templates : templates[k] \in Template}
  BY RowsTyped DEF TypeInv, TypeOK
<1>2. templates'[key] = row /\ \A k \in Templates \ {key} : templates'[k] = templates[k]
  BY <1>1
<1>3. key \in Rows(templates)
  <2>1. row \notin {None, Gone}
    BY NoneAssumption
  <2>2. DOMAIN templates' = Templates
    BY <1>1
  <2>3. key \in Rows(templates')
    BY <1>2, <2>1, <2>2 DEF Rows
  <2> QED
    BY <2>3
<1>4. PICK other \in Rows(templates) : other # key
  BY TwoRows
<1>5. /\ templates[key].default # templates[other].default
      /\ row.default # templates[other].default
  <2>1. templates'[key].default # templates'[other].default
    BY <1>3, <1>4 DEF Unique
  <2>2. templates'[other] = templates[other]
    BY <1>1, <1>2, <1>4
  <2> QED
    BY <1>2, <1>3, <1>4, <2>1, <2>2 DEF Unique
<1>6. /\ templates[key].default \in BOOLEAN /\ templates[other].default \in BOOLEAN
      /\ row.default \in BOOLEAN
  BY <1>1, <1>3, <1>4 DEF Template
<1>7. row.default = templates[key].default
  BY <1>5, <1>6
<1>8. \A k \in Rows(templates) : templates'[k].default = templates[k].default
  BY <1>1, <1>2, <1>7
<1> QED
  BY <1>8 DEF Defaults

LEMMA StuckStep ==
  ASSUME TypeInv, Unique(templates), Unique(templates'), [Next]_vars,
         Cardinality(Rows(templates)) > 1, Rows(templates') = Rows(templates)
  PROVE  Defaults' = Defaults
<1>1. CASE templates' = templates
  BY <1>1 DEF Defaults, Rows
<1>2. CASE \E w \in Workers : Clear(w)
  BY <1>1, <1>2, ClearingClashes DEF Clear
<1>3. CASE \E w \in Workers : SaveTemplate(w)
  <2>1. PICK w \in Workers : SaveTemplate(w)
    BY <1>3
  <2> DEFINE row == SavedTemplate(w)
             key == job[w].template
  <2>2. row \in Template /\ key \in Templates
    BY <2>1, SavedTemplateTyped DEF SaveTemplate
  <2>3. templates' = templates \/ templates' = [templates EXCEPT ![key] = row]
    BY <2>1, ClearingClashes DEF SaveTemplate
  <2> HIDE DEF row, key
  <2> QED
    BY <1>1, <2>2, <2>3, FlagStays
<1>4. CASE DeleteTemplate
  <2>1. PICK k \in Rows(templates) : templates' = [templates EXCEPT ![k] = Gone]
    BY <1>4 DEF DeleteTemplate
  <2>2. k \in Templates /\ templates'[k] = Gone
    BY <2>1, RowsTyped DEF TypeInv, TypeOK
  <2>3. k \notin Rows(templates')
    BY <2>2 DEF Rows
  <2> QED
    BY <2>1, <2>3
<1> QED
  BY <1>1, <1>2, <1>3, <1>4
  DEF Next, Serve, Receive, NextPrinter, Send, Poll, Record, Log, SaveTask, SavePrinter,
      CreateTask, DeleteTask, DeletePrinter, Fail, vars, tables

\* With two templates in a shop no request ever makes the other one the default, and
\* none takes the default away: the constraint that should keep it single keeps it
\* where it is (printing/models.py, PrintTemplate.Meta; set_default).
THEOREM DefaultStuck == Spec => DefaultIsStuck
<1>1. TypeInv /\ Unique(templates) /\ Unique(templates)' /\ [Next]_vars
        => [Cardinality(Rows(templates)) > 1 /\ Rows(templates') = Rows(templates)
              => Defaults' = Defaults]_vars
  <2>1. SUFFICES ASSUME TypeInv, Unique(templates), Unique(templates)', [Next]_vars
                 PROVE  Cardinality(Rows(templates)) > 1 /\ Rows(templates') = Rows(templates)
                          => Defaults' = Defaults
    OBVIOUS
  <2>2. Unique(templates')
    BY <2>1 DEF Unique, Rows
  <2> QED
    BY <2>1, <2>2, StuckStep
<1>2. Spec => []Unique(templates)
  BY InitUnique, UniqueStep, TypeHeld, PTL DEF Spec
<1> QED
  BY <1>1, <1>2, TypeHeld, PTL DEF Spec, DefaultIsStuck
-----------------------------------------------------------------------------
(***************************************************************************)
(* Rows in hand                                                            *)
(***************************************************************************)
\* Unless the row was raced for, a handler will save what is still there; and the
\* key it has for a new row is still unused.
HandFresh(w) ==
  pc[w] # "idle" =>
    /\ job[w].kind \in TaskSaves =>
         tasks[job[w].task] # None /\ (job[w].task \in raced \/ read[w] = tasks[job[w].task])
    /\ job[w].kind \in PrinterSaves =>
         job[w].printer \in raced \/ read[w] = printers[job[w].printer]
    /\ job[w].kind \in TemplateSaves =>
         /\ templates[job[w].template] # None
         /\ job[w].template \in raced \/ read[w] = templates[job[w].template]
    /\ job[w].kind \in Prints /\ pc[w] \in {"send", "record"} => tasks[job[w].task] = None
    /\ job[w].kind = "create_template" => templates[job[w].template] = None
    /\ pc[w] = "clear" => job[w].on

\* Two handlers do not have the same row, unless it was raced for.
Apart(v, w) ==
  pc[v] # "idle" /\ pc[w] # "idle" =>
    /\ job[v].kind \in Prints /\ job[w].kind \in Prints => job[v].task # job[w].task
    /\ job[v].kind = "create_template" /\ job[w].kind = "create_template" =>
         job[v].template # job[w].template
    /\ job[v].kind \in TaskSaves /\ job[w].kind \in TaskSaves /\ job[v].task = job[w].task =>
         job[v].task \in raced

FreshInv ==
  /\ \A w \in Workers : HandFresh(w)
  /\ \A v, w \in Workers : v # w => Apart(v, w)

LEMMA RacedGrows ==
  ASSUME [Next]_vars
  PROVE  raced \subseteq raced'
BY ZenonT(30) DEF Next, Serve, Receive, NextPrinter, Send, Poll, Record, Log, SaveTask, SavePrinter, Clear,
       SaveTemplate, CreateTask, DeleteTask, DeletePrinter, DeleteTemplate, Fail, vars, history,
       Race, Cascade

LEMMA TargetOf ==
  ASSUME NEW j
  PROVE  /\ j.kind \in TaskSaves => Target(j) = {j.task}
         /\ j.kind \in PrinterSaves => Target(j) = {j.printer}
         /\ j.kind \in TemplateSaves => Target(j) = {j.template}
         /\ j.kind \in Kinds \ (TaskSaves \cup PrinterSaves \cup TemplateSaves) => Target(j) = {}
BY DEF Target, TaskSaves, PrinterSaves, TemplateSaves, Kinds, Prints

LEMMA HeldRows ==
  ASSUME TypeInv, NEW W \in SUBSET Workers, NEW v \in W, pc[v] # "idle"
  PROVE  /\ job[v].kind \in TaskSaves => job[v].task \in InHand(W)
         /\ job[v].kind \in PrinterSaves => job[v].printer \in InHand(W)
         /\ job[v].kind \in TemplateSaves => job[v].template \in InHand(W)
<1>1. job[v] # None
  BY NoneAssumption DEF TypeInv, HandlersOK, HandlerOK, JobOK
<1>2. Target(job[v]) \subseteq InHand(W)
  BY <1>1 DEF InHand
<1> QED
  BY <1>2, TargetOf

\* What a step does to the rows a handler has, when it is another's step.
Undisturbed(v) ==
  pc[v] # "idle" =>
    /\ pc'[v] = pc[v] /\ job'[v] = job[v] /\ read'[v] = read[v]
    /\ job[v].kind \in TaskSaves =>
         /\ tasks[job[v].task] # None => tasks'[job[v].task] # None
         /\ tasks'[job[v].task] = tasks[job[v].task] \/ job[v].task \in raced'
    /\ job[v].kind \in PrinterSaves =>
         printers'[job[v].printer] = printers[job[v].printer] \/ job[v].printer \in raced'
    /\ job[v].kind \in TemplateSaves =>
         /\ templates[job[v].template] # None => templates'[job[v].template] # None
         /\ templates'[job[v].template] = templates[job[v].template] \/ job[v].template \in raced'
    /\ job[v].kind \in Prints /\ tasks[job[v].task] = None => tasks'[job[v].task] = None
    /\ job[v].kind = "create_template" /\ templates[job[v].template] = None =>
         templates'[job[v].template] = None

LEMMA FreshKept ==
  ASSUME TypeInv, FreshInv, [Next]_vars, NEW v \in Workers, pc[v] # "idle", Undisturbed(v)
  PROVE  HandFresh(v)'
<1>1. /\ pc'[v] = pc[v] /\ job'[v] = job[v] /\ read'[v] = read[v] /\ HandFresh(v)
      /\ raced \subseteq raced'
  BY RacedGrows DEF FreshInv, Undisturbed
<1>2. StepFits(pc[v], job[v].kind)
  BY DEF TypeInv, HandlersOK, HandlerOK
<1>3. CASE job[v].kind \in TaskSaves
  <2>1. /\ tasks'[job[v].task] # None
        /\ job[v].task \in raced' \/ read[v] = tasks'[job[v].task]
    BY <1>1, <1>3 DEF HandFresh, Undisturbed
  <2>2. pc[v] # "clear"
    BY <1>2, <1>3 DEF StepFits, TaskSaves
  <2> QED
    BY <1>1, <1>3, <2>1, <2>2
    DEF HandFresh, TaskSaves, PrinterSaves, TemplateSaves, Prints
<1>4. CASE job[v].kind \in PrinterSaves
  <2>1. job[v].printer \in raced' \/ read[v] = printers'[job[v].printer]
    BY <1>1, <1>4 DEF HandFresh, Undisturbed
  <2>2. pc[v] # "clear"
    BY <1>2, <1>4 DEF StepFits, PrinterSaves
  <2> QED
    BY <1>1, <1>4, <2>1, <2>2
    DEF HandFresh, TaskSaves, PrinterSaves, TemplateSaves, Prints
<1>5. CASE job[v].kind \in TemplateSaves
  <2>1. /\ templates'[job[v].template] # None
        /\ job[v].template \in raced' \/ read[v] = templates'[job[v].template]
    BY <1>1, <1>5 DEF HandFresh, Undisturbed
  <2>2. pc[v] # "clear"
    BY <1>2, <1>5 DEF StepFits, TemplateSaves
  <2> QED
    BY <1>1, <1>5, <2>1, <2>2
    DEF HandFresh, TaskSaves, PrinterSaves, TemplateSaves, Prints
<1>6. CASE job[v].kind \in Prints
  <2>1. pc[v] \in {"send", "record"} => tasks'[job[v].task] = None
    BY <1>1, <1>6 DEF HandFresh, Undisturbed
  <2>2. pc[v] # "clear"
    BY <1>2, <1>6 DEF StepFits, Prints
  <2> QED
    BY <1>1, <1>6, <2>1, <2>2
    DEF HandFresh, TaskSaves, PrinterSaves, TemplateSaves, Prints
<1>7. CASE job[v].kind = "create_template"
  <2>1. templates'[job[v].template] = None
    BY <1>1, <1>7 DEF HandFresh, Undisturbed
  <2>2. pc[v] = "clear" => job[v].on
    BY <1>1 DEF HandFresh
  <2> QED
    BY <1>1, <1>7, <2>1, <2>2 DEF HandFresh, TaskSaves, PrinterSaves, TemplateSaves, Prints
<1>8. CASE job[v].kind \notin TaskSaves \cup PrinterSaves \cup TemplateSaves \cup Prints
                               \cup {"create_template"}
  BY <1>1, <1>8 DEF HandFresh
<1> QED
  BY <1>3, <1>4, <1>5, <1>6, <1>7, <1>8

\* What one handler marks, the others that have it know to be raced for.
LEMMA RaceMarks ==
  ASSUME TypeInv, NEW w \in Workers, NEW S, Race(w, S), NEW v \in Workers \ {w}, pc[v] # "idle"
  PROVE  /\ job[v].kind \in TaskSaves /\ job[v].task \in S => job[v].task \in raced'
         /\ job[v].kind \in PrinterSaves /\ job[v].printer \in S => job[v].printer \in raced'
         /\ job[v].kind \in TemplateSaves /\ job[v].template \in S => job[v].template \in raced'
<1>1. Workers \ {w} \in SUBSET Workers
  OBVIOUS
<1> QED
  BY <1>1, HeldRows DEF Race

\* Jobs that are kept, given up, or automatic do not come together.
LEMMA ApartKept ==
  ASSUME FreshInv, [Next]_vars,
         \A u \in Workers : \/ pc'[u] = "idle" \/ job'[u].kind = "auto"
                            \/ pc[u] # "idle" /\ job'[u] = job[u]
  PROVE  \A v, w \in Workers : v # w => Apart(v, w)'
<1> SUFFICES ASSUME NEW v \in Workers, NEW w \in Workers, v # w PROVE Apart(v, w)'
  OBVIOUS
<1>1. "auto" \notin Prints \cup TaskSaves \cup {"create_template"}
  BY DEF Prints, TaskSaves
<1>2. Apart(v, w) /\ raced \subseteq raced'
  BY RacedGrows DEF FreshInv
<1> QED
  BY <1>1, <1>2 DEF Apart

LEMMA FreshAfter ==
  ASSUME TypeInv, FreshInv, [Next]_vars, NEW w \in Workers, HandFresh(w)',
         \A v \in Workers \ {w} : Undisturbed(v) /\ pc'[v] = pc[v] /\ job'[v] = job[v],
         \/ pc'[w] = "idle" \/ job'[w].kind = "auto"
         \/ pc[w] # "idle" /\ job'[w] = job[w]
  PROVE  FreshInv'
<1>1. \A v \in Workers : HandFresh(v)'
  <2> SUFFICES ASSUME NEW v \in Workers \ {w} PROVE HandFresh(v)'
    OBVIOUS
  <2>1. CASE pc[v] # "idle"
    BY <2>1, FreshKept
  <2>2. CASE pc[v] = "idle"
    BY <2>2 DEF HandFresh
  <2> QED
    BY <2>1, <2>2
<1>2. \A u \in Workers : \/ pc'[u] = "idle" \/ job'[u].kind = "auto"
                         \/ pc[u] # "idle" /\ job'[u] = job[u]
  OBVIOUS
<1>3. \A v, u \in Workers : v # u => Apart(v, u)'
  BY <1>2, ApartKept
<1> QED
  BY <1>1, <1>3 DEF FreshInv

\* Steps of a handler that write no row anybody else may have.
LEMMA FreshLocal ==
  ASSUME TypeInv, FreshInv, NEW w \in Workers,
         NextPrinter(w) \/ Send(w) \/ Poll(w) \/ Log(w) \/ Fail(w)
  PROVE  FreshInv'
<1>1. LocalsOK /\ HandlerOK(w) /\ HandFresh(w) /\ UNCHANGED <<printers, templates, tasks, raced>>
  BY TypeParts
  DEF TypeInv, HandlersOK, FreshInv, NextPrinter, Send, Poll, Log, Fail, tables, history
<1>2. [Next]_vars
  BY DEF Next, Serve
<1>3. /\ \A v \in Workers \ {w} : /\ pc'[v] = pc[v] /\ job'[v] = job[v] /\ read'[v] = read[v]
      /\ HandFresh(w)'
      /\ \/ pc'[w] = "idle" \/ job'[w].kind = "auto"
         \/ pc[w] # "idle" /\ job'[w] = job[w]
  <2>1. CASE Finish(w)
    BY <1>1, <2>1, FinishLocals DEF HandFresh
  <2>2. CASE ~Finish(w) /\ NextPrinter(w)
    <3>1. PICK p \in todo[w] : /\ job' = [job EXCEPT ![w] = ForPrinter(@, p)]
                              /\ pc' = [pc EXCEPT ![w] = "send"] /\ UNCHANGED <<read, ok>>
      BY <2>2 DEF NextPrinter
    <3>2. /\ pc[w] # "idle" /\ job[w] \in Job /\ job[w].kind = "auto" /\ p \in Printers
      BY <1>1, <2>2 DEF NextPrinter, HandlerOK, StepFits, JobOK, LocalsOK
    <3>3. ForPrinter(job[w], p).kind = "auto"
      BY <3>2, ForPrinterTyped DEF TypeInv
    <3>4. /\ pc'[w] = "send" /\ job'[w].kind = "auto"
          /\ \A v \in Workers \ {w} : /\ pc'[v] = pc[v] /\ job'[v] = job[v] /\ read'[v] = read[v]
      BY <1>1, <3>1, <3>3 DEF LocalsOK
    <3> QED
      BY <3>4 DEF HandFresh, TaskSaves, PrinterSaves, TemplateSaves, Prints
  <2>3. CASE ~Finish(w) /\ ~NextPrinter(w)
    <3>1. /\ UNCHANGED <<job, read>> /\ pc[w] \in {"send", "poll", "log"}
          /\ \E step \in {"save", "record", "log", "next"} : pc' = [pc EXCEPT ![w] = step]
          /\ pc' = [pc EXCEPT ![w] = "record"] => pc[w] = "send"
      <4>1. CASE Send(w)
        <5>1. /\ UNCHANGED <<job, read>> /\ pc[w] = "send"
              /\ pc' = [pc EXCEPT ![w] = AfterSend(job[w].kind)]
          BY <4>1 DEF Send
        <5>2. AfterSend(job[w].kind) \in {"save", "record", "log"}
          BY DEF AfterSend
        <5> QED
          BY <5>1, <5>2
      <4>2. CASE Poll(w) \/ Log(w)
        <5>1. /\ UNCHANGED <<job, read>> /\ pc[w] \in {"poll", "log"}
              /\ pc' = [pc EXCEPT ![w] = "save"] \/ pc' = [pc EXCEPT ![w] = "next"]
          BY <2>3, <4>2 DEF Poll, Log
        <5> QED
          BY <1>1, <5>1 DEF LocalsOK
      <4> QED
        BY <2>3, <4>1, <4>2 DEF Fail
    <3>2. /\ job'[w] = job[w] /\ read'[w] = read[w] /\ pc[w] # "idle"
          /\ pc'[w] \in {"save", "record", "log", "next"}
          /\ pc'[w] = "record" => pc[w] = "send"
          /\ \A v \in Workers \ {w} : /\ pc'[v] = pc[v] /\ job'[v] = job[v] /\ read'[v] = read[v]
      BY <1>1, <3>1 DEF LocalsOK
    <3> QED
      BY <1>1, <3>2 DEF HandFresh
  <2> QED
    BY <2>1, <2>2, <2>3
<1>4. \A v \in Workers \ {w} : Undisturbed(v)
  BY <1>1, <1>3 DEF Undisturbed
<1> QED
  BY <1>2, <1>3, <1>4, FreshAfter

\* The save of a task, and the row a print makes.
LEMMA FreshTask ==
  ASSUME TypeInv, FreshInv, NEW w \in Workers, Record(w) \/ SaveTask(w)
  PROVE  FreshInv'
<1>1. LocalsOK /\ HandlerOK(w) /\ HandFresh(w) /\ pc[w] # "idle" /\ [Next]_vars
      /\ UNCHANGED <<printers, templates>>
  BY TypeParts DEF TypeInv, HandlersOK, FreshInv, Record, SaveTask, Next, Serve
<1>2. /\ \A v \in Workers \ {w} : /\ pc'[v] = pc[v] /\ job'[v] = job[v] /\ read'[v] = read[v]
      /\ HandFresh(w)'
      /\ pc'[w] = "idle" \/ job'[w] = job[w]
  <2>1. CASE Finish(w)
    BY <1>1, <2>1, FinishLocals DEF HandFresh
  <2>2. CASE ~Finish(w)
    <3>1. pc[w] = "record" /\ pc' = [pc EXCEPT ![w] = "log"] /\ UNCHANGED <<job, read>>
      BY <2>2 DEF Record, SaveTask
    <3>2. job[w].kind \in Prints
      BY <1>1, <3>1 DEF HandlerOK, StepFits
    <3>3. /\ pc'[w] = "log" /\ job'[w] = job[w] /\ job'[w].kind \in Prints
          /\ \A v \in Workers \ {w} : /\ pc'[v] = pc[v] /\ job'[v] = job[v] /\ read'[v] = read[v]
      BY <1>1, <3>1, <3>2 DEF LocalsOK
    <3> QED
      BY <3>3 DEF HandFresh, TaskSaves, PrinterSaves, TemplateSaves, Prints
  <2> QED
    BY <2>1, <2>2
<1>3. ASSUME NEW v \in Workers \ {w} PROVE Undisturbed(v)
  <2> SUFFICES ASSUME pc[v] # "idle" PROVE Undisturbed(v)
    BY DEF Undisturbed
  <2> DEFINE t == job[w].task
             u == job[v].task
  <2>1. CASE tasks' = tasks
    BY <1>1, <1>2, <2>1 DEF Undisturbed
  <2>2. CASE tasks' # tasks /\ Record(w)
    <3>1. PICK row \in Task : tasks' = [tasks EXCEPT ![t] = row]
      <4>1. TypeInv'
        BY <1>1, StepTyped
      <4>2. PICK row : tasks' = [tasks EXCEPT ![t] = row] /\ Recordable(w)
                       /\ row = [printer |-> job[w].printer, template |-> job[w].template,
                                 status |-> Outcome(w)]
        BY <2>2 DEF Record
      <4>3. row \in Task
        BY <4>2, RowsTyped DEF TypeInv, Recordable, Task, Outcome, Statuses
      <4> QED
        BY <4>2, <4>3
    <3>2. pc[w] = "record" /\ job[w].kind \in Prints
      BY <1>1, <2>2 DEF Record, HandlerOK, StepFits
    <3>3. tasks[t] = None
      BY <1>1, <3>2 DEF HandFresh
    <3>4. job[v].kind \in Prints => u # t
      BY <1>1, <3>2 DEF FreshInv, Apart
    <3>5. HandFresh(v) /\ JobOK(job[v], read[v])
      BY DEF FreshInv, TypeInv, HandlersOK, HandlerOK
    <3>6. job[v].kind \in TaskSaves => u # t
      BY <3>3, <3>5 DEF HandFresh
    <3>7. job[v].kind \in TaskSaves \cup Prints => tasks'[u] = tasks[u]
      BY <3>1, <3>4, <3>5, <3>6 DEF JobOK, TypeInv, TypeOK
    <3> QED
      BY <1>1, <1>2, <3>7 DEF Undisturbed
  <2>3. CASE tasks' # tasks /\ SaveTask(w)
    <3>1. /\ pc[w] = "save" /\ job[w].kind \in TaskSaves
          /\ tasks' = [tasks EXCEPT ![t] = SavedTask(w)] /\ Race(w, {t})
      BY <2>3 DEF SaveTask
    <3>2. SavedTask(w) \in Task /\ t \in Tasks /\ tasks[t] # None
      BY <1>1, <3>1, SavedTaskTyped DEF HandFresh
    <3>3. SavedTask(w) # None
      BY <3>2, NoneAssumption
    <3>4. job[v].kind \in TaskSaves /\ u = t => u \in raced'
      BY <3>1, RaceMarks
    <3>5. JobOK(job[v], read[v])
      BY DEF TypeInv, HandlersOK, HandlerOK
    <3>6. /\ tasks'[t] # None
          /\ u # t /\ job[v].kind \in TaskSaves \cup Prints => tasks'[u] = tasks[u]
      BY <3>1, <3>2, <3>3, <3>5 DEF JobOK, TypeInv, TypeOK
    <3> QED
      BY <1>1, <1>2, <3>2, <3>4, <3>6 DEF Undisturbed
  <2> QED
    BY <2>1, <2>2, <2>3
<1> QED
  BY <1>1, <1>2, <1>3, FreshAfter

LEMMA FreshPrinter ==
  ASSUME TypeInv, FreshInv, NEW w \in Workers, SavePrinter(w)
  PROVE  FreshInv'
<1>1. LocalsOK /\ [Next]_vars /\ UNCHANGED <<templates, tasks>> /\ Finish(w)
  BY TypeParts DEF SavePrinter, Next, Serve
<1>2. /\ \A v \in Workers \ {w} : /\ pc'[v] = pc[v] /\ job'[v] = job[v] /\ read'[v] = read[v]
      /\ HandFresh(w)' /\ pc'[w] = "idle"
  BY <1>1, FinishLocals DEF HandFresh
<1>3. ASSUME NEW v \in Workers \ {w} PROVE Undisturbed(v)
  <2> SUFFICES ASSUME pc[v] # "idle" PROVE Undisturbed(v)
    BY DEF Undisturbed
  <2> DEFINE p == job[w].printer
             q == job[v].printer
  <2>1. printers' = [printers EXCEPT ![p] = SavedPrinter(w)] /\ Race(w, {p})
    BY DEF SavePrinter
  <2>2. job[v].kind \in PrinterSaves /\ q = p => q \in raced'
    BY <2>1, RaceMarks
  <2>3. JobOK(job[v], read[v])
    BY DEF TypeInv, HandlersOK, HandlerOK
  <2>4. job[v].kind \in PrinterSaves /\ q # p => printers'[q] = printers[q]
    BY <2>1, <2>3 DEF JobOK, TypeInv, TypeOK
  <2> QED
    BY <1>1, <1>2, <2>2, <2>4 DEF Undisturbed
<1> QED
  BY <1>1, <1>2, <1>3, FreshAfter

\* What Clear and SaveTemplate change of the templates, they mark.
LEMMA TemplateMarks ==
  ASSUME TypeInv, NEW w \in Workers, Clear(w) \/ SaveTemplate(w), NEW k \in Templates
  PROVE  /\ templates'[k] # templates[k] => \E S : k \in S /\ Race(w, S)
         /\ templates[k] # None => templates'[k] # None
         /\ templates[k] = None /\ templates'[k] # None =>
              SaveTemplate(w) /\ k = job[w].template
<1>1. /\ templates \in [Templates -> Template \cup {None, Gone}]
      /\ Rows(templates) = {l \in Templates : templates[l] \in Template}
      /\ \A row \in Template : row # None
  BY RowsTyped, NoneAssumption DEF TypeInv, TypeOK
<1>2. /\ Cleared[k] # templates[k] => k \in Defaults
      /\ templates[k] # None => Cleared[k] # None
      /\ templates[k] = None => Cleared[k] = None
  <2>1. CASE k \in Rows(templates)
    <3>1. Cleared[k] = [templates[k] EXCEPT !.default = FALSE] /\ templates[k] \in Template
      BY <1>1, <2>1 DEF Cleared
    <3>2. ~templates[k].default => Cleared[k] = templates[k]
      BY <2>1, ClearedTyped DEF TypeInv
    <3>3. Cleared[k] \in Template
      BY <3>1 DEF Template
    <3> QED
      BY <1>1, <2>1, <3>1, <3>2, <3>3 DEF Defaults
  <2>2. CASE k \notin Rows(templates)
    BY <2>2, ClearedTyped DEF TypeInv
  <2> QED
    BY <2>1, <2>2
<1>3. CASE Clear(w)
  <2>1. templates' = templates \/ (templates' = Cleared /\ Race(w, Defaults))
    BY <1>3 DEF Clear
  <2> QED
    BY <1>2, <2>1
<1>4. CASE SaveTemplate(w)
  <2> DEFINE before == IF job[w].kind = "set_default" THEN Cleared ELSE templates
             row == SavedTemplate(w)
             key == job[w].template
             changed == {key} \cup {l \in Templates : before[l] # templates[l]}
  <2>1. \/ templates' = templates
        \/ templates' = [before EXCEPT ![key] = row] /\ Race(w, changed)
    BY <1>4 DEF SaveTemplate
  <2>2. row \in Template /\ key \in Templates
    BY <1>4, SavedTemplateTyped DEF SaveTemplate
  <2>3. before \in [Templates -> Template \cup {None, Gone}]
    BY <1>1, ClearedTyped DEF TypeInv
  <2>4. before[k] # templates[k] => k \in changed
    OBVIOUS
  <2>5. key \in changed
    OBVIOUS
  <2>6. /\ templates[k] # None => before[k] # None
        /\ templates[k] = None => before[k] = None
    BY <1>2
  <2> HIDE DEF before, row, key, changed
  <2>7. CASE templates' = templates
    BY <2>7
  <2>8. CASE templates' = [before EXCEPT ![key] = row] /\ Race(w, changed) /\ k = key
    <3>1. templates'[k] = row
      BY <2>2, <2>3, <2>8
    <3> QED
      BY <1>1, <1>4, <2>2, <2>5, <2>8, <3>1 DEF key
  <2>9. CASE templates' = [before EXCEPT ![key] = row] /\ Race(w, changed) /\ k # key
    <3>1. templates'[k] = before[k]
      BY <2>3, <2>9
    <3> QED
      BY <2>4, <2>6, <2>9, <3>1
  <2> QED
    BY <2>1, <2>7, <2>8, <2>9
<1> QED
  BY <1>3, <1>4

LEMMA FreshTemplate ==
  ASSUME TypeInv, FreshInv, NEW w \in Workers, Clear(w) \/ SaveTemplate(w)
  PROVE  FreshInv'
<1>1. /\ LocalsOK /\ HandlerOK(w) /\ HandFresh(w) /\ [Next]_vars
      /\ UNCHANGED <<printers, tasks>> /\ pc[w] # "idle"
  BY TypeParts DEF TypeInv, HandlersOK, FreshInv, Clear, SaveTemplate, Next, Serve
<1>2. /\ \A v \in Workers \ {w} : /\ pc'[v] = pc[v] /\ job'[v] = job[v] /\ read'[v] = read[v]
      /\ HandFresh(w)'
      /\ pc'[w] = "idle" \/ job'[w] = job[w]
  <2>1. CASE Finish(w)
    BY <1>1, <2>1, FinishLocals DEF HandFresh
  <2>2. CASE ~Finish(w)
    <3>1. /\ pc[w] = "clear" /\ pc' = [pc EXCEPT ![w] = "save"] /\ UNCHANGED <<job, read>>
          /\ Clear(w)
      BY <2>2 DEF Clear, SaveTemplate
    <3>2. job[w].kind = "create_template" /\ job[w].template \in Templates
      BY <1>1, <3>1 DEF HandlerOK, StepFits, JobOK
    <3>3. templates[job[w].template] = None
      BY <1>1, <3>2 DEF HandFresh
    <3>4. templates'[job[w].template] = None
      BY <3>1, <3>2, <3>3, TemplateMarks DEF Clear, SaveTemplate
    <3>5. /\ pc'[w] = "save" /\ job'[w] = job[w]
          /\ \A v \in Workers \ {w} : /\ pc'[v] = pc[v] /\ job'[v] = job[v] /\ read'[v] = read[v]
      BY <1>1, <3>1 DEF LocalsOK
    <3> QED
      BY <3>2, <3>4, <3>5 DEF HandFresh, TaskSaves, PrinterSaves, TemplateSaves, Prints
  <2> QED
    BY <2>1, <2>2
<1>3. ASSUME NEW v \in Workers \ {w} PROVE Undisturbed(v)
  <2> SUFFICES ASSUME pc[v] # "idle" PROVE Undisturbed(v)
    BY DEF Undisturbed
  <2> DEFINE k == job[v].template
  <2>1. JobOK(job[v], read[v])
    BY DEF TypeInv, HandlersOK, HandlerOK
  <2>2. job[v].kind \in TemplateSaves =>
          /\ templates[k] # None => templates'[k] # None
          /\ templates'[k] = templates[k] \/ k \in raced'
    <3>1. SUFFICES ASSUME job[v].kind \in TemplateSaves
                   PROVE  /\ templates[k] # None => templates'[k] # None
                          /\ templates'[k] = templates[k] \/ k \in raced'
      OBVIOUS
    <3>2. k \in Templates
      BY <2>1, <3>1 DEF JobOK
    <3>3. /\ templates'[k] # templates[k] => \E S : k \in S /\ Race(w, S)
          /\ templates[k] # None => templates'[k] # None
      BY <3>2, TemplateMarks
    <3> QED
      BY <3>1, <3>3, RaceMarks
  <2>3. job[v].kind = "create_template" /\ templates[k] = None => templates'[k] = None
    <3>1. SUFFICES ASSUME job[v].kind = "create_template", templates[k] = None, templates'[k] # None
                   PROVE  FALSE
      OBVIOUS
    <3>2. k \in Templates
      BY <2>1, <3>1 DEF JobOK
    <3>3. SaveTemplate(w) /\ k = job[w].template
      BY <3>1, <3>2, TemplateMarks
    <3>4. job[w].kind \in TemplateSaves \/ job[w].kind = "create_template"
      BY <3>3 DEF SaveTemplate
    <3>5. job[w].kind # "create_template"
      BY <1>1, <3>1, <3>3 DEF FreshInv, Apart
    <3> QED
      BY <1>1, <3>1, <3>3, <3>4, <3>5 DEF HandFresh
  <2> QED
    BY <1>1, <1>2, <2>2, <2>3 DEF Undisturbed
<1> QED
  BY <1>1, <1>2, <1>3, FreshAfter

LEMMA FreshAside ==
  ASSUME TypeInv, FreshInv, [Next]_vars, UNCHANGED locals,
         \A v \in Workers : Undisturbed(v)
  PROVE  FreshInv'
<1>1. \A v \in Workers : HandFresh(v)'
  <2> SUFFICES ASSUME NEW v \in Workers PROVE HandFresh(v)'
    OBVIOUS
  <2>1. CASE pc[v] # "idle"
    BY <2>1, FreshKept
  <2>2. CASE pc[v] = "idle"
    BY <2>2 DEF HandFresh, locals
  <2> QED
    BY <2>1, <2>2
<1>2. \A u \in Workers : \/ pc'[u] = "idle" \/ job'[u].kind = "auto"
                         \/ pc[u] # "idle" /\ job'[u] = job[u]
  BY DEF locals
<1>3. \A v, u \in Workers : v # u => Apart(v, u)'
  BY <1>2, ApartKept
<1> QED
  BY <1>1, <1>3 DEF FreshInv

\* What is deleted, and goes with it, is marked for the handlers that have it.
LEMMA CascadeMarks ==
  ASSUME TypeInv, NEW keys \in SUBSET Keys, Cascade(keys), NEW v \in Workers, pc[v] # "idle"
  PROVE  /\ job[v].kind \in TaskSaves =>
              /\ tasks[job[v].task] # None => tasks'[job[v].task] # None
              /\ tasks'[job[v].task] = tasks[job[v].task] \/ job[v].task \in raced'
         /\ job[v].kind \in Prints /\ tasks[job[v].task] = None => tasks'[job[v].task] = None
         /\ job[v].kind \in PrinterSaves /\ job[v].printer \in keys => job[v].printer \in raced'
         /\ job[v].kind \in TemplateSaves /\ job[v].template \in keys => job[v].template \in raced'
<1> DEFINE doomed == {t \in Rows(tasks) : t \in keys \/ tasks[t].printer \in keys
                                                \/ tasks[t].template \in keys}
<1>1. /\ tasks' = [t \in Tasks |-> IF t \in doomed THEN Gone ELSE tasks[t]]
      /\ raced' = raced \cup ((keys \cup doomed) \cap InHand(Workers))
  BY DEF Cascade
<1>2. /\ job[v].kind \in TaskSaves \cup Prints => job[v].task \in Tasks
  BY DEF TypeInv, HandlersOK, HandlerOK, JobOK
<1>3. /\ job[v].kind \in TaskSaves => job[v].task \in InHand(Workers)
      /\ job[v].kind \in PrinterSaves => job[v].printer \in InHand(Workers)
      /\ job[v].kind \in TemplateSaves => job[v].template \in InHand(Workers)
  BY HeldRows
<1>4. \A t \in doomed : tasks[t] # None
  BY DEF Rows
<1>5. Gone # None
  BY NoneAssumption
<1> HIDE DEF doomed
<1> QED
  BY <1>1, <1>2, <1>3, <1>4, <1>5

LEMMA FreshRow ==
  ASSUME TypeInv, FreshInv, CreateTask \/ DeleteTask \/ DeletePrinter \/ DeleteTemplate
  PROVE  FreshInv'
<1>1. [Next]_vars /\ UNCHANGED locals /\ TypeOK
  BY DEF Next, CreateTask, DeleteTask, DeletePrinter, DeleteTemplate, TypeInv
<1>2. ASSUME NEW v \in Workers, pc[v] # "idle" PROVE Undisturbed(v)
  <2>1. pc'[v] = pc[v] /\ job'[v] = job[v] /\ read'[v] = read[v] /\ JobOK(job[v], read[v])
    BY <1>1, <1>2 DEF locals, TypeInv, HandlersOK, HandlerOK
  <2>2. CASE CreateTask
    <3>1. PICK t \in FreshTasks, p \in Rows(printers), k \in Rows(templates), s \in Statuses :
            tasks' = [tasks EXCEPT ![t] = [printer |-> p, template |-> k, status |-> s]]
      BY <2>2 DEF CreateTask
    <3>2. job[v] # None
      BY <2>1, NoneAssumption DEF JobOK
    <3>3. job[v].task # t
      BY <3>2 DEF FreshTasks
    <3>4. job[v].kind \in TaskSaves \cup Prints => tasks'[job[v].task] = tasks[job[v].task]
      BY <1>1, <2>1, <3>1, <3>3 DEF TypeOK, JobOK
    <3> QED
      BY <2>1, <2>2, <3>4 DEF Undisturbed, CreateTask
  <2>3. CASE DeleteTask
    <3>1. PICK t \in Rows(tasks) : Cascade({t})
      BY <2>3 DEF DeleteTask
    <3>2. {t} \in SUBSET Keys
      BY <1>1, RowsTyped DEF Keys
    <3>3. /\ job[v].kind \in TaskSaves =>
               /\ tasks[job[v].task] # None => tasks'[job[v].task] # None
               /\ tasks'[job[v].task] = tasks[job[v].task] \/ job[v].task \in raced'
          /\ job[v].kind \in Prints /\ tasks[job[v].task] = None => tasks'[job[v].task] = None
      BY <1>2, <3>1, <3>2, CascadeMarks
    <3>4. UNCHANGED <<printers, templates>>
      BY <2>3 DEF DeleteTask
    <3> QED
      BY <2>1, <3>3, <3>4 DEF Undisturbed
  <2>4. CASE DeletePrinter
    <3>1. PICK p \in Rows(printers) : Cascade({p}) /\ printers' = [printers EXCEPT ![p] = Gone]
      BY <2>4 DEF DeletePrinter
    <3>2. {p} \in SUBSET Keys /\ p \in Printers
      BY <1>1, RowsTyped DEF Keys
    <3>3. /\ job[v].kind \in TaskSaves =>
               /\ tasks[job[v].task] # None => tasks'[job[v].task] # None
               /\ tasks'[job[v].task] = tasks[job[v].task] \/ job[v].task \in raced'
          /\ job[v].kind \in Prints /\ tasks[job[v].task] = None => tasks'[job[v].task] = None
          /\ job[v].kind \in PrinterSaves /\ job[v].printer = p => job[v].printer \in raced'
      BY <1>2, <3>1, <3>2, CascadeMarks
    <3>4. templates' = templates
      BY <2>4 DEF DeletePrinter
    <3>5. job[v].kind \in PrinterSaves /\ job[v].printer # p =>
            printers'[job[v].printer] = printers[job[v].printer]
      BY <1>1, <2>1, <3>1 DEF JobOK, TypeOK
    <3> QED
      BY <2>1, <3>3, <3>4, <3>5 DEF Undisturbed
  <2>5. CASE DeleteTemplate
    <3>1. PICK k \in Rows(templates) :
            Cascade({k}) /\ templates' = [templates EXCEPT ![k] = Gone]
      BY <2>5 DEF DeleteTemplate
    <3>2. {k} \in SUBSET Keys /\ k \in Templates /\ templates[k] # None /\ Gone # None
      BY <1>1, RowsTyped, NoneAssumption DEF Keys, Rows
    <3>3. /\ job[v].kind \in TaskSaves =>
               /\ tasks[job[v].task] # None => tasks'[job[v].task] # None
               /\ tasks'[job[v].task] = tasks[job[v].task] \/ job[v].task \in raced'
          /\ job[v].kind \in Prints /\ tasks[job[v].task] = None => tasks'[job[v].task] = None
          /\ job[v].kind \in TemplateSaves /\ job[v].template = k => job[v].template \in raced'
      BY <1>2, <3>1, <3>2, CascadeMarks
    <3>4. printers' = printers
      BY <2>5 DEF DeleteTemplate
    <3>5. \A l \in Templates : templates'[l] = IF l = k THEN Gone ELSE templates[l]
      BY <1>1, <3>1 DEF TypeOK
    <3>6. job[v].kind \in TemplateSaves \cup {"create_template"} => job[v].template \in Templates
      BY <2>1 DEF JobOK
    <3> QED
      BY <2>1, <3>2, <3>3, <3>4, <3>5, <3>6 DEF Undisturbed
  <2> QED
    BY <2>2, <2>3, <2>4, <2>5
<1>3. \A v \in Workers : Undisturbed(v)
  BY <1>2 DEF Undisturbed
<1> QED
  BY <1>1, <1>3, FreshAside

\* A handler that starts has the rows as they are, and new keys of its own.
LEMMA FreshReceive ==
  ASSUME TypeInv, FreshInv, NEW w \in Workers, NEW kind \in Kinds \cap Offered,
         NEW j \in Asked(kind), Receive(w, j)
  PROVE  FreshInv'
<1>1. [Next]_vars /\ UNCHANGED tables /\ LocalsOK /\ pc[w] = "idle"
  BY TypeParts DEF Receive, Next
<1>2. CASE ~Admitted(j)
  <2>1. UNCHANGED locals /\ \A v \in Workers : Undisturbed(v)
    BY <1>1, <1>2 DEF Receive, tables, locals, Undisturbed
  <2> QED
    BY <1>1, <2>1, FreshAside
<1>3. CASE Admitted(j)
  <2> DEFINE i == LookedUp(j)
             row == Fetched(j)
             step == FirstStep(j)
  <2>1. /\ job' = [job EXCEPT ![w] = i] /\ read' = [read EXCEPT ![w] = row]
        /\ pc' = [pc EXCEPT ![w] = step] /\ Race(w, Target(j))
    BY <1>3 DEF Receive
  <2>2. /\ j \in Job /\ j.kind = kind
        /\ kind \in TemplateSaves => j.template \in Rows(templates)
        /\ kind = "create_template" => j.template \in FreshTemplates
        /\ kind \in TaskSaves => j.task \in Rows(tasks)
        /\ kind \in Prints => j.task \in FreshTasks
    BY AskedTyped DEF TypeInv
  <2>3. /\ i.kind = kind /\ i.task = j.task /\ i.on = j.on
        /\ kind # "retry" => i.printer = j.printer
        /\ kind \notin Prints => i.template = j.template
    BY LookedUpTyped DEF TypeInv
  <2>4. /\ kind \in TaskSaves => row = tasks[j.task] /\ Target(j) = {j.task}
        /\ kind \in PrinterSaves => row = printers[j.printer]
        /\ kind \in TemplateSaves => row = templates[j.template]
    BY <2>2, TargetOf DEF Fetched, TaskSaves, PrinterSaves, TemplateSaves
  <2>5. step = "clear" => j.on
    BY DEF FirstStep
  <2>6. /\ kind \in TaskSaves => tasks[j.task] # None
        /\ kind \in TemplateSaves => templates[j.template] # None
        /\ kind \in Prints => tasks[j.task] = None
        /\ kind = "create_template" => templates[j.template] = None
    BY <2>2 DEF Rows, FreshTasks, FreshTemplates, Unused
  <2> HIDE DEF i, row, step
  <2>7. /\ job'[w] = i /\ read'[w] = row /\ pc'[w] = step
        /\ \A v \in Workers \ {w} : pc'[v] = pc[v] /\ job'[v] = job[v] /\ read'[v] = read[v]
    BY <1>1, <2>1 DEF LocalsOK
  <2>8. HandFresh(w)'
    <3>1. /\ kind \in TaskSaves => i.task = j.task /\ row = tasks[i.task] /\ tasks[i.task] # None
          /\ kind \in PrinterSaves => row = printers[i.printer]
          /\ kind \in TemplateSaves => row = templates[i.template] /\ templates[i.template] # None
          /\ kind \in Prints => tasks[i.task] = None
          /\ kind = "create_template" => templates[i.template] = None
      BY <2>3, <2>4, <2>6 DEF TaskSaves, PrinterSaves, TemplateSaves, Prints
    <3> QED
      BY <1>1, <2>3, <2>5, <2>7, <3>1 DEF HandFresh, tables
  <2>9. \A v \in Workers \ {w} : HandFresh(v)'
    <3> SUFFICES ASSUME NEW v \in Workers \ {w} PROVE HandFresh(v)'
      OBVIOUS
    <3>1. CASE pc[v] # "idle"
      BY <1>1, <2>7, <3>1, FreshKept DEF Undisturbed, tables
    <3>2. CASE pc[v] = "idle"
      BY <2>7, <3>2 DEF HandFresh
    <3> QED
      BY <3>1, <3>2
  <2>10. \A v \in Workers \ {w} : Apart(v, w)' /\ Apart(w, v)'
    <3> SUFFICES ASSUME NEW v \in Workers \ {w}, pc[v] # "idle"
                 PROVE  Apart(v, w)' /\ Apart(w, v)'
      BY <2>7 DEF Apart
    <3>1. job[v] # None
      BY NoneAssumption DEF TypeInv, HandlersOK, HandlerOK, JobOK
    <3>2. kind \in Prints => job[v].task # i.task
      BY <2>2, <2>3, <3>1 DEF FreshTasks
    <3>3. kind = "create_template" => job[v].template # i.template
      BY <2>2, <2>3, <3>1 DEF FreshTemplates, Prints
    <3>4. kind \in TaskSaves /\ job[v].kind \in TaskSaves /\ job[v].task = i.task =>
            i.task \in raced'
      BY <2>1, <2>3, <2>4, RaceMarks
    <3> QED
      BY <2>3, <2>7, <3>2, <3>3, <3>4 DEF Apart
  <2>11. \A v, u \in Workers \ {w} : v # u => Apart(v, u)'
    BY <1>1, <2>7, RacedGrows DEF FreshInv, Apart
  <2> QED
    BY <2>8, <2>9, <2>10, <2>11 DEF FreshInv
<1> QED
  BY <1>2, <1>3

LEMMA InitFresh == Init => FreshInv
BY DEF Init, FreshInv, HandFresh, Apart

LEMMA FreshStep == TypeInv /\ FreshInv /\ [Next]_vars => FreshInv'
<1> SUFFICES ASSUME TypeInv, FreshInv, [Next]_vars PROVE FreshInv'
  OBVIOUS
<1>1. CASE UNCHANGED vars
  BY <1>1, FreshAside DEF vars, tables, locals, history, Undisturbed
<1>2. CASE Next
  BY <1>2, FreshReceive, FreshLocal, FreshTask, FreshPrinter, FreshTemplate, FreshRow
  DEF Next, Serve
<1> QED
  BY <1>1, <1>2

LEMMA FreshHeld == Spec => []FreshInv
BY InitFresh, FreshStep, TypeHeld, PTL DEF Spec
-----------------------------------------------------------------------------
(***************************************************************************)
(* Switches and deleted rows                                               *)
(***************************************************************************)
LEMMA SwitchStep ==
  ASSUME TypeInv, FreshInv, [Next]_vars, NEW p \in Printers \ raced',
         printers[p] # Gone, printers'[p] # Gone, printers'[p] # printers[p]
  PROVE  \E w \in Workers : /\ pc[w] = "save" /\ job[w].kind = "patch_printer"
                            /\ job[w].printer = p /\ printers'[p].auto = job[w].on
<1>1. p \in Printers /\ p \notin raced /\ printers \in [Printers -> Printer \cup {Gone}]
  BY RacedGrows DEF TypeInv, TypeOK
<1>2. CASE DeletePrinter
  <2>1. PICK q \in Rows(printers) : printers' = [printers EXCEPT ![q] = Gone]
    BY <1>2 DEF DeletePrinter
  <2> QED
    BY <1>1, <2>1
<1>3. CASE \E w \in Workers : SavePrinter(w)
  <2>1. PICK w \in Workers : SavePrinter(w)
    BY <1>3
  <2>2. /\ pc[w] = "save" /\ job[w].kind \in PrinterSaves
        /\ printers' = [printers EXCEPT ![job[w].printer] = SavedPrinter(w)]
    BY <2>1 DEF SavePrinter
  <2>3. p = job[w].printer /\ printers'[p] = SavedPrinter(w)
    BY <1>1, <2>2
  <2>4. read[w] = printers[p]
    BY <1>1, <2>2, <2>3 DEF FreshInv, HandFresh
  <2>5. job[w].kind # "status"
    BY <2>3, <2>4 DEF SavedPrinter
  <2>6. job[w].kind = "patch_printer" /\ printers'[p] = [auto |-> job[w].on]
    BY <2>2, <2>3, <2>5 DEF SavedPrinter, PrinterSaves
  <2>7. printers'[p].auto = job[w].on
    BY <2>6
  <2> QED
    BY <2>2, <2>3, <2>6, <2>7
<1> QED
  BY <1>2, <1>3
  DEF Next, Serve, Receive, NextPrinter, Send, Poll, Record, Log, SaveTask, Clear, SaveTemplate,
      CreateTask, DeleteTask, DeleteTemplate, Fail, vars, tables

\* Automatic printing is turned on or off by those who ask for it and by nothing else,
\* though a status request writes back the whole printer (status, printing/api.py).
THEOREM SwitchesAsked == Spec => SwitchesAreAsked
<1>1. TypeInv /\ FreshInv /\ [Next]_vars
        => [\A p \in Printers \ raced' :
              printers[p] # Gone /\ printers'[p] # Gone /\ printers'[p] # printers[p]
                => \E w \in Workers : /\ pc[w] = "save" /\ job[w].kind = "patch_printer"
                                      /\ job[w].printer = p
                                      /\ printers'[p].auto = job[w].on]_vars
  BY SwitchStep
<1> QED
  BY <1>1, TypeHeld, FreshHeld, PTL DEF Spec, SwitchesAreAsked

LEMMA DeletedStep ==
  ASSUME TypeInv, FreshInv, [Next]_vars
  PROVE  /\ \A p \in Printers \ raced' : printers[p] = Gone => printers'[p] = Gone
         /\ \A k \in Templates \ raced' : templates[k] = Gone => templates'[k] = Gone
         /\ \A t \in Tasks \ raced' : tasks[t] = Gone => tasks'[t] = Gone
<1>1. /\ raced \subseteq raced' /\ TypeOK
      /\ \A r \in Printer \cup Template \cup Task : r # Gone
      /\ None # Gone
  BY RacedGrows, NoneAssumption DEF TypeInv
<1>2. ASSUME NEW p \in Printers \ raced', printers[p] = Gone
      PROVE  printers'[p] = Gone
  <2>1. CASE DeletePrinter
    BY <1>1, <1>2, <2>1 DEF DeletePrinter, TypeOK
  <2>2. CASE \E w \in Workers : SavePrinter(w)
    <3>1. PICK w \in Workers : SavePrinter(w)
      BY <2>2
    <3>2. /\ pc[w] = "save" /\ job[w].kind \in PrinterSaves
          /\ printers' = [printers EXCEPT ![job[w].printer] = SavedPrinter(w)]
      BY <3>1 DEF SavePrinter
    <3>3. read[w] \in Printer
      BY <3>2 DEF TypeInv, HandlersOK, HandlerOK, JobOK
    <3>4. p # job[w].printer
      BY <1>1, <1>2, <3>2, <3>3 DEF FreshInv, HandFresh
    <3> QED
      BY <1>1, <1>2, <3>2, <3>4 DEF TypeOK
  <2> QED
    BY <1>2, <2>1, <2>2
    DEF Next, Serve, Receive, NextPrinter, Send, Poll, Record, Log, SaveTask, Clear, SaveTemplate,
        CreateTask, DeleteTask, DeleteTemplate, Fail, vars, tables
<1>3. ASSUME NEW k \in Templates \ raced', templates[k] = Gone
      PROVE  templates'[k] = Gone
  <2>1. k \notin Rows(templates) /\ k \in Templates
    BY <1>3 DEF Rows
  <2>2. CASE DeleteTemplate
    BY <1>1, <1>3, <2>2 DEF DeleteTemplate, TypeOK
  <2>3. CASE \E w \in Workers : Clear(w)
    BY <1>3, <2>1, <2>3, ClearedTyped DEF Clear, TypeInv
  <2>4. CASE \E w \in Workers : SaveTemplate(w)
    <3>1. PICK w \in Workers : SaveTemplate(w)
      BY <2>4
    <3> DEFINE before == IF job[w].kind = "set_default" THEN Cleared ELSE templates
               row == SavedTemplate(w)
               key == job[w].template
    <3>2. /\ pc[w] = "save" /\ job[w].kind \in TemplateSaves \cup {"create_template"}
          /\ templates' = templates \/ templates' = [before EXCEPT ![key] = row]
      BY <3>1 DEF SaveTemplate
    <3>3. before[k] = Gone /\ before \in [Templates -> Template \cup {None, Gone}]
      BY <1>1, <1>3, <2>1, ClearedTyped DEF TypeOK
    <3>4. k # key
      <4>1. HandFresh(w) /\ JobOK(job[w], read[w])
        BY <3>2 DEF FreshInv, TypeInv, HandlersOK, HandlerOK
      <4>2. job[w].kind \in TemplateSaves => read[w] \in Template /\ (key \in raced \/ read[w] = templates[key])
        BY <3>2, <4>1 DEF HandFresh, JobOK
      <4>3. job[w].kind = "create_template" => templates[key] = None
        BY <3>2, <4>1 DEF HandFresh
      <4> QED
        BY <1>1, <1>3, <3>2, <4>2, <4>3
    <3> HIDE DEF before, row, key
    <3>5. templates'[k] = templates[k] \/ templates'[k] = before[k]
      BY <3>2, <3>3, <3>4
    <3> QED
      BY <1>3, <3>3, <3>5
  <2> QED
    BY <1>3, <2>2, <2>3, <2>4
    DEF Next, Serve, Receive, NextPrinter, Send, Poll, Record, Log, SaveTask, SavePrinter,
        CreateTask, DeleteTask, DeletePrinter, Fail, vars, tables
<1>4. ASSUME NEW t \in Tasks \ raced', tasks[t] = Gone
      PROVE  tasks'[t] = Gone
  <2>1. CASE CreateTask
    <3>1. PICK u \in FreshTasks, p \in Rows(printers), k \in Rows(templates), s \in Statuses :
            tasks' = [tasks EXCEPT ![u] = [printer |-> p, template |-> k, status |-> s]]
      BY <2>1 DEF CreateTask
    <3>2. u # t
      BY <1>1, <1>4 DEF FreshTasks, Unused
    <3> QED
      BY <1>1, <1>4, <3>1, <3>2 DEF TypeOK
  <2>2. CASE DeleteTask \/ DeletePrinter \/ DeleteTemplate
    <3>1. PICK keys : Cascade(keys)
      BY <2>2 DEF DeleteTask, DeletePrinter, DeleteTemplate
    <3> QED
      BY <1>4, <3>1 DEF Cascade
  <2>3. CASE \E w \in Workers : Record(w)
    <3>1. PICK w \in Workers : Record(w)
      BY <2>3
    <3>2. pc[w] = "record" /\ job[w].kind \in Prints /\ HandFresh(w)
      BY <3>1 DEF Record, FreshInv, TypeInv, HandlersOK, HandlerOK, StepFits
    <3>3. job[w].task # t
      BY <1>1, <1>4, <3>2 DEF HandFresh
    <3>4. tasks' = tasks \/ \E row : tasks' = [tasks EXCEPT ![job[w].task] = row]
      BY <3>1 DEF Record
    <3> QED
      BY <1>1, <1>4, <3>3, <3>4 DEF TypeOK
  <2>4. CASE \E w \in Workers : SaveTask(w)
    <3>1. PICK w \in Workers : SaveTask(w)
      BY <2>4
    <3>2. /\ pc[w] = "save" /\ job[w].kind \in TaskSaves
          /\ tasks' = tasks \/ tasks' = [tasks EXCEPT ![job[w].task] = SavedTask(w)]
      BY <3>1 DEF SaveTask
    <3>3. read[w] \in Task /\ HandFresh(w)
      BY <3>2 DEF FreshInv, TypeInv, HandlersOK, HandlerOK, JobOK
    <3>4. job[w].task # t
      BY <1>1, <1>4, <3>2, <3>3 DEF HandFresh
    <3> QED
      BY <1>1, <1>4, <3>2, <3>4 DEF TypeOK
  <2> QED
    BY <1>4, <2>1, <2>2, <2>3, <2>4
    DEF Next, Serve, Receive, NextPrinter, Send, Poll, Log, SavePrinter, Clear, SaveTemplate,
        Fail, vars, tables
<1> QED
  BY <1>2, <1>3, <1>4

\* A deleted printer, template or task comes back only with a handler that had it while
\* it was deleted: save() inserts what it does not find (printing/api.py).
THEOREM DeletedStays == Spec => DeletedStaysDeleted
<1>1. TypeInv /\ FreshInv /\ [Next]_vars
        => [/\ \A p \in Printers \ raced' : printers[p] = Gone => printers'[p] = Gone
            /\ \A k \in Templates \ raced' : templates[k] = Gone => templates'[k] = Gone
            /\ \A t \in Tasks \ raced' : tasks[t] = Gone => tasks'[t] = Gone]_vars
  BY DeletedStep
<1> QED
  BY <1>1, TypeHeld, FreshHeld, PTL DEF Spec, DeletedStaysDeleted
-----------------------------------------------------------------------------
(***************************************************************************)
(* Printed once                                                            *)
(***************************************************************************)
Suspect == raced \cup doubted \cup edited
NoPaper(t) == \A p \in Printers : paper[p][t] = 0
Saving(t) == \E w \in Workers : pc[w] = "save" /\ job[w].kind = "retry" /\ job[w].task = t

\* A task that may be printed again was not printed.
RowOnce(t) ==
  t \notin Suspect =>
    /\ \A p \in Printers : paper[p][t] <= 1
    /\ t \in Rows(tasks) /\ tasks[t].status # "completed" /\ ~Saving(t) => NoPaper(t)

\* Nor was one a handler is about to print, or to write down as failed.
Unprinted(w) ==
  \/ pc[w] = "send" /\ job[w].kind \in Prints \cup {"retry"}
  \/ pc[w] = "record" /\ ~ok[w]
  \/ pc[w] = "save" /\ job[w].kind = "retry" /\ ~ok[w]

HandOnce(w) ==
  pc[w] # "idle" =>
    /\ job[w].kind \notin Prints \cup TaskSaves => job[w].task = None
    /\ Unprinted(w) /\ job[w].task \notin Suspect => NoPaper(job[w].task)

OnceInv == (\A t \in Tasks : RowOnce(t)) /\ \A w \in Workers : HandOnce(w)

LEMMA SuspectGrows ==
  ASSUME [Next]_vars
  PROVE  Suspect \subseteq Suspect'
<1>1. doubted \subseteq doubted'
  BY ZenonT(30) DEF Next, Serve, Receive, NextPrinter, Send, Poll, Record, Log, SaveTask, SavePrinter, Clear,
         SaveTemplate, CreateTask, DeleteTask, DeletePrinter, DeleteTemplate, Fail, vars, history
<1> QED
  BY <1>1, RacedGrows, EditedGrows DEF Suspect

\* What a handler had not printed it has not printed while others print other tasks.
LEMMA HandOnceKept ==
  ASSUME TypeInv, OnceInv, [Next]_vars, NEW v \in Workers, pc[v] # "idle",
         pc'[v] = pc[v], job'[v] = job[v], ok'[v] = ok[v],
         \A t \in Tasks : t = job[v].task /\ Unprinted(v) /\ t \notin Suspect' /\ NoPaper(t) => NoPaper(t)'
  PROVE  HandOnce(v)'
<1>1. HandOnce(v) /\ Suspect \subseteq Suspect'
  BY SuspectGrows DEF OnceInv
<1>2. Unprinted(v)' => Unprinted(v)
  BY DEF Unprinted
<1>3. CASE Unprinted(v)
  <2>1. job[v].kind \in Prints \cup TaskSaves
    BY <1>3 DEF Unprinted, TypeInv, HandlersOK, HandlerOK, StepFits, TaskSaves
  <2>2. PICK t \in Tasks : t = job[v].task
    BY <2>1 DEF TypeInv, HandlersOK, HandlerOK, JobOK
  <2>3. t \notin Suspect' => NoPaper(t)'
    BY <1>1, <1>3, <2>2 DEF HandOnce
  <2>4. job'[v].task = t
    BY <2>2
  <2> QED
    BY <2>1, <2>3, <2>4 DEF HandOnce, NoPaper
<1>4. CASE ~Unprinted(v)
  BY <1>1, <1>2, <1>4 DEF HandOnce
<1> QED
  BY <1>3, <1>4

\* No paper moves: the rows that change must have a reason.
LEMMA RowOnceKept ==
  ASSUME TypeInv, OnceInv, [Next]_vars, paper' = paper, NEW t \in Tasks,
         \/ t \in Suspect'
         \/ NoPaper(t)
         \/ tasks'[t] = Gone \/ tasks'[t].status = "completed"
         \/ tasks'[t] = tasks[t] /\ (Saving(t) => Saving(t)')
  PROVE  RowOnce(t)'
<1>1. RowOnce(t) /\ Suspect \subseteq Suspect'
  BY SuspectGrows DEF OnceInv
<1>2. CASE t \in Suspect'
  BY <1>2 DEF RowOnce
<1>3. CASE t \notin Suspect'
  <2>1. \A p \in Printers : paper'[p][t] <= 1
    BY <1>1, <1>3 DEF RowOnce
  <2>2. NoPaper(t)' <=> NoPaper(t)
    BY DEF NoPaper
  <2>3. CASE NoPaper(t)
    BY <2>1, <2>2, <2>3 DEF RowOnce
  <2>4. CASE tasks'[t] = Gone
    BY <2>1, <2>4 DEF RowOnce, Rows
  <2>5. CASE tasks'[t].status = "completed"
    BY <2>1, <2>5 DEF RowOnce
  <2>6. CASE tasks'[t] = tasks[t] /\ (Saving(t) => Saving(t)')
    <3>1. t \in Rows(tasks)' => t \in Rows(tasks)
      BY <2>6 DEF Rows, TypeInv, TypeOK
    <3>2. t \in Rows(tasks)' /\ tasks'[t].status # "completed" /\ ~Saving(t)' => NoPaper(t)'
      BY <1>1, <1>3, <2>2, <2>6, <3>1 DEF RowOnce
    <3> QED
      BY <2>1, <3>2 DEF RowOnce
  <2> QED
    BY <1>3, <2>3, <2>4, <2>5, <2>6
<1> QED
  BY <1>2, <1>3

LEMMA SavingKept ==
  ASSUME NEW t, NEW w \in Workers, pc[w] # "save" \/ job[w].kind # "retry" \/ job[w].task # t,
         \A v \in Workers \ {w} : pc'[v] = pc[v] /\ job'[v] = job[v]
  PROVE  Saving(t) => Saving(t)'
BY DEF Saving

RowSettled(t) ==
  \/ t \in Suspect'
  \/ NoPaper(t)
  \/ tasks'[t] = Gone \/ tasks'[t].status = "completed"
  \/ tasks'[t] = tasks[t] /\ (Saving(t) => Saving(t)')

LEMMA OnceAfter ==
  ASSUME TypeInv, OnceInv, [Next]_vars, paper' = paper, NEW w \in Workers, HandOnce(w)',
         \A v \in Workers \ {w} : pc'[v] = pc[v] /\ job'[v] = job[v] /\ ok'[v] = ok[v],
         \A t \in Tasks : RowSettled(t)
  PROVE  OnceInv'
<1>1. \A t \in Tasks : RowOnce(t)'
  BY RowOnceKept DEF RowSettled
<1>2. ASSUME NEW v \in Workers \ {w} PROVE HandOnce(v)'
  <2>1. \A t : NoPaper(t) => NoPaper(t)'
    BY DEF NoPaper
  <2>2. CASE pc[v] = "idle"
    BY <2>2 DEF HandOnce
  <2>3. CASE pc[v] # "idle"
    BY <2>1, <2>3, HandOnceKept
  <2> QED
    BY <2>2, <2>3
<1> QED
  BY <1>1, <1>2 DEF OnceInv

LEMMA OnceAside ==
  ASSUME TypeInv, OnceInv, [Next]_vars, UNCHANGED <<paper, locals>>,
         \A t \in Tasks : NoPaper(t) \/ tasks'[t] = Gone \/ tasks'[t] = tasks[t]
  PROVE  OnceInv'
<1>1. \A t \in Tasks : RowOnce(t)'
  <2>1. \A t : Saving(t) => Saving(t)'
    BY DEF Saving, locals
  <2> QED
    BY <2>1, RowOnceKept
<1>2. ASSUME NEW v \in Workers PROVE HandOnce(v)'
  <2>1. \A t : NoPaper(t) => NoPaper(t)'
    BY DEF NoPaper
  <2>2. CASE pc[v] = "idle"
    BY <2>2 DEF HandOnce, locals
  <2>3. CASE pc[v] # "idle"
    BY <2>1, <2>3, HandOnceKept DEF locals
  <2> QED
    BY <2>2, <2>3
<1> QED
  BY <1>1, <1>2 DEF OnceInv

LEMMA OnceReceive ==
  ASSUME TypeInv, OnceInv, FreshInv, NEW w \in Workers, NEW kind \in Kinds \cap Offered,
         NEW j \in Asked(kind), Receive(w, j)
  PROVE  OnceInv'
<1>1. /\ [Next]_vars /\ UNCHANGED <<tasks, paper, doubted, edited>> /\ LocalsOK
      /\ pc[w] = "idle"
  BY TypeParts DEF Receive, Next, tables
<1>2. CASE ~Admitted(j)
  BY <1>1, <1>2, OnceAside DEF Receive
<1>3. CASE Admitted(j)
  <2> DEFINE i == LookedUp(j)
             step == FirstStep(j)
  <2>1. /\ job' = [job EXCEPT ![w] = i] /\ pc' = [pc EXCEPT ![w] = step] /\ ok' = ok
        /\ Race(w, Target(j))
    BY <1>3 DEF Receive
  <2>2. /\ j.kind = kind /\ i.kind = kind /\ i.task = j.task
        /\ kind \in TaskSaves => j.task \in Rows(tasks)
        /\ kind \in Prints => j.task \in FreshTasks
        /\ kind \notin Prints \cup TaskSaves => j.task = None
    BY AskedTyped, LookedUpTyped DEF TypeInv
  <2>3. /\ step = "save" => kind # "retry"
        /\ step # "record"
    BY <2>2 DEF FirstStep
  <2>4. kind = "retry" => tasks[j.task].status # "completed"
    BY <1>3, <2>2 DEF Admitted, Retriable, Prints
  <2> HIDE DEF i, step
  <2>5. /\ job'[w] = i /\ pc'[w] = step
        /\ \A v \in Workers \ {w} : pc'[v] = pc[v] /\ job'[v] = job[v] /\ ok'[v] = ok[v]
    BY <1>1, <2>1 DEF LocalsOK
  <2>6. \A t \in Tasks : RowSettled(t)
    BY <1>1, <2>5, SavingKept DEF RowSettled
  <2>7. HandOnce(w)'
    <3>1. kind \in Prints => NoPaper(i.task)
      BY <2>2 DEF FreshTasks, NoPaper
    <3>2. ASSUME kind = "retry", i.task \notin Suspect' PROVE NoPaper(i.task)
      <4>1. PICK t \in Tasks : t = i.task /\ t \in Rows(tasks) /\ tasks[t].status # "completed"
        BY <2>2, <2>4, <3>2, RowsTyped DEF TypeInv, TaskSaves
      <4>2. ~Saving(t)
        <5>1. SUFFICES ASSUME NEW v \in Workers, pc[v] = "save", job[v].kind = "retry",
                              job[v].task = t
                       PROVE  FALSE
          BY DEF Saving
        <5>2. v \in Workers \ {w}
          BY <1>1, <5>1
        <5>3. Target(j) = {t}
          BY <2>2, <3>2, <4>1, TargetOf DEF TaskSaves
        <5>4. t \in raced'
          BY <2>1, <5>1, <5>2, <5>3, RaceMarks DEF TaskSaves
        <5> QED
          BY <3>2, <4>1, <5>4 DEF Suspect
      <4>3. t \notin Suspect
        BY <1>1, <3>2, <4>1, SuspectGrows
      <4> QED
        BY <4>1, <4>2, <4>3 DEF OnceInv, RowOnce
    <3>3. Unprinted(w)' => kind \in Prints \cup {"retry"}
      BY <2>2, <2>3, <2>5 DEF Unprinted
    <3>4. NoPaper(i.task) => \A p \in Printers : paper'[p][i.task] = 0
      BY <1>1 DEF NoPaper
    <3> QED
      BY <2>2, <2>5, <3>1, <3>2, <3>3, <3>4 DEF HandOnce, NoPaper
  <2> QED
    BY <1>1, <2>5, <2>6, <2>7, OnceAfter
<1> QED
  BY <1>2, <1>3

LEMMA OnceSend ==
  ASSUME TypeInv, OnceInv, FreshInv, NEW w \in Workers, Send(w)
  PROVE  OnceInv'
<1>1. /\ [Next]_vars /\ LocalsOK /\ HandlerOK(w) /\ pc[w] = "send"
      /\ pc' = [pc EXCEPT ![w] = AfterSend(job[w].kind)]
      /\ UNCHANGED <<job, tasks, raced, edited>> /\ HandOnce(w) /\ HandFresh(w)
  BY TypeParts DEF Send, Next, Serve, tables, TypeInv, HandlersOK, OnceInv, FreshInv
<1>2. PICK answer \in Answers :
        LET out == answer # "refused" /\ ~Blank(job[w]) IN
        /\ ok' = [ok EXCEPT ![w] = answer = "printed"]
        /\ paper' = IF out THEN [paper EXCEPT ![job[w].printer][job[w].task] = @ + 1]
                    ELSE paper
        /\ doubted' = IF out /\ answer = "lost" THEN doubted \cup {job[w].task} ELSE doubted
  BY DEF Send
<1>3. /\ pc'[w] = AfterSend(job[w].kind) /\ (ok'[w] <=> answer = "printed")
      /\ \A v \in Workers \ {w} : pc'[v] = pc[v] /\ job'[v] = job[v] /\ ok'[v] = ok[v]
  BY <1>1, <1>2 DEF LocalsOK
<1>4. PICK s \in Subjects, q \in Printers : s = job[w].task /\ q = job[w].printer
  BY <1>1, PrintSubject
<1>5. paper \in [Printers -> [Subjects -> Nat]]
  BY DEF TypeInv, TypeOK
<1>6. \A t \in Tasks : t # s => \A p \in Printers : paper'[p][t] = paper[p][t]
  <2>1. paper' = paper \/ paper' = [paper EXCEPT ![q][s] = @ + 1]
    BY <1>2, <1>4
  <2> QED
    BY <1>5, <2>1 DEF Subjects
<1>7. s \in Tasks => job[w].kind \in Prints \cup {"retry"}
  <2>1. None \notin Tasks
    BY NoneAssumption
  <2> QED
    BY <1>1, <1>4, <2>1 DEF HandOnce, HandlerOK, StepFits, TaskSaves
<1>8. s \in Tasks /\ s \notin Suspect' => NoPaper(s)
  <2>1. s \in Tasks => Unprinted(w)
    BY <1>1, <1>7 DEF Unprinted
  <2> QED
    BY <1>1, <1>4, <2>1, SuspectGrows DEF HandOnce
<1>9. \A t \in Tasks : RowOnce(t)'
  <2> SUFFICES ASSUME NEW t \in Tasks, t \notin Suspect' PROVE RowOnce(t)'
    BY DEF RowOnce
  <2>1. RowOnce(t) /\ t \notin Suspect
    BY <1>1, SuspectGrows DEF OnceInv
  <2>2. CASE t # s
    <3>1. Saving(t) => Saving(t)'
      BY <1>1, <1>3, SavingKept
    <3>2. NoPaper(t) => NoPaper(t)'
      BY <1>6, <2>2 DEF NoPaper
    <3>3. \A p \in Printers : paper'[p][t] <= 1
      BY <1>6, <2>1, <2>2 DEF RowOnce
    <3> QED
      BY <1>1, <2>1, <3>1, <3>2, <3>3 DEF RowOnce, Rows
  <2>3. CASE t = s
    <3>1. \A p \in Printers : paper'[p][t] <= 1
      <4>1. \A p \in Printers : paper[p][t] = 0
        BY <1>8, <2>3 DEF NoPaper
      <4>2. paper' = paper \/ paper' = [paper EXCEPT ![q][t] = @ + 1]
        BY <1>2, <1>4, <2>3
      <4>3. t \in Subjects
        BY DEF Subjects
      <4> QED
        BY <1>5, <4>1, <4>2, <4>3
    <3>2. ~(t \in Rows(tasks)' /\ ~Saving(t)')
      <4>1. CASE job[w].kind = "retry"
        <5>1. pc'[w] = "save" /\ job'[w].kind = "retry" /\ job'[w].task = t
          BY <1>1, <1>3, <1>4, <2>3, <4>1 DEF AfterSend, Prints
        <5> QED
          BY <5>1 DEF Saving
      <4>2. CASE job[w].kind \in Prints
        BY <1>1, <1>4, <2>3, <4>2 DEF HandFresh, Rows
      <4> QED
        BY <1>7, <2>3, <4>1, <4>2
    <3> QED
      BY <3>1, <3>2 DEF RowOnce
  <2> QED
    BY <2>2, <2>3
<1>10. HandOnce(w)'
  <2>1. job'[w].kind \notin Prints \cup TaskSaves => job'[w].task = None
    BY <1>1 DEF HandOnce
  <2>2. ASSUME Unprinted(w)', s \notin Suspect' PROVE NoPaper(s)'
    <3>1. /\ job[w].kind \in Prints \cup {"retry"} /\ ~ok'[w]
      BY <1>1, <1>3, <2>2 DEF Unprinted, AfterSend, HandlerOK, StepFits
    <3>2. s \in Tasks
      BY <1>1, <1>4, <3>1 DEF HandlerOK, JobOK, TaskSaves
    <3>3. ~(answer # "refused" /\ ~Blank(job[w]))
      BY <1>2, <1>3, <1>4, <2>2, <3>1 DEF Answers, Suspect
    <3>4. paper' = paper
      BY <1>2, <3>3
    <3> QED
      BY <1>8, <2>2, <3>2, <3>4 DEF NoPaper
  <2>3. job'[w].task = s
    BY <1>1, <1>4
  <2> QED
    BY <2>1, <2>2, <2>3 DEF HandOnce, NoPaper
<1>11. ASSUME NEW v \in Workers \ {w} PROVE HandOnce(v)'
  <2>1. CASE pc[v] = "idle"
    BY <1>3, <2>1 DEF HandOnce
  <2>2. CASE pc[v] # "idle"
    <3>1. ASSUME NEW t \in Tasks, t = job[v].task, Unprinted(v), t \notin Suspect', NoPaper(t)
          PROVE  NoPaper(t)'
      <4>1. CASE t # s
        BY <1>6, <3>1, <4>1 DEF NoPaper
      <4>2. CASE t = s
        <5>1. /\ Apart(v, w) /\ HandFresh(v) /\ raced \subseteq raced'
              /\ StepFits(pc[v], job[v].kind)
          BY <1>1, <2>2, RacedGrows DEF FreshInv, TypeInv, HandlersOK, HandlerOK
        <5>2. /\ job[v].kind \in Prints /\ pc[v] \in {"send", "record"}
              \/ job[v].kind = "retry"
          BY <3>1, <5>1 DEF Unprinted, StepFits
        <5>3. job[w].kind \in Prints \cup {"retry"} /\ t \notin raced'
          BY <1>7, <3>1, <4>2 DEF Suspect
        <5>4. CASE job[v].kind \in Prints /\ job[w].kind \in Prints
          BY <1>1, <1>4, <2>2, <3>1, <4>2, <5>1, <5>4 DEF Apart
        <5>5. CASE job[v].kind = "retry" /\ job[w].kind = "retry"
          BY <1>1, <1>4, <2>2, <3>1, <4>2, <5>1, <5>3, <5>5 DEF Apart, TaskSaves
        <5>6. CASE job[v].kind \in Prints /\ job[w].kind = "retry"
          <6>1. pc[v] \in {"send", "record"}
            BY <5>2, <5>6 DEF Prints
          <6> QED
            BY <1>1, <1>4, <2>2, <3>1, <4>2, <5>1, <5>6, <6>1 DEF HandFresh, TaskSaves
        <5>7. CASE job[v].kind = "retry" /\ job[w].kind \in Prints
          BY <1>1, <1>4, <2>2, <3>1, <4>2, <5>1, <5>7 DEF HandFresh, TaskSaves
        <5> QED
          BY <5>2, <5>3, <5>4, <5>5, <5>6, <5>7
      <4> QED
        BY <4>1, <4>2
    <3> QED
      BY <1>1, <1>3, <2>2, <3>1, HandOnceKept
  <2> QED
    BY <2>1, <2>2
<1> QED
  BY <1>9, <1>10, <1>11 DEF OnceInv

\* Steps that neither print nor save a task.
LEMMA OncePlain ==
  ASSUME TypeInv, OnceInv, NEW w \in Workers,
         \/ NextPrinter(w) \/ Poll(w) \/ Log(w) \/ SavePrinter(w) \/ Clear(w) \/ SaveTemplate(w)
  PROVE  OnceInv'
<1>1. /\ [Next]_vars /\ LocalsOK /\ HandlerOK(w) /\ HandOnce(w) /\ UNCHANGED <<tasks, paper>>
  BY TypeParts
  DEF NextPrinter, Poll, Log, SavePrinter, Clear, SaveTemplate, Next, Serve, tables, TypeInv,
      HandlersOK, OnceInv
<1>2. pc[w] # "save" \/ job[w].kind # "retry"
  BY DEF NextPrinter, Poll, Log, SavePrinter, Clear, SaveTemplate, PrinterSaves, TemplateSaves
<1>3. /\ HandOnce(w)'
      /\ \A v \in Workers \ {w} : pc'[v] = pc[v] /\ job'[v] = job[v] /\ ok'[v] = ok[v]
  <2>1. CASE Finish(w)
    BY <1>1, <2>1, FinishLocals DEF HandOnce
  <2>2. CASE ~Finish(w) /\ NextPrinter(w)
    <3>1. PICK p \in todo[w] : /\ job' = [job EXCEPT ![w] = ForPrinter(@, p)]
                              /\ pc' = [pc EXCEPT ![w] = "send"] /\ UNCHANGED <<read, ok>>
      BY <2>2 DEF NextPrinter
    <3>2. /\ pc[w] # "idle" /\ job[w] \in Job /\ job[w].kind = "auto" /\ p \in Printers
      BY <1>1, <2>2 DEF NextPrinter, HandlerOK, StepFits, JobOK, LocalsOK
    <3>3. ForPrinter(job[w], p).kind = "auto" /\ ForPrinter(job[w], p).task = job[w].task
      BY <3>2, ForPrinterTyped DEF TypeInv
    <3>4. job[w].task = None
      BY <1>1, <3>2 DEF HandOnce, Prints, TaskSaves
    <3>5. /\ pc'[w] = "send" /\ job'[w].kind = "auto" /\ job'[w].task = None
          /\ \A v \in Workers \ {w} : pc'[v] = pc[v] /\ job'[v] = job[v] /\ ok'[v] = ok[v]
      BY <1>1, <3>1, <3>3, <3>4 DEF LocalsOK
    <3> QED
      BY <3>5 DEF HandOnce, Unprinted, Prints
  <2>3. CASE ~Finish(w) /\ ~NextPrinter(w)
    <3>1. /\ UNCHANGED <<job, ok>> /\ pc[w] # "idle"
          /\ \/ pc' = [pc EXCEPT ![w] = "save"] /\ pc[w] \in {"poll", "clear"}
             \/ pc' = [pc EXCEPT ![w] = "next"] /\ pc[w] = "log"
      BY <2>3 DEF Poll, Log, SavePrinter, Clear, SaveTemplate
    <3>2. pc[w] \in {"poll", "clear"} => job[w].kind # "retry"
      BY <1>1 DEF HandlerOK, StepFits
    <3>3. /\ job'[w] = job[w] /\ pc'[w] \in {"save", "next"}
          /\ pc'[w] = "save" => job[w].kind # "retry"
          /\ \A v \in Workers \ {w} : pc'[v] = pc[v] /\ job'[v] = job[v] /\ ok'[v] = ok[v]
      BY <1>1, <3>1, <3>2 DEF LocalsOK
    <3> QED
      BY <1>1, <3>1, <3>3 DEF HandOnce, Unprinted
  <2> QED
    BY <2>1, <2>2, <2>3
<1>4. \A t \in Tasks : RowSettled(t)
  BY <1>1, <1>2, <1>3, SavingKept DEF RowSettled
<1> QED
  BY <1>1, <1>3, <1>4, OnceAfter

LEMMA OnceFail ==
  ASSUME TypeInv, OnceInv, NEW w \in Workers, Fail(w)
  PROVE  OnceInv'
<1>1. [Next]_vars /\ LocalsOK /\ UNCHANGED <<tasks, paper>> /\ Finish(w)
  BY TypeParts DEF Fail, Next, tables
<1>2. /\ HandOnce(w)'
      /\ \A v \in Workers \ {w} : pc'[v] = pc[v] /\ job'[v] = job[v] /\ ok'[v] = ok[v]
  BY <1>1, FinishLocals DEF HandOnce
<1>3. ASSUME NEW t \in Tasks PROVE RowSettled(t)
  <2>1. CASE pc[w] = "save" /\ job[w].kind = "retry" /\ job[w].task = t
    BY <2>1 DEF Fail, Suspect, RowSettled
  <2>2. CASE ~(pc[w] = "save" /\ job[w].kind = "retry" /\ job[w].task = t)
    BY <1>1, <1>2, <2>2, SavingKept DEF RowSettled
  <2> QED
    BY <2>1, <2>2
<1> QED
  BY <1>1, <1>2, <1>3, OnceAfter

\* The row of a print says whether it came out, if an answer came.
LEMMA OnceRecord ==
  ASSUME TypeInv, OnceInv, NEW w \in Workers, Record(w)
  PROVE  OnceInv'
<1>1. /\ [Next]_vars /\ LocalsOK /\ paper' = paper /\ HandOnce(w) /\ HandlerOK(w)
      /\ pc[w] = "record"
  BY TypeParts DEF Record, Next, Serve, OnceInv, TypeInv, HandlersOK
<1>2. job[w].kind \in Prints /\ job[w].task \in Tasks
  BY <1>1 DEF HandlerOK, StepFits, JobOK
<1>3. /\ HandOnce(w)'
      /\ \A v \in Workers \ {w} : pc'[v] = pc[v] /\ job'[v] = job[v] /\ ok'[v] = ok[v]
  <2>1. CASE Finish(w)
    BY <1>1, <2>1, FinishLocals DEF HandOnce
  <2>2. CASE ~Finish(w)
    <3>1. pc' = [pc EXCEPT ![w] = "log"] /\ UNCHANGED <<job, ok>>
      BY <2>2 DEF Record
    <3>2. /\ pc'[w] = "log" /\ job'[w] = job[w]
          /\ \A v \in Workers \ {w} : pc'[v] = pc[v] /\ job'[v] = job[v] /\ ok'[v] = ok[v]
      BY <1>1, <3>1 DEF LocalsOK
    <3> QED
      BY <1>2, <3>2 DEF HandOnce, Unprinted
  <2> QED
    BY <2>1, <2>2
<1>4. ASSUME NEW t \in Tasks PROVE RowSettled(t)
  <2>1. Saving(t) => Saving(t)'
    BY <1>1, <1>3, SavingKept
  <2>2. CASE tasks' = tasks
    BY <2>1, <2>2 DEF RowSettled
  <2>3. CASE tasks' # tasks
    <3>1. tasks' = [tasks EXCEPT ![job[w].task] =
                     [printer |-> job[w].printer, template |-> job[w].template,
                      status |-> Outcome(w)]]
      BY <2>3 DEF Record
    <3>2. CASE t # job[w].task
      <4>1. tasks'[t] = tasks[t]
        BY <3>1, <3>2 DEF TypeInv, TypeOK
      <4> QED
        BY <2>1, <4>1 DEF RowSettled
    <3>3. CASE t = job[w].task
      <4>1. tasks'[t].status = Outcome(w)
        BY <3>1, <3>3 DEF TypeInv, TypeOK
      <4>2. CASE ok[w]
        BY <4>1, <4>2 DEF Outcome, RowSettled
      <4>3. CASE ~ok[w]
        <5>1. t \notin Suspect => NoPaper(t)
          BY <1>1, <3>3, <4>3 DEF HandOnce, Unprinted
        <5>2. t \in Suspect => t \in Suspect'
          BY <1>1, SuspectGrows
        <5> QED
          BY <5>1, <5>2 DEF RowSettled
      <4> QED
        BY <4>2, <4>3
    <3> QED
      BY <3>2, <3>3
  <2> QED
    BY <2>2, <2>3
<1> QED
  BY <1>1, <1>3, <1>4, OnceAfter

\* A retry that is saved says so too, over a row nobody else had.
LEMMA OnceSave ==
  ASSUME TypeInv, OnceInv, FreshInv, NEW w \in Workers, SaveTask(w)
  PROVE  OnceInv'
<1>1. /\ [Next]_vars /\ LocalsOK /\ paper' = paper /\ HandOnce(w) /\ HandFresh(w)
      /\ HandlerOK(w) /\ pc[w] = "save" /\ job[w].kind \in TaskSaves /\ Finish(w)
  BY TypeParts DEF SaveTask, Next, Serve, OnceInv, FreshInv, TypeInv, HandlersOK
<1>2. /\ HandOnce(w)'
      /\ \A v \in Workers \ {w} : pc'[v] = pc[v] /\ job'[v] = job[v] /\ ok'[v] = ok[v]
  BY <1>1, FinishLocals DEF HandOnce
<1>3. /\ SavedTask(w) \in Task /\ job[w].task \in Tasks /\ read[w] \in Task
      /\ job[w].kind = "retry" => SavedTask(w).status = Outcome(w)
      /\ job[w].kind # "retry" /\ job[w].status = None => SavedTask(w) = read[w]
  BY <1>1, SavedTaskTyped
<1>4. tasks' = tasks \/ tasks' = [tasks EXCEPT ![job[w].task] = SavedTask(w)]
  BY DEF SaveTask
<1>5. ASSUME NEW t \in Tasks, t \notin Suspect' PROVE RowSettled(t)
  <2>1. t \notin Suspect
    BY <1>1, <1>5, SuspectGrows
  <2>2. CASE t # job[w].task
    <3>1. tasks'[t] = tasks[t]
      BY <1>3, <1>4, <2>2 DEF TypeInv, TypeOK
    <3>2. Saving(t) => Saving(t)'
      BY <1>2, <2>2, SavingKept
    <3> QED
      BY <3>1, <3>2 DEF RowSettled
  <2>3. CASE t = job[w].task
    <3>1. read[w] = tasks[t]
      BY <1>1, <2>1, <2>3 DEF HandFresh, Suspect
    <3>2. TaskStorable(w)
      <4>1. t \in Rows(tasks)
        BY <1>3, <3>1, RowsTyped DEF TypeInv
      <4> QED
        BY <2>3, <4>1 DEF TaskStorable
    <3>3. CASE job[w].kind = "retry"
      <4>1. tasks' = [tasks EXCEPT ![t] = SavedTask(w)]
        <5>1. ~(ok[w] /\ "timezone" \notin Bound)
          BY <1>5, <2>3, <3>3 DEF SaveTask, Suspect
        <5> QED
          BY <2>3, <3>2, <5>1 DEF SaveTask
      <4>2. tasks'[t].status = Outcome(w)
        BY <1>3, <3>3, <4>1 DEF TypeInv, TypeOK
      <4>3. CASE ok[w]
        BY <4>2, <4>3 DEF Outcome, RowSettled
      <4>4. CASE ~ok[w]
        BY <1>1, <2>1, <2>3, <3>3, <4>4 DEF HandOnce, Unprinted, RowSettled
      <4> QED
        BY <4>3, <4>4
    <3>4. CASE job[w].kind # "retry"
      <4>1. Saving(t) => Saving(t)'
        BY <1>2, <3>4, SavingKept
      <4>2. job[w].status = None
        BY <1>5, <2>3, <3>2, <3>4 DEF SaveTask, Suspect
      <4>3. SavedTask(w) = tasks[t]
        BY <1>3, <3>1, <3>4, <4>2
      <4>4. tasks'[t] = tasks[t]
        BY <1>3, <1>4, <2>3, <4>3 DEF TypeInv, TypeOK
      <4> QED
        BY <4>1, <4>4 DEF RowSettled
    <3> QED
      BY <3>3, <3>4
  <2> QED
    BY <2>2, <2>3
<1>6. \A t \in Tasks : RowSettled(t)
  BY <1>5 DEF RowSettled
<1> QED
  BY <1>1, <1>2, <1>6, OnceAfter

LEMMA OnceRow ==
  ASSUME TypeInv, OnceInv, CreateTask \/ DeleteTask \/ DeletePrinter \/ DeleteTemplate
  PROVE  OnceInv'
<1>1. [Next]_vars /\ UNCHANGED <<paper, locals>>
  BY DEF Next, CreateTask, DeleteTask, DeletePrinter, DeleteTemplate
<1>2. ASSUME NEW t \in Tasks PROVE NoPaper(t) \/ tasks'[t] = Gone \/ tasks'[t] = tasks[t]
  <2>1. CASE CreateTask
    <3>1. PICK u \in FreshTasks, p \in Rows(printers), k \in Rows(templates), s \in Statuses :
            tasks' = [tasks EXCEPT ![u] = [printer |-> p, template |-> k, status |-> s]]
      BY <2>1 DEF CreateTask
    <3>2. NoPaper(u)
      BY DEF FreshTasks, NoPaper
    <3> QED
      BY <3>1, <3>2 DEF TypeInv, TypeOK
  <2>2. CASE DeleteTask \/ DeletePrinter \/ DeleteTemplate
    <3>1. PICK keys : Cascade(keys)
      BY <2>2 DEF DeleteTask, DeletePrinter, DeleteTemplate
    <3> QED
      BY <3>1 DEF Cascade
  <2> QED
    BY <2>1, <2>2
<1> QED
  BY <1>1, <1>2, OnceAside

LEMMA InitOnce == Init => OnceInv
BY DEF Init, OnceInv, RowOnce, HandOnce, NoPaper, Subjects

LEMMA OnceStep == TypeInv /\ OnceInv /\ FreshInv /\ [Next]_vars => OnceInv'
<1> SUFFICES ASSUME TypeInv, OnceInv, FreshInv, [Next]_vars PROVE OnceInv'
  OBVIOUS
<1>1. CASE UNCHANGED vars
  BY <1>1, OnceAside DEF vars, tables, locals
<1>2. CASE Next
  BY <1>2, OnceReceive, OnceSend, OncePlain, OnceFail, OnceRecord, OnceSave, OnceRow
  DEF Next, Serve
<1> QED
  BY <1>1, <1>2

\* However often a task is retried it is on paper once, unless two handlers had it, an
\* answer or a handler was lost after it was printed, or its status was set by hand:
\* the check of the status and the save ten seconds later are enough for a single
\* retry at a time, and only for that (retry, printing/api.py).
THEOREM PrintedAtMostOnce == Spec => []PrintedOnce
<1>1. OnceInv => PrintedOnce
  BY DEF OnceInv, RowOnce, PrintedOnce, Suspect
<1>2. Spec => []OnceInv
  BY InitOnce, OnceStep, TypeHeld, FreshHeld, PTL DEF Spec
<1> QED
  BY <1>1, <1>2, PTL
-----------------------------------------------------------------------------
(***************************************************************************)
(* Keeping a default                                                       *)
(***************************************************************************)
\* A handler that has cleared the defaults and is to add its own.
Making(w) == pc[w] = "save" /\ job[w].kind = "create_template" /\ job[w].on

LEMMA OthersStay ==
  ASSUME TypeInv, NEW w \in Workers,
         (\E kind \in Kinds : \E j \in Asked(kind) : Receive(w, j)) \/ Serve(w) \/ Fail(w),
         NEW v \in Workers \ {w}
  PROVE  pc'[v] = pc[v] /\ job'[v] = job[v]
<1>1. LocalsOK
  BY TypeParts
<1>2. CASE Finish(w)
  BY <1>1, <1>2, FinishLocals
<1>3. CASE UNCHANGED <<pc, job>>
  BY <1>3
<1>4. CASE \E step, i : pc' = [pc EXCEPT ![w] = step] /\ (job' = job \/ job' = [job EXCEPT ![w] = i])
  BY <1>1, <1>4 DEF LocalsOK
<1>5. CASE \E kind \in Kinds : \E j \in Asked(kind) : Receive(w, j)
  BY <1>3, <1>4, <1>5 DEF Receive, locals
<1>6. CASE NextPrinter(w) \/ Send(w) \/ Poll(w) \/ Record(w) \/ Log(w) \/ Clear(w)
  BY <1>2, <1>4, <1>6 DEF NextPrinter, Send, Poll, Record, Log, Clear
<1>7. CASE SaveTask(w) \/ SavePrinter(w) \/ SaveTemplate(w) \/ Fail(w)
  BY <1>2, <1>7 DEF SaveTask, SavePrinter, SaveTemplate, Fail
<1> QED
  BY <1>5, <1>6, <1>7 DEF Serve

LEMMA MakingKept ==
  ASSUME TypeInv, [Next]_vars, NEW u \in Workers, Making(u), ~SaveTemplate(u), ~Fail(u)
  PROVE  Making(u)'
<1>1. CASE UNCHANGED locals
  BY <1>1 DEF Making, locals
<1>2. ASSUME NEW w \in Workers,
             (\E kind \in Kinds : \E j \in Asked(kind) : Receive(w, j)) \/ Serve(w) \/ Fail(w)
      PROVE  Making(u)'
  <2>1. CASE w # u
    BY <1>2, <2>1, OthersStay DEF Making
  <2>2. CASE w = u
    BY <1>2, <2>2
    DEF Making, Receive, Serve, NextPrinter, Send, Poll, Record, Log, SaveTask, SavePrinter, Clear,
        TaskSaves, PrinterSaves
  <2> QED
    BY <2>1, <2>2
<1> QED
  BY <1>1, <1>2
  DEF Next, CreateTask, DeleteTask, DeletePrinter, DeleteTemplate, vars

\* A new default is refused only for another default.
LEMMA RefusedForDefault ==
  ASSUME TypeInv, Unique(templates), NEW w \in Workers, SaveTemplate(w), Making(w),
         templates' = templates
  PROVE  Defaults # {}
<1> DEFINE key == job[w].template
           row == SavedTemplate(w)
           after == [templates EXCEPT ![key] = row]
<1>1. /\ templates \in [Templates -> Template \cup {None, Gone}]
      /\ Rows(templates) = {k \in Templates : templates[k] \in Template}
  BY RowsTyped DEF TypeInv, TypeOK
<1>2. row \in Template /\ row.default = TRUE /\ key \in Templates
  <2>1. row = [default |-> job[w].on, active |-> TRUE] /\ job[w].on
    BY DEF SavedTemplate, Making
  <2>2. /\ pc[w] = "save" /\ job[w].kind \in TemplateSaves \cup {"create_template"}
        /\ JobOK(job[w], read[w])
    BY DEF SaveTemplate, TypeInv, HandlersOK, HandlerOK
  <2>3. job[w].on = TRUE
    BY <2>1, <2>2 DEF JobOK, Job
  <2>4. key \in Templates
    BY <2>2 DEF JobOK, Making
  <2> QED
    BY <2>1, <2>3, <2>4 DEF Template
<1>3. (Unique(after) /\ templates' = after) \/ ~Unique(after)
  BY DEF SaveTemplate, Making
<1> HIDE DEF key, row
<1>4. /\ after \in [Templates -> Template \cup {None, Gone}] /\ after[key] = row
      /\ \A k \in Templates \ {key} : after[k] = templates[k]
  BY <1>1, <1>2
<1> HIDE DEF after
<1>5. CASE Unique(after) /\ templates' = after
  <2>1. templates[key] = row
    BY <1>4, <1>5
  <2> QED
    BY <1>1, <1>2, <2>1 DEF Defaults
<1>6. CASE ~Unique(after)
  <2>1. PICK k \in Rows(after), l \in Rows(after) : k # l /\ after[k].default = after[l].default
    BY <1>6 DEF Unique
  <2>2. /\ k \in Templates /\ l \in Templates
        /\ after[k] \in Template /\ after[l] \in Template
    BY <1>4, <2>1 DEF Rows
  <2>3. CASE k # key /\ l # key
    <3>1. k \in Rows(templates) /\ l \in Rows(templates)
      BY <1>1, <1>4, <2>2, <2>3
    <3>2. templates[k].default = templates[l].default
      BY <1>4, <2>1, <2>2, <2>3
    <3> QED
      BY <2>1, <3>1, <3>2 DEF Unique
  <2>4. CASE k = key \/ l = key
    <3>1. PICK m \in {k, l} : m # key
      BY <2>1
    <3>2. after[m].default = TRUE /\ after[m] = templates[m] /\ m \in Templates
          /\ after[m] \in Template
      BY <1>2, <1>4, <2>1, <2>2, <2>4, <3>1
    <3>3. m \in Rows(templates) /\ templates[m].default
      BY <1>1, <3>2
    <3> QED
      BY <3>3 DEF Defaults
  <2> QED
    BY <2>3, <2>4
<1> QED
  BY <1>3, <1>5, <1>6

LEMMA KeptStep ==
  ASSUME TypeInv, FreshInv, Unique(templates), DefaultKept, [Next]_vars,
         owed', (raced \cap Templates = {})', (Defaults = {})'
  PROVE  \E w \in Workers : Making(w)'
<1>1. owed /\ raced \cap Templates = {}
  <2>1. owed
    BY ZenonT(30) DEF Next, Serve, Receive, NextPrinter, Send, Poll, Record, Log, SaveTask, SavePrinter,
           Clear, SaveTemplate, CreateTask, DeleteTask, DeletePrinter, DeleteTemplate, Fail, vars,
           history
  <2> QED
    BY <2>1, RacedGrows
<1>2. Defaults # {} \/ \E w \in Workers : Making(w)
  BY <1>1 DEF DefaultKept, Making
<1>3. /\ templates \in [Templates -> Template \cup {None, Gone}]
      /\ Rows(templates) = {k \in Templates : templates[k] \in Template}
      /\ DOMAIN templates' = Templates
      /\ \A r \in Template : r \notin {None, Gone}
  BY RowsTyped, StepTyped, NoneAssumption DEF TypeInv, TypeOK
<1>4. \A k \in Templates : templates'[k] \in Template => ~templates'[k].default
  <2> SUFFICES ASSUME NEW k \in Templates, templates'[k] \in Template, templates'[k].default
               PROVE  FALSE
    OBVIOUS
  <2>1. k \in Rows(templates')
    BY <1>3 DEF Rows
  <2> QED
    BY <2>1 DEF Defaults, Rows
<1>5. CASE templates' = templates
  <2>1. Defaults = {}
    BY <1>5 DEF Defaults, Rows
  <2>2. PICK u \in Workers : Making(u)
    BY <1>2, <2>1
  <2>3. ~SaveTemplate(u)
    BY <1>5, <2>1, <2>2, RefusedForDefault
  <2>4. ~Fail(u)
    BY <2>2 DEF Fail, Making
  <2> QED
    BY <2>2, <2>3, <2>4, MakingKept
<1>6. ASSUME NEW w \in Workers, Clear(w), templates' # templates
      PROVE  \E u \in Workers : Making(u)'
  <2>1. pc[w] = "clear" /\ pc' = [pc EXCEPT ![w] = "save"] /\ job' = job
    BY <1>6 DEF Clear
  <2>2. job[w].kind = "create_template" /\ job[w].on
    BY <2>1 DEF FreshInv, HandFresh, TypeInv, HandlersOK, HandlerOK, StepFits
  <2>3. Making(w)'
    BY <2>1, <2>2 DEF Making, TypeInv, TypeOK
  <2> QED
    BY <2>3
<1>7. ASSUME NEW w \in Workers, SaveTemplate(w), templates' # templates
      PROVE  \E u \in Workers : Making(u)'
  <2> DEFINE before == IF job[w].kind = "set_default" THEN Cleared ELSE templates
             key == job[w].template
             row == SavedTemplate(w)
  <2>1. /\ pc[w] = "save" /\ job[w].kind \in TemplateSaves \cup {"create_template"}
        /\ templates' = [before EXCEPT ![key] = row]
        /\ ~(job[w].kind = "patch_default" /\ ~job[w].on)
    BY <1>7 DEF SaveTemplate
  <2>2. /\ row \in Template /\ key \in Templates
        /\ job[w].kind \in {"create_template", "patch_default"} => row.default = job[w].on
        /\ job[w].kind = "set_default" => row.default
        /\ job[w].kind = "patch_active" => row.default = read[w].default
    BY <2>1, SavedTemplateTyped
  <2>3. before \in [Templates -> Template \cup {None, Gone}]
    BY <1>3, ClearedTyped DEF TypeInv
  <2>4. HandFresh(w)
    BY DEF FreshInv
  <2>5. job[w].kind # "set_default" => before = templates
    OBVIOUS
  <2> HIDE DEF before, row
  <2>6. templates'[key] = row
    BY <2>1, <2>2, <2>3
  <2>7. ~row.default
    BY <1>4, <2>2, <2>6
  <2>8. \/ job[w].kind = "create_template" /\ ~job[w].on
        \/ job[w].kind = "patch_active"
    BY <2>1, <2>2, <2>7 DEF TemplateSaves
  <2>9. key \notin Defaults
    <3>1. CASE job[w].kind = "create_template"
      BY <1>3, <2>1, <2>4, <3>1 DEF HandFresh, Defaults
    <3>2. CASE job[w].kind = "patch_active"
      <4>1. read[w] = templates[key]
        BY <1>1, <2>1, <2>2, <2>4, <3>2 DEF HandFresh, TemplateSaves
      <4> QED
        BY <2>2, <2>7, <3>2, <4>1 DEF Defaults
    <3> QED
      BY <2>8, <3>1, <3>2
  <2>10. \A k \in Templates : k # key => templates'[k] = templates[k]
    BY <2>1, <2>3, <2>5, <2>8
  <2>11. Defaults = {}
    BY <1>3, <1>4, <2>9, <2>10 DEF Defaults
  <2>12. PICK u \in Workers : Making(u)
    BY <1>2, <2>11
  <2>13. u # w
    BY <2>8, <2>12 DEF Making
  <2>14. pc'[u] = pc[u] /\ job'[u] = job[u]
    BY <1>7, <2>13, OthersStay DEF Serve
  <2>15. Making(u)'
    BY <2>12, <2>14 DEF Making
  <2> QED
    BY <2>15
<1>8. CASE DeleteTemplate
  <2>1. PICK k \in Rows(templates) :
          templates' = [templates EXCEPT ![k] = Gone] /\ k \notin Defaults
    BY <1>8 DEF DeleteTemplate
  <2>2. \A l \in Templates : l # k => templates'[l] = templates[l]
    BY <1>3, <2>1
  <2>3. Defaults = {}
    BY <1>3, <1>4, <2>1, <2>2 DEF Defaults
  <2>4. PICK u \in Workers : Making(u)
    BY <1>2, <2>3
  <2>5. Making(u)'
    BY <1>8, <2>4 DEF Making, DeleteTemplate, locals
  <2> QED
    BY <2>5
<1> QED
  BY <1>5, <1>6, <1>7, <1>8
  DEF Next, Serve, Receive, NextPrinter, Send, Poll, Record, Log, SaveTask, SavePrinter,
      CreateTask, DeleteTask, DeletePrinter, Fail, vars, tables

\* A shop that has a default template keeps one, or is about to get it, unless it is
\* deleted or turned off, a creation dies between its two statements, or two handlers had a
\* template (perform_create and set_default, printing/api.py).
THEOREM DefaultStays == Spec => []DefaultKept
<1>1. Init => DefaultKept
  BY DEF Init, DefaultKept
<1>2. TypeInv /\ FreshInv /\ Unique(templates) /\ DefaultKept /\ [Next]_vars => DefaultKept'
  BY KeptStep DEF DefaultKept, Making
<1>3. Spec => []Unique(templates)
  BY InitUnique, UniqueStep, TypeHeld, PTL DEF Spec
<1> QED
  BY <1>1, <1>2, <1>3, TypeHeld, FreshHeld, PTL DEF Spec
=============================================================================
