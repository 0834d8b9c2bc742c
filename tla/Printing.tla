------------------------------ MODULE Printing ------------------------------
(***************************************************************************)
(* Printers, templates and print tasks of a shop.                          *)
(*                                                                         *)
(* Every handler prints first, over a network call of up to ten seconds,   *)
(* and writes down afterwards what became of it: a task, a log row, the    *)
(* task's new status.  Each statement commits on its own.  Where a row was *)
(* read before the call, save() writes all of it back, and inserts it      *)
(* again if it was deleted meanwhile.  The print cloud may answer that it  *)
(* took the job, refuse it, or take it without an answer getting through;  *)
(* what it took is called printed.                                         *)
(*                                                                         *)
(* All templates are of the type 'order', the only one a handler looks up. *)
(***************************************************************************)
EXTENDS Integers, FiniteSets

CONSTANTS
  Workers,
  Printers, Templates, Tasks,  \* primary keys
  Supported,    \* printers whose brand PrintServiceFactory has a service for
  Bound,        \* of the names "time" and "timezone", those printing/api.py imports
  Offered,      \* kinds of request the clients send
  None,         \* no key; a key that has no row yet
  Gone,         \* a key whose row was deleted
  MaxRequests,  \* bound: requests received
  MaxLost,      \* bound: answers of the print cloud that are lost
  MaxFailures   \* bound: handlers cut off

Prints == {"order", "kitchen", "both"}
TaskSaves == {"retry", "patch_task"}
PrinterSaves == {"status", "patch_printer"}
TemplateSaves == {"set_default", "patch_default", "patch_active"}
Single == {"create_task", "delete_task", "delete_template", "delete_printer"}
Kinds == Prints \cup TaskSaves \cup PrinterSaves \cup TemplateSaves
           \cup {"auto", "test", "create_template"}
Statuses == {"pending", "printing", "completed", "failed"}

ASSUME WorkersAssumption == IsFiniteSet(Workers)
ASSUME SupportedAssumption == Supported \subseteq Printers
ASSUME OfferedAssumption == Offered \subseteq Kinds \cup Single
ASSUME BoundsAssumption == MaxRequests \in Nat /\ MaxLost \in Nat /\ MaxFailures \in Nat

\* The columns that matter; auto stands for auto_print and is_active together.
Printer == [auto : BOOLEAN]
Template == [default : BOOLEAN, active : BOOLEAN]
Task == [printer : Printers, template : Templates, status : Statuses]

\* A request in progress: the rows it names, and what it is to write.
Job == [kind : Kinds, printer : Printers \cup {None}, template : Templates \cup {None},
        task : Tasks \cup {None}, on : BOOLEAN, status : Statuses \cup {None}]

ASSUME NoneAssumption ==
  /\ None # Gone
  /\ {None, Gone} \cap (Printers \cup Templates \cup Tasks \cup Statuses
                          \cup Printer \cup Template \cup Task \cup Job) = {}

VARIABLES
  printers,   \* [Printers -> Printer \cup {Gone}]
  templates,  \* [Templates -> Template \cup {None, Gone}]
  tasks,      \* [Tasks -> Task \cup {None, Gone}]
  logs,       \* print_logs: rows with is_success, per printer and task (or None)
  paper,      \* what the cloud printed on each printer, for which task (or None)
  pc,         \* [Workers -> step of the handler]
  job,        \* [Workers -> Job \cup {None}]
  read,       \* [Workers -> the row fetched first, or None]
  todo,       \* [Workers -> printers the loop of auto_print_order has still to visit]
  ok,         \* [Workers -> result['success']]
  served, lost, failures,
  raced,      \* history: rows that one handler had while another read or wrote them
  doubted,    \* history: tasks that were printed without the handler saving so
  edited,     \* history: tasks whose status was set by hand
  owed        \* history: a default template was there, and nobody took it away

tables == <<printers, templates, tasks, logs>>
history == <<raced, doubted, edited, owed>>
locals == <<pc, job, read, todo, ok>>
vars == <<tables, paper, locals, served, lost, failures, history>>

-----------------------------------------------------------------------------
Rows(table) == {k \in DOMAIN table : table[k] \notin {None, Gone}}
Subjects == Tasks \cup {None}

\* unique_together on (shop, template_type, is_default), checked row by row.
Unique(table) ==
  \A k, l \in Rows(table) : k # l => table[k].default # table[l].default

Defaults == {k \in Rows(templates) : templates[k].default}

\* The template the printing handlers fall back to.
DefaultTemplate ==
  LET active == {k \in Defaults : templates[k].active}
  IN IF active = {} THEN None ELSE CHOOSE k \in active : TRUE

\* update(is_default=False) on all templates of the type.
Cleared ==
  [k \in Templates |->
     IF k \in Rows(templates) THEN [templates[k] EXCEPT !.default = FALSE] ELSE templates[k]]

\* Keys that were never given to a row, nor to a handler.
Unused(table) == {k \in DOMAIN table : table[k] = None}
FreshTasks ==
  {t \in Unused(tasks) : /\ \A p \in Printers : paper[p][t] = 0
                         /\ \A w \in Workers : job[w] # None => job[w].task # t}
FreshTemplates ==
  {k \in Unused(templates) : \A w \in Workers : job[w] # None => job[w].template # k}

\* The row a handler has fetched and will save.
Target(j) ==
  CASE j.kind \in TaskSaves     -> {j.task}
    [] j.kind \in PrinterSaves  -> {j.printer}
    [] j.kind \in TemplateSaves -> {j.template}
    [] OTHER                    -> {}
InHand(W) == UNION {Target(job[v]) : v \in {u \in W : job[u] # None}}
Race(w, keys) == raced' = raced \cup (keys \cap InHand(Workers \ {w}))

\* Some templates and tasks are there already.
Init ==
  /\ printers = [p \in Printers |-> [auto |-> TRUE]]
  /\ templates \in [Templates -> {None} \cup [default : BOOLEAN, active : {TRUE}]]
  /\ Unique(templates)
  /\ tasks \in [Tasks -> {None} \cup [printer : Printers, template : Rows(templates),
                                     status : {"pending"}]]
  /\ logs = [p \in Printers |-> [t \in Subjects |-> 0]]
  /\ paper = [p \in Printers |-> [t \in Subjects |-> 0]]
  /\ pc = [w \in Workers |-> "idle"]
  /\ job = [w \in Workers |-> None]
  /\ read = [w \in Workers |-> None]
  /\ todo = [w \in Workers |-> {}]
  /\ ok = [w \in Workers |-> FALSE]
  /\ served = 0 /\ lost = 0 /\ failures = 0
  /\ raced = {} /\ doubted = {} /\ edited = {} /\ owed = (Defaults # {})

Finish(w) ==
  /\ pc' = [pc EXCEPT ![w] = "idle"]
  /\ job' = [job EXCEPT ![w] = None]
  /\ read' = [read EXCEPT ![w] = None]
  /\ todo' = [todo EXCEPT ![w] = {}]
  /\ ok' = [ok EXCEPT ![w] = FALSE]

Arrives ==
  /\ served < MaxRequests
  /\ served' = served + 1
  /\ UNCHANGED <<lost, failures>>
-----------------------------------------------------------------------------
(***************************************************************************)
(* Requests                                                                *)
(***************************************************************************)
NamesPrinter == Prints \cup PrinterSaves \cup {"test"}

\* What a client may ask for: rows there are, and the values it may set.
Asked(kind) ==
  [kind : {kind},
   printer : IF kind \in NamesPrinter THEN Rows(printers) ELSE {None},
   template : CASE kind \in TemplateSaves    -> Rows(templates)
                [] kind = "create_template" -> FreshTemplates
                [] kind \in Prints           -> Rows(templates) \cup {None}
                [] OTHER                    -> {None},
   task : CASE kind \in TaskSaves -> Rows(tasks)
            [] kind \in Prints    -> FreshTasks
            [] OTHER             -> {None},
   on : IF kind \in {"patch_printer", "patch_default", "patch_active", "create_template"}
        THEN BOOLEAN ELSE {TRUE},
   status : IF kind = "patch_task" THEN Statuses \cup {None} ELSE {None}]

\* Mutant: any task may be printed again.
RetriableAny(t) == TRUE

Retriable(t) == tasks[t].status \in {"failed", "pending"}

AutoPrinters == {p \in Rows(printers) : printers[p].auto}

\* The checks made before anything is printed or written.
Admitted(j) ==
  CASE j.kind = "retry"             -> Retriable(j.task) /\ tasks[j.task].printer \in Supported
    [] j.kind \in Prints             -> "time" \in Bound /\ j.printer \in Supported
    [] j.kind \in {"test", "status"} -> j.printer \in Supported
    [] j.kind = "auto"              -> AutoPrinters # {}
    [] OTHER                        -> TRUE

\* What the handler has looked up by then.
LookedUp(j) ==
  CASE j.kind = "retry" -> [j EXCEPT !.printer = tasks[j.task].printer]
    [] j.kind \in Prints /\ j.template = None -> [j EXCEPT !.template = DefaultTemplate]
    [] OTHER            -> j

Fetched(j) ==
  CASE j.kind \in TaskSaves     -> tasks[j.task]
    [] j.kind \in PrinterSaves  -> printers[j.printer]
    [] j.kind \in TemplateSaves -> templates[j.template]
    [] OTHER                    -> None

FirstStep(j) ==
  CASE j.kind = "status"                      -> "poll"
    [] j.kind \in Prints \cup {"retry", "test"} -> "send"
    [] j.kind = "auto"                        -> "next"
    [] j.kind = "create_template" /\ j.on     -> "clear"
    [] OTHER                                  -> "save"

Receive(w, j) ==
  /\ pc[w] = "idle"
  /\ Arrives
  /\ \/ /\ ~Admitted(j)
        /\ UNCHANGED <<locals, raced>>
     \/ /\ Admitted(j)
        /\ job' = [job EXCEPT ![w] = LookedUp(j)]
        /\ read' = [read EXCEPT ![w] = Fetched(j)]
        /\ todo' = [todo EXCEPT ![w] = IF j.kind = "auto" THEN AutoPrinters ELSE {}]
        /\ pc' = [pc EXCEPT ![w] = FirstStep(j)]
        /\ UNCHANGED ok
        /\ Race(w, Target(j))
  /\ UNCHANGED <<tables, paper, doubted, edited, owed>>

-----------------------------------------------------------------------------
(***************************************************************************)
(* Printing                                                                *)
(***************************************************************************)
\* The default template is looked up again for every printer.
ForPrinter(j, p) == [j EXCEPT !.printer = p, !.template = DefaultTemplate]

\* The next turn of auto_print_order; a brand without a service ends the loop.
NextPrinter(w) ==
  /\ pc[w] = "next"
  /\ \E p \in todo[w] :
       \/ /\ p \in Supported
          /\ job' = [job EXCEPT ![w] = ForPrinter(@, p)]
          /\ todo' = [todo EXCEPT ![w] = @ \ {p}]
          /\ pc' = [pc EXCEPT ![w] = "send"]
          /\ UNCHANGED <<read, ok>>
       \/ /\ p \notin Supported
          /\ Finish(w)
  /\ UNCHANGED <<tables, paper, served, lost, failures, history>>

\* generate_order_content returns nothing for a template: _render_template is empty.
Blank(j) == j.kind \in {"order", "both", "auto"} /\ j.template # None

Answers == {"printed", "refused", "lost"}

AfterSend(kind) ==
  CASE kind = "retry"  -> "save"
    [] kind \in Prints -> "record"
    [] OTHER           -> "log"

\* print_text: success only with the cloud's answer, on paper with or without it.
Send(w) ==
  /\ pc[w] = "send"
  /\ \E answer \in Answers :
       LET out == answer # "refused" /\ ~Blank(job[w]) IN
       /\ answer = "lost" => lost < MaxLost
       /\ lost' = lost + (IF answer = "lost" THEN 1 ELSE 0)
       /\ ok' = [ok EXCEPT ![w] = answer = "printed"]
       /\ paper' = IF out THEN [paper EXCEPT ![job[w].printer][job[w].task] = @ + 1]
                   ELSE paper
       /\ doubted' = IF out /\ answer = "lost" THEN doubted \cup {job[w].task} ELSE doubted
  /\ pc' = [pc EXCEPT ![w] = AfterSend(job[w].kind)]
  /\ UNCHANGED <<tables, job, read, todo, served, failures, raced, edited, owed>>

\* get_printer_status asks the cloud: the printer is saved only after an answer.
Poll(w) ==
  /\ pc[w] = "poll"
  /\ \/ /\ pc' = [pc EXCEPT ![w] = "save"]
        /\ UNCHANGED <<job, read, todo, ok>>
     \/ Finish(w)
  /\ UNCHANGED <<tables, paper, served, lost, failures, history>>

\* PrintTask.objects.create after print_order has printed: template and
\* print_content are NOT NULL, printed_at needs timezone.
Recordable(w) ==
  /\ job[w].template \in Rows(templates) /\ ~Blank(job[w])
  /\ job[w].printer \in Rows(printers)
  /\ ok[w] => "timezone" \in Bound

\* Mutant: a task is completed once the printer was asked.
OutcomeAsked(w) == "completed"

Outcome(w) == IF ok[w] THEN "completed" ELSE "failed"

Record(w) ==
  /\ pc[w] = "record"
  /\ \/ /\ Recordable(w)
        /\ tasks' = [tasks EXCEPT ![job[w].task] =
                       [printer |-> job[w].printer, template |-> job[w].template,
                        status |-> Outcome(w)]]
        /\ pc' = [pc EXCEPT ![w] = "log"]
        /\ UNCHANGED <<job, read, todo, ok>>
     \/ /\ ~Recordable(w)
        /\ Finish(w)
        /\ UNCHANGED tasks
  /\ UNCHANGED <<printers, templates, logs, paper, served, lost, failures, history>>

\* PrintLog.objects.create: print_content is NOT NULL, printer and task must exist.
Loggable(w) ==
  /\ ~Blank(job[w])
  /\ job[w].printer \in Rows(printers)
  /\ job[w].task # None => job[w].task \in Rows(tasks)

\* Mutant: whatever was sent is logged as a success.
SucceededSent(w) == TRUE

Succeeded(w) == ok[w]

\* Mutant: once a printer has printed, the handler saves it as it was fetched.
LogAndSave(w) ==
  /\ pc[w] = "log"
  /\ printers' = [printers EXCEPT ![job[w].printer] = [auto |-> TRUE]]
  /\ Finish(w)
  /\ UNCHANGED <<templates, tasks, logs, paper, served, lost, failures, history>>

\* Then the rest of the loop.  A print of "both" does not get here: whatever its
\* template, its first part cannot be recorded, and the kitchen part is not printed.
Log(w) ==
  /\ pc[w] = "log"
  /\ \/ /\ Loggable(w)
        /\ logs' = IF Succeeded(w)
                   THEN [logs EXCEPT ![job[w].printer][job[w].task] = @ + 1] ELSE logs
        /\ IF todo[w] # {}
           THEN /\ pc' = [pc EXCEPT ![w] = "next"]
                /\ UNCHANGED <<job, read, todo, ok>>
           ELSE Finish(w)
     \/ /\ ~Loggable(w)
        /\ Finish(w)
        /\ UNCHANGED logs
  /\ UNCHANGED <<printers, templates, tasks, paper, served, lost, failures, history>>
-----------------------------------------------------------------------------
(***************************************************************************)
(* Saves                                                                   *)
(***************************************************************************)
SavedTask(w) ==
  CASE job[w].kind = "retry" -> [read[w] EXCEPT !.status = Outcome(w)]
    [] job[w].kind = "patch_task" /\ job[w].status # None
                             -> [read[w] EXCEPT !.status = job[w].status]
    [] OTHER                 -> read[w]

\* An UPDATE of the row, or an INSERT where it was deleted.
TaskStorable(w) ==
  \/ job[w].task \in Rows(tasks)
  \/ /\ read[w].printer \in Rows(printers)
     /\ read[w].template \in Rows(templates)

\* retry sets printed_at after a success: without timezone it ends there.
SaveTask(w) ==
  LET dies == job[w].kind = "retry" /\ ok[w] /\ "timezone" \notin Bound IN
  /\ pc[w] = "save" /\ job[w].kind \in TaskSaves
  /\ IF TaskStorable(w) /\ ~dies
     THEN /\ tasks' = [tasks EXCEPT ![job[w].task] = SavedTask(w)]
          /\ edited' = IF job[w].status # None THEN edited \cup {job[w].task} ELSE edited
          /\ Race(w, {job[w].task})
     ELSE UNCHANGED <<tasks, edited, raced>>
  /\ doubted' = IF dies THEN doubted \cup {job[w].task} ELSE doubted
  /\ Finish(w)
  /\ UNCHANGED <<printers, templates, logs, paper, served, lost, failures, owed>>

\* Mutant: a printer that answers is active.
SavedPrinterActive(w) ==
  IF job[w].kind = "status" THEN [auto |-> TRUE] ELSE [auto |-> job[w].on]

\* status sets is_online only, the save writes the configuration it read.
SavedPrinter(w) == IF job[w].kind = "status" THEN read[w] ELSE [auto |-> job[w].on]

SavePrinter(w) ==
  /\ pc[w] = "save" /\ job[w].kind \in PrinterSaves
  /\ printers' = [printers EXCEPT ![job[w].printer] = SavedPrinter(w)]
  /\ Race(w, {job[w].printer})
  /\ Finish(w)
  /\ UNCHANGED <<templates, tasks, logs, paper, served, lost, failures, doubted, edited, owed>>

\* perform_create, first statement.
Clear(w) ==
  /\ pc[w] = "clear"
  /\ \/ /\ Unique(Cleared)
        /\ templates' = Cleared
        /\ pc' = [pc EXCEPT ![w] = "save"]
        /\ Race(w, Defaults)
        /\ UNCHANGED <<job, read, todo, ok>>
     \/ /\ ~Unique(Cleared)
        /\ Finish(w)
        /\ UNCHANGED <<templates, raced>>
  /\ UNCHANGED <<printers, tasks, logs, paper, served, lost, failures, doubted, edited, owed>>

\* Mutant: the new template is not made the default after the old one was cleared.
SavedTemplatePlain(w) ==
  IF job[w].kind = "create_template" THEN [default |-> FALSE, active |-> TRUE] ELSE read[w]

SavedTemplate(w) ==
  CASE job[w].kind = "create_template" -> [default |-> job[w].on, active |-> TRUE]
    [] job[w].kind = "set_default"     -> [read[w] EXCEPT !.default = TRUE]
    [] job[w].kind = "patch_default"   -> [read[w] EXCEPT !.default = job[w].on]
    [] OTHER                           -> [read[w] EXCEPT !.active = job[w].on]

\* set_default clears the others in the same transaction.
SaveTemplate(w) ==
  LET before == IF job[w].kind = "set_default" THEN Cleared ELSE templates
      after == [before EXCEPT ![job[w].template] = SavedTemplate(w)]
  IN
  /\ pc[w] = "save" /\ job[w].kind \in TemplateSaves \cup {"create_template"}
  /\ \/ /\ Unique(before) /\ Unique(after)
        /\ templates' = after
        /\ owed' = (Defaults' # {} \/ (owed /\ ~(job[w].kind = "patch_default" /\ ~job[w].on)))
        /\ Race(w, {job[w].template} \cup {k \in Templates : before[k] # templates[k]})
     \/ /\ ~(Unique(before) /\ Unique(after))
        /\ UNCHANGED <<templates, owed, raced>>
  /\ Finish(w)
  /\ UNCHANGED <<printers, tasks, logs, paper, served, lost, failures, doubted, edited>>

-----------------------------------------------------------------------------
(***************************************************************************)
(* Requests of one statement                                               *)
(***************************************************************************)
\* The form sets any status.
CreateTask ==
  /\ "create_task" \in Offered /\ Arrives
  /\ \E t \in FreshTasks, p \in Rows(printers), k \in Rows(templates), s \in Statuses :
       /\ tasks' = [tasks EXCEPT ![t] = [printer |-> p, template |-> k, status |-> s]]
       /\ edited' = IF s # "pending" THEN edited \cup {t} ELSE edited
  /\ UNCHANGED <<printers, templates, logs, paper, locals, raced, doubted, owed>>

\* Tasks go with their printer or template, log rows with their task or printer.
Cascade(keys) ==
  LET doomed == {t \in Rows(tasks) : t \in keys \/ tasks[t].printer \in keys
                                               \/ tasks[t].template \in keys}
  IN
  /\ tasks' = [t \in Tasks |-> IF t \in doomed THEN Gone ELSE tasks[t]]
  /\ logs' = [p \in Printers |-> [t \in Subjects |->
                IF p \in keys \/ t \in doomed THEN 0 ELSE logs[p][t]]]
  /\ raced' = raced \cup ((keys \cup doomed) \cap InHand(Workers))

DeleteTask ==
  /\ "delete_task" \in Offered /\ Arrives
  /\ \E t \in Rows(tasks) : Cascade({t})
  /\ UNCHANGED <<printers, templates, paper, locals, doubted, edited, owed>>

DeletePrinter ==
  /\ "delete_printer" \in Offered /\ Arrives
  /\ \E p \in Rows(printers) :
       /\ printers' = [printers EXCEPT ![p] = Gone]
       /\ Cascade({p})
  /\ UNCHANGED <<templates, paper, locals, doubted, edited, owed>>

DeleteTemplate ==
  /\ "delete_template" \in Offered /\ Arrives
  /\ \E k \in Rows(templates) :
       /\ templates' = [templates EXCEPT ![k] = Gone]
       /\ owed' = (owed /\ k \notin Defaults)
       /\ Cascade({k})
  /\ UNCHANGED <<printers, paper, locals, doubted, edited>>

\* The process or its connection dies.
Fail(w) ==
  /\ pc[w] # "idle"
  /\ failures < MaxFailures
  /\ failures' = failures + 1
  /\ doubted' = IF pc[w] = "save" /\ job[w].kind = "retry"
                THEN doubted \cup {job[w].task} ELSE doubted
  /\ owed' = (owed /\ ~(pc[w] = "save" /\ job[w].kind = "create_template" /\ job[w].on))
  /\ Finish(w)
  /\ UNCHANGED <<tables, paper, served, lost, raced, edited>>

Serve(w) ==
  \/ NextPrinter(w) \/ Send(w) \/ Poll(w) \/ Record(w) \/ Log(w)
  \/ SaveTask(w) \/ SavePrinter(w) \/ Clear(w) \/ SaveTemplate(w)

Next ==
  \/ \E w \in Workers :
       \/ \E kind \in Offered \cap Kinds : \E j \in Asked(kind) : Receive(w, j)
       \/ Serve(w)
       \/ Fail(w)
  \/ CreateTask \/ DeleteTask \/ DeletePrinter \/ DeleteTemplate

Spec == Init /\ [][Next]_vars
-----------------------------------------------------------------------------
(***************************************************************************)
(* Properties                                                              *)
(***************************************************************************)
Steps == {"idle", "next", "send", "poll", "record", "log", "save", "clear"}

\* The tables and the handlers' locals hold values of their kinds.
TypeOK ==
  /\ printers \in [Printers -> Printer \cup {Gone}]
  /\ templates \in [Templates -> Template \cup {None, Gone}]
  /\ tasks \in [Tasks -> Task \cup {None, Gone}]
  /\ logs \in [Printers -> [Subjects -> Nat]]
  /\ paper \in [Printers -> [Subjects -> Nat]]
  /\ pc \in [Workers -> Steps]
  /\ job \in [Workers -> Job \cup {None}]
  /\ read \in [Workers -> Printer \cup Template \cup Task \cup {None}]
  /\ todo \in [Workers -> SUBSET Printers]
  /\ ok \in [Workers -> BOOLEAN]
  /\ raced \subseteq Printers \cup Templates \cup Tasks
  /\ doubted \subseteq Subjects /\ edited \subseteq Tasks /\ owed \in BOOLEAN

\* Every success in the log is a print the cloud took, whatever overlaps or is
\* deleted (PrintLog.objects.create after print_text, printing/api.py).
LogsAreCovered == \A p \in Printers, t \in Subjects : logs[p][t] <= paper[p][t]

\* A task is completed only if it was printed, or somebody set it so by hand
\* (print_order, retry).
CompletedWerePrinted ==
  \A t \in Rows(tasks) \ edited :
    tasks[t].status = "completed" => \E p \in Printers : paper[p][t] > 0

\* A task is printed once, however often it is retried, unless two handlers had it
\* at a time, an answer was lost, the handler died before its save, or its status
\* was set by hand (the check and the late save of retry).
PrintedOnce ==
  \A t \in Tasks \ (raced \cup doubted \cup edited), p \in Printers : paper[p][t] <= 1

\* Once there is a default template it stays or another follows, unless somebody
\* deletes it or turns it off, a creation dies between its two statements, or two
\* handlers had a template at a time (perform_create, set_default).
DefaultKept ==
  owed /\ raced \cap Templates = {} =>
    \/ Defaults # {}
    \/ \E w \in Workers :
         pc[w] = "save" /\ job[w].kind = "create_template" /\ job[w].on

\* With two templates in the table no request makes the other one the default:
\* unique_together lets neither flag change before the other.  This is why set_default
\* does not do what it says (SetDefaultWorks).
DefaultIsStuck ==
  [][Cardinality(Rows(templates)) > 1 /\ Rows(templates') = Rows(templates)
       => Defaults' = Defaults]_vars

\* set_default, once it runs to its end, leaves its template the default ("set as the
\* default template", "clear the other templates of the type", printing/api.py).
SetDefaultWorks ==
  [][\A w \in Workers :
       pc[w] = "save" /\ job[w].kind = "set_default" /\ pc'[w] = "idle" /\ failures' = failures
         => job[w].template \in Defaults']_vars

\* Automatic printing is turned on or off by a request to do so and by nothing
\* else, unless two handlers had the printer at a time (the save in status).
SwitchesAreAsked ==
  [][\A p \in Printers \ raced' :
       printers[p] # Gone /\ printers'[p] # Gone /\ printers'[p] # printers[p]
         => \E w \in Workers : /\ pc[w] = "save" /\ job[w].kind = "patch_printer"
                               /\ job[w].printer = p
                               /\ printers'[p].auto = job[w].on]_vars

\* What was deleted does not come back, unless a handler still had it (save()).
DeletedStaysDeleted ==
  [][/\ \A p \in Printers \ raced' : printers[p] = Gone => printers'[p] = Gone
     /\ \A k \in Templates \ raced' : templates[k] = Gone => templates'[k] = Gone
     /\ \A t \in Tasks \ raced' : tasks[t] = Gone => tasks'[t] = Gone]_vars
=============================================================================
