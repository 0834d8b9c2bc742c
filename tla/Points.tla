------------------------------- MODULE Points -------------------------------
(***************************************************************************)
(* Members' points: earning, spending, signing in, and the saves of the    *)
(* profile that carry the same columns.                                    *)
(*                                                                         *)
(* Users are shared by all shops.  A request fetches its user when it is   *)
(* authenticated and works on that copy: a check of available_points is a  *)
(* check of the copy, and save() writes all its columns back.  The row and *)
(* the log row of a change are one transaction; as it reads no row of the  *)
(* tables but the level configuration, it is one step.  (The               *)
(* MemberRecharge row a recharge inserts is read by its listing only.)     *)
(***************************************************************************)
EXTENDS Integers, Sequences, FiniteSets, SequencesExt

CONSTANTS
  Workers,
  Users,
  Shops,
  Levels,       \* membership levels
  Regular,      \* the level of a new user
  Config,       \* [Shops -> configurations of levels, MembershipLevelConfig]
  SigninPoints, \* what a day's sign-in earns
  Amounts,      \* points a recharge earns, or a customer spends
  Opening,      \* points the users have at the start
  Offered,      \* kinds of request the clients send
  None,
  MaxRequests,  \* bound: requests
  MaxTime       \* bound: halves of days

Kinds == {"signin", "recharge", "consume", "profile"}

ASSUME UsersAssumption == IsFiniteSet(Users)
ASSUME LevelsAssumption ==
  /\ Regular \in Levels
  /\ Config \in [Shops -> SUBSET [level : Levels, min_points : Int]]
ASSUME PointsAssumption ==
  SigninPoints \in Nat \ {0} /\ Amounts \subseteq Nat \ {0} /\ Opening \in Nat
ASSUME KindsAssumption == Offered \subseteq Kinds
ASSUME BoundsAssumption == MaxRequests \in Nat /\ MaxTime \in Nat

User == [available : Int, total : Int, used : Int, level : Levels]
PointsLog == [user : Users, shop : Shops, type : {"earn_order", "earn_signin", "consume_order"},
              points : Int, current : Int, created : Nat]
Job == [kind : Kinds, user : Users, shop : Shops, points : Nat]

ASSUME NoneAssumption == None \notin Job \cup User

VARIABLES
  users,     \* [Users -> User]
  logs,      \* Seq(PointsLog)
  now,       \* the half of a day it is, see Local and Utc
  pc,        \* [Workers -> {"idle", "look", "apply"}]
  job,       \* [Workers -> Job \cup {None}]
  seen,      \* [Workers -> User \cup {None}]  request.user
  served,
  contended  \* history: users some request committed while another had a copy

vars == <<users, logs, now, pc, job, seen, served, contended>>

-----------------------------------------------------------------------------
\* The configured levels a total reaches, the last in the order of min_points:
\* several where a shop gives two levels one threshold, none where it has none.
Reached(s, total) == {c \in Config[s] : c.min_points <= total}
LevelsFor(s, total) ==
  {c.level : c \in {d \in Reached(s, total) :
                      \A e \in Reached(s, total) : e.min_points <= d.min_points}}

\* check_membership_upgrade: the levels the user may have then.
Upgrades(s, total, level) ==
  IF LevelsFor(s, total) = {} THEN {level} ELSE LevelsFor(s, total)

\* The rows of the log about a user.
RowsOf(u) == {i \in DOMAIN logs : logs[i].user = u}

\* Handlers with a copy of the user's row.
OthersHave(w, u) == \E v \in Workers \ {w} : pc[v] # "idle" /\ job[v].user = u

Init ==
  /\ \E s \in Shops :
       /\ logs = IF Opening = 0 THEN <<>>
                 ELSE SetToSeq({[user |-> u, shop |-> s, type |-> "earn_order",
                                 points |-> Opening, current |-> Opening, created |-> 0] : u \in Users})
       /\ users \in [Users -> {[available |-> Opening, total |-> Opening, used |-> 0,
                                level |-> l] :
                                 l \in IF Opening = 0 THEN {Regular} ELSE Upgrades(s, Opening, Regular)}]
  /\ now = 1
  /\ pc = [w \in Workers |-> "idle"]
  /\ job = [w \in Workers |-> None]
  /\ seen = [w \in Workers |-> None]
  /\ served = 0
  /\ contended = {}

Finish(w) ==
  /\ pc' = [pc EXCEPT ![w] = "idle"]
  /\ job' = [job EXCEPT ![w] = None]
  /\ seen' = [seen EXCEPT ![w] = None]

\* What the kinds of request may ask for.
PointsAsked(kind) ==
  CASE kind = "signin" -> {SigninPoints}
    [] kind \in {"recharge", "consume"} -> Amounts
    [] kind = "profile" -> {0}

\* The request is authenticated, which fetches the user.
Receive(w, kind, u, s) ==
  /\ pc[w] = "idle"
  /\ served < MaxRequests
  /\ kind \in Offered
  /\ served' = served + 1
  /\ \E x \in PointsAsked(kind) :
       job' = [job EXCEPT ![w] = [kind |-> kind, user |-> u, shop |-> s, points |-> x]]
  /\ seen' = [seen EXCEPT ![w] = users[u]]
  /\ pc' = [pc EXCEPT ![w] = IF kind = "signin" THEN "look" ELSE "apply"]
  /\ UNCHANGED <<users, logs, now, contended>>

\* A shop's day (Asia/Shanghai) begins eight hours before the UTC day of the same
\* date: its first half is 2 * day, from eight o'clock on it is 2 * day + 1.
Local(time) == time \div 2
Utc(time) == (time - 1) \div 2

\* Mutant: the first sign-in found, whichever its day, is compared with the date.
SignedInFirst(u, s) ==
  LET mine == {i \in RowsOf(u) : logs[i].type = "earn_signin" /\ logs[i].shop = s} IN
  mine # {} /\ Local(logs[Min(mine)].created) = Utc(now)

\* A sign-in in the log whose local date (created_at__date) is today's UTC date
\* (timezone.now().date()).
SignedIn(u, s) ==
  \E i \in RowsOf(u) : /\ logs[i].type = "earn_signin" /\ logs[i].shop = s
                       /\ Local(logs[i].created) = Utc(now)

\* signin_earn_points looks for it.
LookUp(w) ==
  /\ pc[w] = "look"
  /\ IF SignedIn(job[w].user, job[w].shop) THEN Finish(w)
     ELSE pc' = [pc EXCEPT ![w] = "apply"] /\ UNCHANGED <<job, seen>>
  /\ UNCHANGED <<users, logs, now, served, contended>>

Earned(x, points) == [x EXCEPT !.available = @ + points, !.total = @ + points]

\* consume_points on the copy.
Spendable(x, points) == x.available >= points
Spent(x, points) == [x EXCEPT !.available = @ - points, !.used = @ + points]

\* Mutant: a save of the columns a request changes, and of no others.
SavedColumns(w, x) ==
  LET row == users[job[w].user] IN
  CASE job[w].kind = "consume" -> [row EXCEPT !.available = x.available, !.used = x.used]
    [] job[w].kind = "profile" -> row
    [] OTHER -> [x EXCEPT !.used = row.used]

\* Mutant: the level is left for the next change to set.
SavedBeforeUpgrade(w, x) ==
  IF job[w].kind = "profile" THEN x ELSE [x EXCEPT !.level = users[job[w].user].level]

\* user.save(): the whole copy.
Saved(w, x) == x

\* The row and, for points that changed, its log row.
Commit(w, x, logged) ==
  LET u == job[w].user IN
  /\ users' = [users EXCEPT ![u] = Saved(w, x)]
  /\ logs' = logs \o logged
  /\ contended' = IF OthersHave(w, u) THEN contended \cup {u} ELSE contended
  /\ Finish(w)
  /\ UNCHANGED <<now, served>>

\* Mutant: the log tells the points before the change.
EntryBefore(w, type, points, x) ==
  [user |-> job[w].user, shop |-> job[w].shop, type |-> type, points |-> points,
   current |-> seen[w].available, created |-> now]

Entry(w, type, points, x) ==
  [user |-> job[w].user, shop |-> job[w].shop, type |-> type, points |-> points,
   current |-> x.available, created |-> now]

\* earn_points, with the check of the level that follows it, for a sign-in or for
\* what a recharge gives.
Earn(w) ==
  LET x == Earned(seen[w], job[w].points)
      type == IF job[w].kind = "signin" THEN "earn_signin" ELSE "earn_order"
  IN
  /\ pc[w] = "apply"
  /\ job[w].kind \in {"signin", "recharge"}
  /\ \E l \in Upgrades(job[w].shop, x.total, x.level) :
       Commit(w, [x EXCEPT !.level = l], <<Entry(w, type, job[w].points, x)>>)

Consume(w) ==
  LET x == Spent(seen[w], job[w].points) IN
  /\ pc[w] = "apply"
  /\ job[w].kind = "consume"
  /\ \/ /\ Spendable(seen[w], job[w].points)
        /\ Commit(w, x, <<Entry(w, "consume_order", -job[w].points, x)>>)
     \/ /\ ~Spendable(seen[w], job[w].points)
        /\ Finish(w)
        /\ UNCHANGED <<users, logs, now, served, contended>>

\* A new password, an e-mail address, a picture.
SaveProfile(w) ==
  /\ pc[w] = "apply"
  /\ job[w].kind = "profile"
  /\ Commit(w, seen[w], <<>>)

\* The process dies or the database goes away.
Fail(w) ==
  /\ pc[w] # "idle"
  /\ Finish(w)
  /\ UNCHANGED <<users, logs, now, served, contended>>

Tick ==
  /\ now < MaxTime
  /\ now' = now + 1
  /\ UNCHANGED <<users, logs, pc, job, seen, served, contended>>

Next ==
  \/ Tick
  \/ \E w \in Workers :
       \/ \E kind \in Kinds, u \in Users, s \in Shops : Receive(w, kind, u, s)
       \/ LookUp(w) \/ Earn(w) \/ Consume(w) \/ SaveProfile(w)
       \/ Fail(w)

Spec == Init /\ [][Next]_vars
-----------------------------------------------------------------------------
(***************************************************************************)
(* Properties                                                              *)
(***************************************************************************)
\* Users, log rows and the handlers' locals are of their kinds.
TypeOK ==
  /\ users \in [Users -> User]
  /\ logs \in Seq(PointsLog)
  /\ now \in Nat
  /\ pc \in [Workers -> {"idle", "look", "apply"}]
  /\ job \in [Workers -> Job \cup {None}]
  /\ seen \in [Workers -> User \cup {None}]
  /\ served \in Nat
  /\ contended \subseteq Users

\* A balance is never negative, and what was ever earned is what is left and what
\* was spent, whichever requests overlap and whichever saves are lost: a copy is
\* checked, changed and saved as a whole (PointsService, users/services.py).
AccountsAddUp ==
  \A u \in Users : /\ users[u].available >= 0 /\ users[u].used >= 0
                   /\ users[u].total = users[u].available + users[u].used

\* The balance some rows of the log tell: what the newest of them says.
Told(rows) == IF rows = {} THEN 0 ELSE logs[Max(rows)].current

\* The log explains the balance of a user whose requests did not overlap: each row
\* continues the one before, and the last one tells what is available.
LogExplainsBalance ==
  \A u \in Users \ contended :
    /\ \A i \in RowsOf(u) : logs[i].current = logs[i].points + Told({j \in RowsOf(u) : j < i})
    /\ users[u].available = Told(RowsOf(u))

\* From eight o'clock on, when the dates agree, a user earns the sign-in points of
\* a shop and a day once, unless two of the user's requests overlapped
\* (signin_earn_points, users/api.py).  Before eight every look-up misses the
\* sign-ins of the day: it asks for yesterday's.
OneSigninADay ==
  \A u \in Users \ contended, t \in {n \in 1..now : Local(n) = Utc(n)} :
    \A i, j \in {k \in RowsOf(u) : logs[k].type = "earn_signin" /\ logs[k].created = t} :
      logs[i].shop = logs[j].shop => i = j

\* The rows of points a user earned, those after which the level is looked up.
Earnings(u) == {i \in RowsOf(u) : logs[i].type # "consume_order"}

\* The level of a user whose requests did not overlap is the one the shop where
\* points were last earned gives for the total (check_membership_upgrade); another
\* shop's configuration may take a level away again.
LevelFitsTotal ==
  \A u \in Users \ contended :
    Earnings(u) # {} =>
      LET fit == LevelsFor(logs[Max(Earnings(u))].shop, users[u].total) IN
      fit # {} => users[u].level \in fit
=============================================================================
