---------------------------- MODULE PointsProofs ----------------------------
(***************************************************************************)
(* Theorems about Points, for every finite set of users, every set of      *)
(* workers and shops, every configuration of levels and every bound.       *)
(***************************************************************************)
EXTENDS Points, Sums, FiniteSetTheorems, SequenceTheorems, TLAPS

\* A handler has its request and a copy of its user.
HandlerOK(w) == pc[w] # "idle" => job[w] \in Job /\ seen[w] \in User

TypeInv == TypeOK /\ \A w \in Workers : HandlerOK(w)

\* A row, or a copy of one, in which what was earned is left or spent.
AddsUp(x) == x.available >= 0 /\ x.used >= 0 /\ x.total = x.available + x.used

CopiesAddUp == \A w \in Workers : pc[w] # "idle" => AddsUp(seen[w])

AccountsInv == AccountsAddUp /\ CopiesAddUp

USE DEF User, Job
-----------------------------------------------------------------------------
(***************************************************************************)
(* Type correctness                                                        *)
(***************************************************************************)
\* The rows of a log with one row per user, in some order, make a sequence in
\* which every user has one row.
LEMMA OpeningLogTyped ==
  ASSUME NEW Row \in [Users -> PointsLog],
         \A u \in Users : Row[u].user = u
  PROVE  /\ SetToSeq({Row[u] : u \in Users}) \in Seq(PointsLog)
         /\ \A v \in Users : \E i \in DOMAIN SetToSeq({Row[u] : u \in Users}) :
                 SetToSeq({Row[u] : u \in Users})[i] = Row[v]
         /\ \A i, j \in DOMAIN SetToSeq({Row[u] : u \in Users}) :
                 SetToSeq({Row[u] : u \in Users})[i] = SetToSeq({Row[u] : u \in Users})[j] => i = j
<1> DEFINE T == {Row[u] : u \in Users}
<1>1. Row \in Bijection(Users, T)
  BY DEF Bijection, Injection, Surjection, IsInjective
<1>2. ExistsBijection(Users, T)
  BY <1>1 DEF ExistsBijection
<1>3. IsFiniteSet(T)
  BY <1>2, UsersAssumption, FS_Bijection
<1>4. PICK f : f \in Bijection(1..Cardinality(T), T)
  BY <1>3, FS_CardinalityType DEF ExistsBijection
<1>5. f \in [1..Cardinality(T) -> T] /\ IsInjective(f)
  BY <1>4 DEF Bijection, Injection
<1>6. SetToSeq(T) \in [1..Cardinality(T) -> T] /\ IsInjective(SetToSeq(T))
  BY <1>5 DEF SetToSeq
<1>7. T \subseteq PointsLog
  OBVIOUS
<1>8. Cardinality(T) \in Nat
  BY <1>3, FS_CardinalityType
<1>9. SetToSeq(T) \in [1..Cardinality(T) -> PointsLog]
  BY <1>6, <1>7
<1>11. SetToSeq(T) \in Surjection(1..Cardinality(T), T)
  <2>1. SetToSeq(T) \in Injection(1..Cardinality(T), T)
    BY <1>6 DEF Injection
  <2>2. Cardinality(1..Cardinality(T)) = Cardinality(T)
    BY <1>8, FS_Interval
  <2> HIDE DEF T
  <2> QED
    BY <1>3, <2>1, <2>2, FS_Injection
<1>12. \A u \in Users : Row[u] \in T
  OBVIOUS
<1> HIDE DEF T
<1>10. SetToSeq(T) \in Seq(PointsLog)
  BY <1>8, <1>9, SeqDef
<1>13. \A u \in Users : \E i \in DOMAIN SetToSeq(T) : SetToSeq(T)[i] = Row[u]
  BY <1>6, <1>11, <1>12 DEF Surjection
<1>14. \A i, j \in DOMAIN SetToSeq(T) : SetToSeq(T)[i] = SetToSeq(T)[j] => i = j
  BY <1>6 DEF IsInjective
<1> QED
  BY <1>10, <1>13, <1>14 DEF T

\* Every row of such a sequence is a user's.
LEMMA OpeningLogFrom ==
  ASSUME NEW Row \in [Users -> PointsLog],
         \A u \in Users : Row[u].user = u
  PROVE  \A i \in DOMAIN SetToSeq({Row[u] : u \in Users}) :
           \E v \in Users : SetToSeq({Row[u] : u \in Users})[i] = Row[v]
<1> DEFINE T == {Row[u] : u \in Users}
<1>1. ExistsBijection(Users, T)
  <2>1. Row \in Bijection(Users, T)
    BY DEF Bijection, Injection, Surjection, IsInjective
  <2> QED
    BY <2>1 DEF ExistsBijection
<1>2. IsFiniteSet(T)
  BY <1>1, UsersAssumption, FS_Bijection
<1>3. PICK f : f \in Bijection(1..Cardinality(T), T)
  BY <1>2, FS_CardinalityType DEF ExistsBijection
<1>4. SetToSeq(T) \in [1..Cardinality(T) -> T]
  BY <1>3 DEF SetToSeq, Bijection, Injection
<1> QED
  BY <1>4

\* Earning and spending make a user of a user, and keep its columns adding up.
LEMMA EarnedAddsUp ==
  ASSUME NEW x \in User, NEW n \in Nat
  PROVE  Earned(x, n) \in User /\ (AddsUp(x) => AddsUp(Earned(x, n)))
<1> DEFINE e == Earned(x, n)
<1>1. /\ e.available = x.available + n /\ e.total = x.total + n
      /\ e.used = x.used /\ e.level = x.level
  BY DEF Earned
<1>2. e = [available |-> e.available, total |-> e.total, used |-> e.used, level |-> e.level]
  <2>1. DOMAIN e = {"available", "total", "used", "level"}
    BY DEF Earned
  <2>2. e = [i \in {"available", "total", "used", "level"} |-> e[i]]
    BY <2>1 DEF Earned
  <2> HIDE DEF e
  <2> QED
    BY <2>2
<1> HIDE DEF e
<1>3. e \in User /\ (AddsUp(x) => AddsUp(e))
  BY <1>1, <1>2 DEF AddsUp
<1> QED
  BY <1>3 DEF e

LEMMA SpentAddsUp ==
  ASSUME NEW x \in User, NEW n \in Nat
  PROVE  Spent(x, n) \in User /\ (AddsUp(x) /\ Spendable(x, n) => AddsUp(Spent(x, n)))
<1> DEFINE e == Spent(x, n)
<1>1. /\ e.available = x.available - n /\ e.used = x.used + n
      /\ e.total = x.total /\ e.level = x.level
  BY DEF Spent
<1>2. e = [available |-> e.available, total |-> e.total, used |-> e.used, level |-> e.level]
  <2>1. DOMAIN e = {"available", "total", "used", "level"}
    BY DEF Spent
  <2>2. e = [i \in {"available", "total", "used", "level"} |-> e[i]]
    BY <2>1 DEF Spent
  <2> HIDE DEF e
  <2> QED
    BY <2>2
<1> HIDE DEF e
<1>3. e \in User /\ (AddsUp(x) /\ Spendable(x, n) => AddsUp(e))
  BY <1>1, <1>2 DEF AddsUp, Spendable
<1> QED
  BY <1>3 DEF e

\* The levels check_membership_upgrade may give are levels.
LEMMA UpgradesTyped ==
  ASSUME NEW s \in Shops, NEW total, NEW level \in Levels
  PROVE  Upgrades(s, total, level) \subseteq Levels
BY LevelsAssumption DEF Upgrades, LevelsFor, Reached

\* The handlers start with nothing, the users with typed rows and logs.
LEMMA InitTyped == Init => TypeInv
<1> SUFFICES ASSUME Init PROVE TypeInv
  OBVIOUS
<1> USE PointsAssumption, LevelsAssumption
<1>1. PICK s \in Shops :
        /\ logs = IF Opening = 0 THEN <<>>
                  ELSE SetToSeq({[user |-> u, shop |-> s, type |-> "earn_order",
                                  points |-> Opening, current |-> Opening, created |-> 0] : u \in Users})
        /\ users \in [Users -> {[available |-> Opening, total |-> Opening, used |-> 0,
                                 level |-> l] :
                                  l \in IF Opening = 0 THEN {Regular} ELSE Upgrades(s, Opening, Regular)}]
  BY DEF Init
<1>2. users \in [Users -> User]
  BY <1>1, UpgradesTyped
<1>3. logs \in Seq(PointsLog)
  <2> DEFINE Row == [u \in Users |-> [user |-> u, shop |-> s, type |-> "earn_order",
                                      points |-> Opening, current |-> Opening, created |-> 0]]
  <2>1. Row \in [Users -> PointsLog]
    BY DEF PointsLog
  <2>2. \A u \in Users : Row[u].user = u
    OBVIOUS
  <2>3. SetToSeq({Row[u] : u \in Users}) \in Seq(PointsLog)
    <3> HIDE DEF Row
    <3> QED BY <2>1, <2>2, OpeningLogTyped
  <2>4. {Row[u] : u \in Users} =
          {[user |-> u, shop |-> s, type |-> "earn_order",
            points |-> Opening, current |-> Opening, created |-> 0] : u \in Users}
    OBVIOUS
  <2>5. CASE Opening = 0
    BY <1>1, <2>5
  <2>6. CASE Opening # 0
    BY <1>1, <2>3, <2>4, <2>6
  <2> QED
    BY <2>5, <2>6
<1>4. /\ now \in Nat /\ served \in Nat /\ contended \subseteq Users
      /\ pc \in [Workers -> {"idle", "look", "apply"}]
      /\ job \in [Workers -> Job \cup {None}]
      /\ seen \in [Workers -> User \cup {None}]
      /\ \A w \in Workers : pc[w] = "idle"
  BY DEF Init
<1> QED
  BY <1>2, <1>3, <1>4 DEF TypeInv, TypeOK, HandlerOK

\* Ending a request leaves its worker idle and the others as they were.
LEMMA FinishTyped ==
  ASSUME TypeInv, NEW w \in Workers, Finish(w)
  PROVE  /\ pc' \in [Workers -> {"idle", "look", "apply"}]
         /\ job' \in [Workers -> Job \cup {None}]
         /\ seen' \in [Workers -> User \cup {None}]
         /\ \A v \in Workers : HandlerOK(v)'
BY DEF TypeInv, TypeOK, HandlerOK, Finish

\* A change of points is saved and logged as what it should be.
LEMMA CommitTyped ==
  ASSUME TypeInv, NEW w \in Workers, NEW x \in User, NEW logged \in Seq(PointsLog),
         pc[w] # "idle", Commit(w, x, logged)
  PROVE  TypeInv'
<1>1. users' \in [Users -> User]
  BY DEF Commit, Saved, TypeInv, TypeOK
<1>2. logs' \in Seq(PointsLog)
  BY DEF Commit, TypeInv, TypeOK
<1>3. contended' \subseteq Users
  BY DEF Commit, TypeInv, TypeOK, HandlerOK
<1>4. now' \in Nat /\ served' \in Nat
  BY DEF Commit, TypeInv, TypeOK
<1>5. Finish(w)
  BY DEF Commit
<1> QED
  BY <1>1, <1>2, <1>3, <1>4, <1>5, FinishTyped DEF TypeInv, TypeOK

\* The log row of a change is one.
LEMMA EntryTyped ==
  ASSUME TypeInv, NEW w \in Workers, pc[w] # "idle", NEW x \in User, NEW points \in Int,
         NEW type \in {"earn_order", "earn_signin", "consume_order"}
  PROVE  <<Entry(w, type, points, x)>> \in Seq(PointsLog)
<1>1. Entry(w, type, points, x) \in PointsLog
  BY DEF TypeInv, TypeOK, HandlerOK, Entry, PointsLog
<1> QED
  BY <1>1

\* Every step keeps the types.
LEMMA NextTyped == TypeInv /\ [Next]_vars => TypeInv'
<1> SUFFICES ASSUME TypeInv, [Next]_vars PROVE TypeInv'
  OBVIOUS
<1> USE PointsAssumption, LevelsAssumption
<1>1. CASE UNCHANGED vars
  BY <1>1 DEF TypeInv, TypeOK, HandlerOK, vars
<1>2. CASE Tick
  BY <1>2 DEF Tick, TypeInv, TypeOK, HandlerOK
<1>3. ASSUME NEW w \in Workers, NEW kind \in Kinds, NEW u \in Users, NEW s \in Shops,
             Receive(w, kind, u, s)
      PROVE  TypeInv'
  <2>1. PICK x \in PointsAsked(kind) :
          job' = [job EXCEPT ![w] = [kind |-> kind, user |-> u, shop |-> s, points |-> x]]
    BY <1>3 DEF Receive
  <2>2. x \in Nat
    BY <2>1 DEF PointsAsked, Kinds
  <2>3. users[u] \in User
    BY DEF TypeInv, TypeOK
  <2> QED
    BY <1>3, <2>1, <2>2, <2>3 DEF Receive, TypeInv, TypeOK, HandlerOK
<1>4. ASSUME NEW w \in Workers, LookUp(w) PROVE TypeInv'
  <2>1. CASE SignedIn(job[w].user, job[w].shop)
    <3>1. Finish(w)
      BY <1>4, <2>1 DEF LookUp
    <3> QED
      BY <1>4, <3>1, FinishTyped DEF LookUp, TypeInv, TypeOK
  <2>2. CASE ~SignedIn(job[w].user, job[w].shop)
    BY <1>4, <2>2 DEF LookUp, TypeInv, TypeOK, HandlerOK
  <2> QED
    BY <2>1, <2>2
<1>5. ASSUME NEW w \in Workers, Earn(w) PROVE TypeInv'
  <2> DEFINE x == Earned(seen[w], job[w].points)
             type == IF job[w].kind = "signin" THEN "earn_signin" ELSE "earn_order"
  <2>1. PICK l \in Upgrades(job[w].shop, x.total, x.level) :
          Commit(w, [x EXCEPT !.level = l], <<Entry(w, type, job[w].points, x)>>)
    BY <1>5 DEF Earn
  <2>2. pc[w] # "idle" /\ job[w] \in Job /\ seen[w] \in User
    BY <1>5 DEF Earn, TypeInv, HandlerOK
  <2>3. x \in User
    BY <2>2, EarnedAddsUp
  <2>4. l \in Levels
    BY <2>1, <2>2, <2>3, UpgradesTyped
  <2>5. [x EXCEPT !.level = l] \in User
    BY <2>3, <2>4
  <2>6. <<Entry(w, type, job[w].points, x)>> \in Seq(PointsLog)
    BY <2>2, <2>3, EntryTyped
  <2> QED
    BY <2>1, <2>2, <2>5, <2>6, CommitTyped
<1>6. ASSUME NEW w \in Workers, Consume(w) PROVE TypeInv'
  <2> DEFINE x == Spent(seen[w], job[w].points)
  <2>1. pc[w] # "idle" /\ job[w] \in Job /\ seen[w] \in User
    BY <1>6 DEF Consume, TypeInv, HandlerOK
  <2>2. CASE Commit(w, x, <<Entry(w, "consume_order", -job[w].points, x)>>)
    <3>1. x \in User
      BY <2>1, SpentAddsUp
    <3>2. <<Entry(w, "consume_order", -job[w].points, x)>> \in Seq(PointsLog)
      BY <2>1, <3>1, EntryTyped
    <3> QED
      BY <2>1, <2>2, <3>1, <3>2, CommitTyped
  <2>3. CASE Finish(w) /\ UNCHANGED <<users, logs, now, served, contended>>
    BY <2>3, FinishTyped DEF TypeInv, TypeOK
  <2> QED
    BY <1>6, <2>2, <2>3 DEF Consume
<1>7. ASSUME NEW w \in Workers, SaveProfile(w) PROVE TypeInv'
  <2>1. pc[w] # "idle" /\ seen[w] \in User /\ Commit(w, seen[w], <<>>)
    BY <1>7 DEF SaveProfile, TypeInv, HandlerOK
  <2>2. <<>> \in Seq(PointsLog)
    OBVIOUS
  <2> QED
    BY <2>1, <2>2, CommitTyped
<1>8. ASSUME NEW w \in Workers, Fail(w) PROVE TypeInv'
  <2>1. Finish(w)
    BY <1>8 DEF Fail
  <2> QED
    BY <1>8, <2>1, FinishTyped DEF Fail, TypeInv, TypeOK
<1> QED
  BY <1>1, <1>2, <1>3, <1>4, <1>5, <1>6, <1>7, <1>8 DEF Next

\* Every reachable state of Points is well typed.
THEOREM TypeCorrectness == Spec => []TypeOK
<1>1. TypeInv => TypeOK
  BY DEF TypeInv
<1> QED
  BY InitTyped, NextTyped, <1>1, PTL DEF Spec
-----------------------------------------------------------------------------
(***************************************************************************)
(* Accounts                                                                *)
(***************************************************************************)
\* Users start with what they earned, all of it left.
LEMMA InitAddsUp == Init => AccountsInv
BY PointsAssumption, LevelsAssumption DEF Init, AccountsInv, AccountsAddUp, CopiesAddUp

\* Saving a copy that adds up keeps every account adding up, whatever was saved
\* since the copy was made.
LEMMA CommitAddsUp ==
  ASSUME TypeInv, AccountsInv, NEW w \in Workers, NEW x \in User, AddsUp(x), NEW logged,
         pc[w] # "idle", Commit(w, x, logged)
  PROVE  AccountsInv'
<1>1. users' = [users EXCEPT ![job[w].user] = x] /\ Finish(w)
  BY DEF Commit, Saved
<1>2. AccountsAddUp'
  BY <1>1 DEF AccountsInv, AccountsAddUp, AddsUp, TypeInv, TypeOK
<1>3. CopiesAddUp'
  BY <1>1 DEF AccountsInv, CopiesAddUp, AddsUp, Finish, TypeInv, TypeOK
<1> QED
  BY <1>2, <1>3 DEF AccountsInv

\* A request that ends without a save leaves the accounts alone.
LEMMA FinishAddsUp ==
  ASSUME TypeInv, AccountsInv, NEW w \in Workers, Finish(w), UNCHANGED users
  PROVE  AccountsInv'
<1>1. AccountsAddUp'
  BY DEF AccountsInv, AccountsAddUp
<1>2. CopiesAddUp'
  BY DEF AccountsInv, CopiesAddUp, AddsUp, Finish, TypeInv, TypeOK
<1> QED
  BY <1>1, <1>2 DEF AccountsInv

\* Every step keeps accounts and copies adding up.
LEMMA NextAddsUp == TypeInv /\ AccountsInv /\ [Next]_vars => AccountsInv'
<1> SUFFICES ASSUME TypeInv, AccountsInv, [Next]_vars PROVE AccountsInv'
  OBVIOUS
<1> USE PointsAssumption
<1>1. CASE UNCHANGED vars
  BY <1>1 DEF AccountsInv, AccountsAddUp, CopiesAddUp, AddsUp, vars
<1>2. CASE Tick
  BY <1>2 DEF Tick, AccountsInv, AccountsAddUp, CopiesAddUp, AddsUp
<1>3. ASSUME NEW w \in Workers, NEW kind \in Kinds, NEW u \in Users, NEW s \in Shops,
             Receive(w, kind, u, s)
      PROVE  AccountsInv'
  <2>1. AddsUp(users[u])
    BY DEF AccountsInv, AccountsAddUp, AddsUp
  <2>2. /\ seen' = [seen EXCEPT ![w] = users[u]]
        /\ \A v \in Workers \ {w} : pc'[v] = pc[v]
        /\ UNCHANGED users
    BY <1>3 DEF Receive, TypeInv, TypeOK
  <2>3. CopiesAddUp'
    BY <2>1, <2>2 DEF AccountsInv, CopiesAddUp, AddsUp, TypeInv, TypeOK
  <2> QED
    BY <2>2, <2>3 DEF AccountsInv, AccountsAddUp
<1>4. ASSUME NEW w \in Workers, LookUp(w) PROVE AccountsInv'
  <2>1. CASE SignedIn(job[w].user, job[w].shop)
    BY <1>4, <2>1, FinishAddsUp DEF LookUp
  <2>2. CASE ~SignedIn(job[w].user, job[w].shop)
    BY <1>4, <2>2 DEF LookUp, AccountsInv, AccountsAddUp, CopiesAddUp, AddsUp, TypeInv, TypeOK
  <2> QED
    BY <2>1, <2>2
<1>5. ASSUME NEW w \in Workers, Earn(w) PROVE AccountsInv'
  <2> DEFINE x == Earned(seen[w], job[w].points)
             type == IF job[w].kind = "signin" THEN "earn_signin" ELSE "earn_order"
  <2>1. PICK l \in Upgrades(job[w].shop, x.total, x.level) :
          Commit(w, [x EXCEPT !.level = l], <<Entry(w, type, job[w].points, x)>>)
    BY <1>5 DEF Earn
  <2>2. pc[w] # "idle" /\ job[w] \in Job /\ seen[w] \in User /\ AddsUp(seen[w])
    BY <1>5 DEF Earn, TypeInv, HandlerOK, AccountsInv, CopiesAddUp
  <2>3. x \in User /\ AddsUp(x)
    BY <2>2, EarnedAddsUp
  <2>4. l \in Levels
    BY <2>1, <2>2, <2>3, UpgradesTyped
  <2>5. [x EXCEPT !.level = l] \in User /\ AddsUp([x EXCEPT !.level = l])
    BY <2>3, <2>4 DEF AddsUp
  <2> QED
    BY <2>1, <2>2, <2>5, CommitAddsUp
<1>6. ASSUME NEW w \in Workers, Consume(w) PROVE AccountsInv'
  <2> DEFINE x == Spent(seen[w], job[w].points)
  <2>1. pc[w] # "idle" /\ job[w] \in Job /\ seen[w] \in User /\ AddsUp(seen[w])
    BY <1>6 DEF Consume, TypeInv, HandlerOK, AccountsInv, CopiesAddUp
  <2>2. CASE /\ Spendable(seen[w], job[w].points)
             /\ Commit(w, x, <<Entry(w, "consume_order", -job[w].points, x)>>)
    <3>1. x \in User /\ AddsUp(x)
      BY <2>1, <2>2, SpentAddsUp
    <3> QED
      BY <2>1, <2>2, <3>1, CommitAddsUp
  <2>3. CASE Finish(w) /\ UNCHANGED <<users, logs, now, served, contended>>
    BY <2>3, FinishAddsUp
  <2> QED
    BY <1>6, <2>2, <2>3 DEF Consume
<1>7. ASSUME NEW w \in Workers, SaveProfile(w) PROVE AccountsInv'
  <2>1. /\ pc[w] # "idle" /\ seen[w] \in User /\ AddsUp(seen[w])
        /\ Commit(w, seen[w], <<>>)
    BY <1>7 DEF SaveProfile, TypeInv, HandlerOK, AccountsInv, CopiesAddUp
  <2> QED
    BY <2>1, CommitAddsUp
<1>8. ASSUME NEW w \in Workers, Fail(w) PROVE AccountsInv'
  BY <1>8, FinishAddsUp DEF Fail
<1> QED
  BY <1>1, <1>2, <1>3, <1>4, <1>5, <1>6, <1>7, <1>8 DEF Next

\* No balance is negative and what a user earned is what is left and what was
\* spent, for any number of overlapping requests and lost saves.
THEOREM AccountsKept == Spec => []AccountsAddUp
<1>1. AccountsInv => AccountsAddUp
  BY DEF AccountsInv
<1> QED
  BY InitTyped, NextTyped, InitAddsUp, NextAddsUp, <1>1, PTL DEF Spec
-----------------------------------------------------------------------------
(***************************************************************************)
(* The log                                                                 *)
(***************************************************************************)
\* The copies of a user whose requests did not overlap are the row.
Fresh ==
  \A w \in Workers :
    pc[w] # "idle" /\ job[w].user \notin contended => seen[w] = users[job[w].user]

\* Sign-ins of a user, at a shop, in a half of a day.
SigninsAt(u, s, t) ==
  {i \in RowsOf(u) : logs[i].type = "earn_signin" /\ logs[i].shop = s /\ logs[i].created = t}

\* What a look-up found stays true as long as no request of the user overlaps: from
\* eight o'clock on the sign-in it allows is the first of the half of the day.
Looked ==
  \A w \in Workers :
    pc[w] = "apply" /\ job[w].kind = "signin" /\ job[w].user \notin contended
      /\ Local(now) = Utc(now)
    => SigninsAt(job[w].user, job[w].shop, now) = {}

\* No row is from the future.
Dated == \A i \in DOMAIN logs : logs[i].created <= now

LogInv == Fresh /\ Dated /\ Looked /\ LogExplainsBalance /\ OneSigninADay /\ LevelFitsTotal

\* What a change leaves of users and log: u has the row x, e is the log's new row.
Recorded(u, x, e) ==
  /\ users' = [users EXCEPT ![u] = x]
  /\ logs' = logs \o <<e>>
  /\ e \in PointsLog /\ e.user = u /\ e.created = now

LEMMA RowsInLog ==
  ASSUME TypeInv, NEW u
  PROVE  RowsOf(u) \subseteq 1..Len(logs) /\ DOMAIN logs = 1..Len(logs) /\ Len(logs) \in Nat
BY DEF RowsOf, TypeInv, TypeOK

\* The rows of a longer log.
LEMMA RowsRecorded ==
  ASSUME TypeInv, NEW u \in Users, NEW x, NEW e, Recorded(u, x, e), NEW v
  PROVE  /\ RowsOf(v)' = IF v = u THEN RowsOf(v) \cup {Len(logs) + 1} ELSE RowsOf(v)
         /\ \A i \in 1..Len(logs) : logs'[i] = logs[i]
         /\ logs'[Len(logs) + 1] = e
         /\ DOMAIN logs' = 1..(Len(logs) + 1)
<1>1. logs \in Seq(PointsLog) /\ logs' = logs \o <<e>> /\ e \in PointsLog /\ e.user = u
  BY DEF Recorded, TypeInv, TypeOK
<1>2. /\ \A i \in 1..Len(logs) : logs'[i] = logs[i]
      /\ logs'[Len(logs) + 1] = e
      /\ DOMAIN logs' = 1..(Len(logs) + 1)
  BY <1>1
<1> QED
  BY <1>1, <1>2 DEF RowsOf

\* The newest of some rows is one of them, and no other is newer.
LEMMA Newest ==
  ASSUME TypeInv, NEW R \in SUBSET (1..Len(logs)), R # {}
  PROVE  Max(R) \in R /\ \A i \in R : i <= Max(R)
BY RowsInLog, MaxIs

\* A balance told by rows of the log is told by them ever after.
LEMMA ToldKept ==
  ASSUME TypeInv, NEW R \in SUBSET (1..Len(logs)), \A i \in 1..Len(logs) : logs'[i] = logs[i]
  PROVE  (IF R = {} THEN 0 ELSE logs'[Max(R)].current) = Told(R)
BY Newest DEF Told

\* What a row and a log row say when the handler's copy was the row: the log row
\* continues the balance, a sign-in is the first of its half of a day, and the
\* level fits after points earned and stays after points spent.
Sound(u, x, e) ==
  /\ e.current = e.points + users[u].available
  /\ x.available = e.current
  /\ e.type = "earn_signin" /\ Local(now) = Utc(now) => SigninsAt(u, e.shop, now) = {}
  /\ e.type # "consume_order" /\ LevelsFor(e.shop, x.total) # {} =>
       x.level \in LevelsFor(e.shop, x.total)
  /\ e.type = "consume_order" => x.total = users[u].total /\ x.level = users[u].level

\* A sound row and its log row keep the log explaining every balance.
LEMMA RecordedExplains ==
  ASSUME TypeInv, LogExplainsBalance, NEW u \in Users, NEW x, NEW e, Recorded(u, x, e),
         u \notin contended => Sound(u, x, e), contended \subseteq contended'
  PROVE  LogExplainsBalance'
<1> SUFFICES ASSUME NEW v \in Users \ contended'
             PROVE  /\ \A i \in RowsOf(v)' : logs'[i].current = logs'[i].points
                                              + Told({j \in RowsOf(v) : j < i})'
                    /\ users'[v].available = Told(RowsOf(v))'
  BY DEF LogExplainsBalance
<1>0. PICK n \in Nat : n = Len(logs)
  BY RowsInLog
<1>1. /\ RowsOf(v)' = IF v = u THEN RowsOf(v) \cup {n + 1} ELSE RowsOf(v)
      /\ \A i \in 1..n : logs'[i] = logs[i]
      /\ logs'[n + 1] = e
  BY <1>0, RowsRecorded
<1>2. RowsOf(v) \subseteq 1..n
  BY <1>0, RowsInLog
<1>3. /\ \A i \in RowsOf(v) : logs[i].current = logs[i].points + Told({j \in RowsOf(v) : j < i})
      /\ users[v].available = Told(RowsOf(v))
  BY DEF LogExplainsBalance
<1>4. \A R \in SUBSET (1..n) : (IF R = {} THEN 0 ELSE logs'[Max(R)].current) = Told(R)
  BY <1>0, <1>1, ToldKept
<1>5. ASSUME NEW i \in RowsOf(v)
      PROVE  logs'[i].current = logs'[i].points + Told({j \in RowsOf(v) : j < i})'
  <2>1. i \in 1..n /\ logs'[i] = logs[i]
    BY <1>1, <1>2
  <2>2. {j \in RowsOf(v)' : j < i} = {j \in RowsOf(v) : j < i}
    BY <1>1, <1>2, <2>1
  <2> DEFINE R == {j \in RowsOf(v) : j < i}
  <2>3. R \in SUBSET (1..n) /\ R = {j \in RowsOf(v)' : j < i}
    BY <1>2, <2>2
  <2>4. Told({j \in RowsOf(v) : j < i})' = IF R = {} THEN 0 ELSE logs'[Max(R)].current
    BY <2>3 DEF Told
  <2>5. Told({j \in RowsOf(v) : j < i})' = Told(R)
    BY <1>4, <2>3, <2>4
  <2> QED
    BY <1>3, <2>1, <2>5
<1>6. CASE v # u
  <2>1. RowsOf(v)' = RowsOf(v) /\ users'[v] = users[v]
    BY <1>1, <1>6 DEF Recorded, TypeInv, TypeOK
  <2>2. Told(RowsOf(v))' = IF RowsOf(v) = {} THEN 0 ELSE logs'[Max(RowsOf(v))].current
    BY <2>1 DEF Told
  <2>3. Told(RowsOf(v))' = Told(RowsOf(v))
    BY <1>2, <1>4, <2>2
  <2> QED
    BY <1>3, <1>5, <2>1, <2>3
<1>7. CASE v = u
  <2>1. Sound(u, x, e) /\ users'[v] = x
    BY <1>7 DEF Recorded, TypeInv, TypeOK
  <2>2. RowsOf(v)' = RowsOf(v) \cup {n + 1}
    BY <1>1, <1>7
  <2>3. Max(RowsOf(v) \cup {n + 1}) = n + 1
    BY <1>2, MaxOfMore
  <2>4. Told(RowsOf(v))' = e.current
    <3>1. Told(RowsOf(v))' = IF RowsOf(v) \cup {n + 1} = {} THEN 0
                             ELSE logs'[Max(RowsOf(v) \cup {n + 1})].current
      BY <2>2 DEF Told
    <3> QED
      BY <1>1, <2>3, <3>1
  <2>5. Told({j \in RowsOf(v) : j < n + 1})' = Told(RowsOf(v))
    <3>1. {j \in RowsOf(v)' : j < n + 1} = RowsOf(v)
      BY <1>2, <2>2
    <3>2. Told({j \in RowsOf(v) : j < n + 1})'
            = IF RowsOf(v) = {} THEN 0 ELSE logs'[Max(RowsOf(v))].current
      BY <3>1 DEF Told
    <3> QED
      BY <1>2, <1>4, <3>2
  <2>6. e.current = e.points + Told(RowsOf(v))
    BY <1>3, <1>7, <2>1 DEF Sound
  <2>7. logs'[n + 1].current = logs'[n + 1].points + Told({j \in RowsOf(v) : j < n + 1})'
    BY <1>1, <2>5, <2>6
  <2>8. \A i \in RowsOf(v)' : i \in RowsOf(v) \/ i = n + 1
    BY <2>2
  <2>9. users'[v].available = Told(RowsOf(v))'
    BY <2>1, <2>4 DEF Sound
  <2>10. \A i \in RowsOf(v)' : logs'[i].current = logs'[i].points
                                 + Told({j \in RowsOf(v) : j < i})'
    <3> SUFFICES ASSUME NEW i \in RowsOf(v)'
                 PROVE logs'[i].current = logs'[i].points + Told({j \in RowsOf(v) : j < i})'
      OBVIOUS
    <3>1. CASE i \in RowsOf(v)
      BY <3>1, <1>5
    <3>2. CASE i = n + 1
      BY <3>2, <2>7
    <3> QED
      BY <2>8, <3>1, <3>2
  <2> QED
    BY <2>9, <2>10
<1> QED
  BY <1>6, <1>7

\* A sign-in that is the first of its half of a day leaves it one.
LEMMA RecordedSignsInOnce ==
  ASSUME TypeInv, OneSigninADay, NEW u \in Users, NEW x, NEW e, Recorded(u, x, e),
         u \notin contended => Sound(u, x, e), contended \subseteq contended', now' = now
  PROVE  OneSigninADay'
<1> SUFFICES ASSUME NEW v \in Users \ contended', NEW t \in 1..now, Local(t) = Utc(t),
                    NEW i \in RowsOf(v)', NEW j \in RowsOf(v)',
                    logs'[i].type = "earn_signin", logs'[i].created = t,
                    logs'[j].type = "earn_signin", logs'[j].created = t,
                    logs'[i].shop = logs'[j].shop, i # j
             PROVE  FALSE
  BY DEF OneSigninADay, Local, Utc
<1> DEFINE n == Len(logs)
<1>1. /\ RowsOf(v)' = IF v = u THEN RowsOf(v) \cup {n + 1} ELSE RowsOf(v)
      /\ \A k \in 1..n : logs'[k] = logs[k]
      /\ logs'[n + 1] = e
  BY RowsRecorded
<1>2. RowsOf(v) \subseteq 1..n /\ n \in Nat
  BY RowsInLog
<1>3. CASE i \in RowsOf(v) /\ j \in RowsOf(v)
  <2>1. /\ logs[i].type = "earn_signin" /\ logs[i].created = t
        /\ logs[j].type = "earn_signin" /\ logs[j].created = t
        /\ logs[i].shop = logs[j].shop
    BY <1>1, <1>2, <1>3
  <2> QED
    BY <1>3, <2>1 DEF OneSigninADay
<1>4. ASSUME NEW a \in RowsOf(v), logs'[a].type = "earn_signin", logs'[a].created = t,
             logs'[a].shop = e.shop, v = u, e.type = "earn_signin", e.created = t
      PROVE  FALSE
  <2>1. Sound(u, x, e)
    BY <1>4
  <2>2. t = now
    BY <1>4 DEF Recorded
  <2>3. SigninsAt(u, e.shop, now) = {}
    BY <1>4, <2>1, <2>2 DEF Sound
  <2>4. logs[a] = logs'[a]
    BY <1>1, <1>2
  <2>5. a \in SigninsAt(u, e.shop, now)
    BY <1>4, <2>2, <2>4 DEF SigninsAt
  <2> QED
    BY <2>3, <2>5
<1>5. CASE i \notin RowsOf(v)
  <2>1. v = u /\ i = n + 1 /\ j \in RowsOf(v)
    BY <1>1, <1>5
  <2>2. logs'[i] = e
    BY <1>1, <2>1
  <2> QED
    BY <1>4, <2>1, <2>2
<1>6. CASE j \notin RowsOf(v)
  <2>1. v = u /\ j = n + 1 /\ i \in RowsOf(v)
    BY <1>1, <1>6
  <2>2. logs'[j] = e
    BY <1>1, <2>1
  <2> QED
    BY <1>4, <2>1, <2>2
<1> QED
  BY <1>3, <1>5, <1>6

\* A level that fits after points were earned, and stays after points were spent,
\* goes on fitting.
LEMMA RecordedFits ==
  ASSUME TypeInv, LevelFitsTotal, NEW u \in Users, NEW x, NEW e, Recorded(u, x, e),
         u \notin contended => Sound(u, x, e), contended \subseteq contended'
  PROVE  LevelFitsTotal'
<1> SUFFICES ASSUME NEW v \in Users \ contended', Earnings(v)' # {},
                    LevelsFor(logs'[Max(Earnings(v)')].shop, users'[v].total) # {}
             PROVE  users'[v].level \in LevelsFor(logs'[Max(Earnings(v)')].shop, users'[v].total)
  BY DEF LevelFitsTotal, LevelsFor, Reached
<1> DEFINE n == Len(logs)
<1>1. /\ RowsOf(v)' = IF v = u THEN RowsOf(v) \cup {n + 1} ELSE RowsOf(v)
      /\ \A k \in 1..n : logs'[k] = logs[k]
      /\ logs'[n + 1] = e
  BY RowsRecorded
<1>2. RowsOf(v) \subseteq 1..n /\ n \in Nat /\ Earnings(v) \in SUBSET (1..n)
  BY RowsInLog DEF Earnings
<1>3. CASE Earnings(v)' = Earnings(v) /\ users'[v].total = users[v].total
             /\ users'[v].level = users[v].level
  <2>1. Max(Earnings(v)) \in 1..n
    BY <1>2, <1>3, MaxIs
  <2>2. logs'[Max(Earnings(v)')].shop = logs[Max(Earnings(v))].shop
    BY <1>1, <1>3, <2>1
  <2> QED
    BY <1>3, <2>2 DEF LevelFitsTotal
<1>4. CASE v # u
  <2>1. users'[v] = users[v]
    BY <1>4 DEF Recorded, TypeInv, TypeOK
  <2>2. Earnings(v)' = Earnings(v)
    BY <1>1, <1>2, <1>4 DEF Earnings
  <2> QED
    BY <1>3, <2>1, <2>2
<1>5. CASE v = u
  <2>1. Sound(u, x, e) /\ users'[v] = x
    BY <1>5 DEF Recorded, TypeInv, TypeOK
  <2>2. CASE e.type = "consume_order"
    <3>1. Earnings(v)' = Earnings(v)
      BY <1>1, <1>2, <1>5, <2>2 DEF Earnings
    <3>2. users'[v].total = users[v].total /\ users'[v].level = users[v].level
      BY <1>5, <2>1, <2>2 DEF Sound
    <3> QED
      BY <1>3, <3>1, <3>2
  <2>3. CASE e.type # "consume_order"
    <3>1. Earnings(v)' = Earnings(v) \cup {n + 1}
      BY <1>1, <1>2, <1>5, <2>3 DEF Earnings
    <3>2. Max(Earnings(v)') = n + 1
      BY <1>2, <3>1, MaxOfMore
    <3>3. logs'[Max(Earnings(v)')] = e
      BY <1>1, <3>2
    <3> QED
      BY <2>1, <2>3, <3>3 DEF Sound
  <2> QED
    BY <2>2, <2>3
<1> QED
  BY <1>4, <1>5

\* A commit leaves the copies of users without overlap the row.
LEMMA CommitFresh ==
  ASSUME TypeInv, Fresh, NEW w \in Workers, pc[w] # "idle", NEW x, NEW logged, Commit(w, x, logged)
  PROVE  Fresh'
<1> SUFFICES ASSUME NEW v \in Workers, pc'[v] # "idle", job'[v].user \notin contended'
             PROVE  seen'[v] = users'[job'[v].user]
  BY DEF Fresh
<1>1. /\ Finish(w)
      /\ users' = [users EXCEPT ![job[w].user] = x]
      /\ contended' = IF OthersHave(w, job[w].user) THEN contended \cup {job[w].user} ELSE contended
  BY DEF Commit, Saved
<1>2. v # w /\ pc[v] # "idle" /\ job'[v] = job[v] /\ seen'[v] = seen[v]
  BY <1>1 DEF Finish, TypeInv, TypeOK
<1>3. job[v].user # job[w].user
  BY <1>1, <1>2 DEF OthersHave
<1>4. users'[job[v].user] = users[job[v].user]
  BY <1>1, <1>2, <1>3 DEF TypeInv, TypeOK, HandlerOK
<1>5. seen[v] = users[job[v].user]
  BY <1>1, <1>2 DEF Fresh
<1> QED
  BY <1>2, <1>4, <1>5

\* A commit leaves what the others' look-ups found true.
LEMMA RecordedLooked ==
  ASSUME TypeInv, Looked, NEW w \in Workers, pc[w] # "idle", NEW x, NEW e, NEW logged,
         Commit(w, x, logged), Recorded(job[w].user, x, e)
  PROVE  Looked'
<1> SUFFICES ASSUME NEW v \in Workers, pc'[v] = "apply", job'[v].kind = "signin",
                    job'[v].user \notin contended', Local(now') = Utc(now')
             PROVE  SigninsAt(job[v].user, job[v].shop, now)' = {}
  BY DEF Looked, Local, Utc
<1>1. /\ Finish(w) /\ now' = now
      /\ contended' = IF OthersHave(w, job[w].user) THEN contended \cup {job[w].user} ELSE contended
  BY DEF Commit
<1>2. v # w /\ pc[v] = "apply" /\ job'[v] = job[v]
  BY <1>1 DEF Finish, TypeInv, TypeOK
<1>3. job[v].user # job[w].user
  BY <1>1, <1>2 DEF OthersHave
<1>4. job[w].user \in Users
  BY DEF TypeInv, HandlerOK
<1>5. /\ RowsOf(job[v].user)' = RowsOf(job[v].user)
      /\ \A i \in 1..Len(logs) : logs'[i] = logs[i]
  <2> DEFINE u == job[v].user
  <2>1. /\ RowsOf(u)' = RowsOf(u)
        /\ \A i \in 1..Len(logs) : logs'[i] = logs[i]
    <3>1. PICK z : z = job[v].user
      OBVIOUS
    <3>2. RowsOf(z)' = RowsOf(z) /\ \A i \in 1..Len(logs) : logs'[i] = logs[i]
      BY <1>3, <1>4, <3>1, RowsRecorded
    <3> QED
      BY <1>2, <3>1, <3>2 DEF RowsOf
  <2> QED
    BY <2>1
<1>6. SigninsAt(job[v].user, job[v].shop, now) = {}
  BY <1>1, <1>2 DEF Looked
<1>7. RowsOf(job[v].user) \subseteq 1..Len(logs)
  BY RowsInLog
<1>8. \A i \in RowsOf(job[v].user) : logs'[i] = logs[i]
  BY <1>5, <1>7
<1> QED
  BY <1>1, <1>2, <1>5, <1>6, <1>8 DEF SigninsAt

\* A commit of a row and a log row that are sound keeps all that is said of the log.
LEMMA CommitLog ==
  ASSUME TypeInv, LogInv, NEW w \in Workers, pc[w] # "idle", NEW x, NEW e \in PointsLog,
         e.user = job[w].user, e.created = now, Commit(w, x, <<e>>),
         job[w].user \notin contended => Sound(job[w].user, x, e)
  PROVE  LogInv'
<1>1. PICK u \in Users : u = job[w].user
  BY DEF TypeInv, HandlerOK
<1>2. Recorded(u, x, e) /\ contended \subseteq contended' /\ now' = now
  BY <1>1 DEF Commit, Saved, Recorded
<1>3. u \notin contended => Sound(u, x, e)
  BY <1>1
<1>4. LogExplainsBalance' /\ OneSigninADay' /\ LevelFitsTotal'
  BY <1>2, <1>3, RecordedExplains, RecordedSignsInOnce, RecordedFits DEF LogInv
<1>5. Fresh'
  BY CommitFresh DEF LogInv
<1>6. Looked'
  <2>1. Recorded(job[w].user, x, e)
    BY <1>1, <1>2
  <2> QED
    BY <2>1, RecordedLooked DEF LogInv
<1>7. Dated'
  <2>1. /\ \A i \in 1..Len(logs) : logs'[i] = logs[i]
        /\ logs'[Len(logs) + 1] = e
        /\ DOMAIN logs' = 1..(Len(logs) + 1)
    BY <1>2, RowsRecorded
  <2>2. Len(logs) \in Nat /\ DOMAIN logs = 1..Len(logs)
    BY RowsInLog
  <2>3. \A i \in DOMAIN logs' : i \in DOMAIN logs \/ i = Len(logs) + 1
    BY <2>1, <2>2
  <2>4. now \in Nat
    BY DEF TypeInv, TypeOK
  <2> QED
    BY <1>2, <2>1, <2>2, <2>3, <2>4 DEF LogInv, Dated
<1> QED
  BY <1>4, <1>5, <1>6, <1>7 DEF LogInv

\* What is said of log and users stays true of fewer users.
LEMMA FewerKept ==
  ASSUME LogExplainsBalance, LevelFitsTotal, logs' = logs, contended \subseteq contended',
         \A u \in Users \ contended' : users'[u] = users[u]
  PROVE  LogExplainsBalance' /\ LevelFitsTotal'
<1>1. LogExplainsBalance'
  <2> SUFFICES ASSUME NEW u \in Users \ contended'
               PROVE  /\ \A i \in RowsOf(u)' : logs'[i].current = logs'[i].points
                                                + Told({j \in RowsOf(u) : j < i})'
                      /\ users'[u].available = Told(RowsOf(u))'
    BY DEF LogExplainsBalance
  <2>1. RowsOf(u)' = RowsOf(u)
    BY DEF RowsOf
  <2>2. /\ \A i \in RowsOf(u) : logs[i].current = logs[i].points + Told({j \in RowsOf(u) : j < i})
        /\ users[u].available = Told(RowsOf(u))
    BY DEF LogExplainsBalance
  <2>3. Told(RowsOf(u))' = Told(RowsOf(u))
    BY <2>1 DEF Told
  <2>4. ASSUME NEW i \in RowsOf(u)
        PROVE  Told({j \in RowsOf(u) : j < i})' = Told({j \in RowsOf(u) : j < i})
    <3>1. {j \in RowsOf(u) : j < i}' = {j \in RowsOf(u) : j < i}
      BY <2>1
    <3> QED
      BY <3>1 DEF Told
  <2> QED
    BY <2>1, <2>2, <2>3, <2>4
<1>2. LevelFitsTotal'
  BY DEF LevelFitsTotal, Earnings, RowsOf
<1> QED
  BY <1>1, <1>2

\* What is said of the log says nothing of the handlers.
LEMMA LogKept ==
  ASSUME LogExplainsBalance, OneSigninADay, LevelFitsTotal, UNCHANGED <<users, logs, now, contended>>
  PROVE  LogExplainsBalance' /\ OneSigninADay' /\ LevelFitsTotal'
<1>1. LogExplainsBalance' /\ LevelFitsTotal'
  BY FewerKept
<1>2. OneSigninADay'
  BY DEF OneSigninADay, RowsOf
<1> QED
  BY <1>1, <1>2

\* A request that ends without a commit changes nothing that is said of the log.
LEMMA FinishLog ==
  ASSUME TypeInv, LogInv, NEW w \in Workers, Finish(w),
         UNCHANGED <<users, logs, now, contended>>
  PROVE  LogInv'
<1>1. LogExplainsBalance' /\ OneSigninADay' /\ LevelFitsTotal'
  BY LogKept DEF LogInv
<1>2. \A v \in Workers : pc'[v] # "idle" => /\ v # w /\ pc'[v] = pc[v]
                                            /\ job'[v] = job[v] /\ seen'[v] = seen[v]
  BY DEF Finish, TypeInv, TypeOK
<1>3. Fresh'
  BY <1>2 DEF LogInv, Fresh
<1>4. Looked'
  BY <1>2 DEF LogInv, Looked, SigninsAt, RowsOf, Local, Utc
<1>5. Dated'
  BY DEF LogInv, Dated
<1> QED
  BY <1>1, <1>3, <1>4, <1>5 DEF LogInv

\* Points earned on a copy that is the row: the log row continues the balance, a
\* sign-in was looked for, and the level is looked up.
LEMMA EarnSound ==
  ASSUME TypeInv, LogInv, NEW w \in Workers, pc[w] = "apply", job[w].kind \in {"signin", "recharge"},
         job[w].user \notin contended, NEW x, x = Earned(seen[w], job[w].points),
         NEW l \in Upgrades(job[w].shop, x.total, x.level),
         NEW type, type = IF job[w].kind = "signin" THEN "earn_signin" ELSE "earn_order"
  PROVE  Sound(job[w].user, [x EXCEPT !.level = l], Entry(w, type, job[w].points, x))
<1> DEFINE e == Entry(w, type, job[w].points, x)
           y == [x EXCEPT !.level = l]
<1>1. job[w] \in Job /\ seen[w] \in User /\ seen[w] = users[job[w].user]
  BY DEF TypeInv, HandlerOK, LogInv, Fresh
<1>2. x \in User /\ x.available = users[job[w].user].available + job[w].points
  <2>1. x \in User
    BY <1>1, EarnedAddsUp
  <2>2. x.available = seen[w].available + job[w].points
    BY <1>1 DEF Earned
  <2> QED
    BY <1>1, <2>1, <2>2
<1>3. y.available = x.available /\ y.total = x.total /\ y.level = l
  BY <1>2
<1>4. /\ e.points = job[w].points /\ e.current = x.available /\ e.shop = job[w].shop
      /\ e.type = type
  BY DEF Entry
<1>5. e.type # "consume_order"
  BY <1>4
<1>6. e.type = "earn_signin" /\ Local(now) = Utc(now) => SigninsAt(job[w].user, e.shop, now) = {}
  BY <1>4 DEF LogInv, Looked
<1>7. LevelsFor(e.shop, y.total) # {} => y.level \in LevelsFor(e.shop, y.total)
  BY <1>3, <1>4 DEF Upgrades
<1>8. users[job[w].user].available \in Int /\ job[w].points \in Int
  BY <1>1
<1>9. e.current = e.points + users[job[w].user].available /\ y.available = e.current
  BY <1>2, <1>3, <1>4, <1>8
<1> HIDE DEF e, y
<1>10. Sound(job[w].user, y, e)
  BY <1>5, <1>6, <1>7, <1>9 DEF Sound
<1> QED
  BY <1>10 DEF e, y

\* Points spent on a copy that is the row: the log row continues the balance, and
\* total and level stay.
LEMMA ConsumeSound ==
  ASSUME TypeInv, LogInv, NEW w \in Workers, pc[w] = "apply", job[w].user \notin contended,
         NEW x, x = Spent(seen[w], job[w].points)
  PROVE  Sound(job[w].user, x, Entry(w, "consume_order", -job[w].points, x))
<1> DEFINE e == Entry(w, "consume_order", -job[w].points, x)
<1>1. job[w] \in Job /\ seen[w] \in User /\ seen[w] = users[job[w].user]
  BY DEF TypeInv, HandlerOK, LogInv, Fresh
<1>2. /\ x.available = users[job[w].user].available - job[w].points
      /\ x.total = users[job[w].user].total /\ x.level = users[job[w].user].level
  BY <1>1 DEF Spent
<1>3. /\ e.points = -job[w].points /\ e.current = x.available /\ e.type = "consume_order"
  BY DEF Entry
<1>4. users[job[w].user].available \in Int /\ job[w].points \in Int
  BY <1>1
<1>5. e.current = e.points + users[job[w].user].available /\ x.available = e.current
  BY <1>2, <1>3, <1>4
<1> HIDE DEF e
<1>6. Sound(job[w].user, x, e)
  BY <1>2, <1>3, <1>5 DEF Sound
<1> QED
  BY <1>6 DEF e

\* The users start with a row of the log each, which tells what they have.
LEMMA InitLog == Init => LogInv
<1> SUFFICES ASSUME Init PROVE LogInv
  OBVIOUS
<1> USE PointsAssumption, LevelsAssumption
<1>1. PICK s \in Shops :
        /\ logs = IF Opening = 0 THEN <<>>
                  ELSE SetToSeq({[user |-> u, shop |-> s, type |-> "earn_order",
                                  points |-> Opening, current |-> Opening, created |-> 0] : u \in Users})
        /\ users \in [Users -> {[available |-> Opening, total |-> Opening, used |-> 0,
                                 level |-> l] :
                                  l \in IF Opening = 0 THEN {Regular} ELSE Upgrades(s, Opening, Regular)}]
  BY DEF Init
<1>2. (\A w \in Workers : pc[w] = "idle") /\ now = 1
  BY DEF Init
<1>3. Fresh /\ Looked
  BY <1>2 DEF Fresh, Looked
<1>4. \A u \in Users : users[u].available = Opening /\ users[u].total = Opening
  BY <1>1
<1>5. TypeInv
  BY InitTyped
<1>6. CASE Opening = 0
  <2>1. logs = <<>>
    BY <1>1, <1>6
  <2>2. DOMAIN logs = {} /\ \A u : RowsOf(u) = {}
    BY <2>1 DEF RowsOf
  <2>3. LogExplainsBalance
    BY <1>4, <1>6, <2>2 DEF LogExplainsBalance, Told
  <2>4. OneSigninADay
    BY <2>2 DEF OneSigninADay
  <2>5. LevelFitsTotal
    BY <2>2 DEF LevelFitsTotal, Earnings
  <2>6. Dated
    BY <2>2 DEF Dated
  <2> QED
    BY <1>3, <2>3, <2>4, <2>5, <2>6 DEF LogInv
<1>7. CASE Opening # 0
  <2> DEFINE Row == [u \in Users |-> [user |-> u, shop |-> s, type |-> "earn_order",
                                      points |-> Opening, current |-> Opening, created |-> 0]]
  <2>1. Row \in [Users -> PointsLog] /\ \A u \in Users : Row[u].user = u
    BY DEF PointsLog
  <2>2. {Row[u] : u \in Users} =
          {[user |-> u, shop |-> s, type |-> "earn_order",
            points |-> Opening, current |-> Opening, created |-> 0] : u \in Users}
    OBVIOUS
  <2>3. logs = SetToSeq({Row[u] : u \in Users})
    BY <1>1, <1>7, <2>2
  <2>4. /\ \A u \in Users : \E i \in DOMAIN logs : logs[i] = Row[u]
        /\ \A i, j \in DOMAIN logs : logs[i] = logs[j] => i = j
        /\ \A i \in DOMAIN logs : \E u \in Users : logs[i] = Row[u]
    <3> HIDE DEF Row
    <3> DEFINE opened == SetToSeq({Row[u] : u \in Users})
    <3>1. /\ \A v \in Users : \E i \in DOMAIN opened : opened[i] = Row[v]
          /\ \A i, j \in DOMAIN opened : opened[i] = opened[j] => i = j
      BY <2>1, OpeningLogTyped
    <3>2. \A i \in DOMAIN opened : \E v \in Users : opened[i] = Row[v]
      BY <2>1, OpeningLogFrom
    <3>3. logs = opened
      BY <2>3
    <3> HIDE DEF opened
    <3> QED
      BY <3>1, <3>2, <3>3
  <2>5. \A i \in DOMAIN logs : /\ logs[i].user \in Users /\ logs[i] = Row[logs[i].user]
    BY <2>1, <2>4
  <2>6. \A u \in Users : \E i \in DOMAIN logs : RowsOf(u) = {i} /\ logs[i] = Row[u]
    <3> SUFFICES ASSUME NEW u \in Users
                 PROVE  \E i \in DOMAIN logs : RowsOf(u) = {i} /\ logs[i] = Row[u]
      OBVIOUS
    <3>1. PICK i \in DOMAIN logs : logs[i] = Row[u]
      BY <2>4
    <3>2. \A j \in DOMAIN logs : logs[j].user = u => j = i
      BY <2>4, <2>5, <3>1
    <3> HIDE DEF Row
    <3>3. RowsOf(u) = {i}
      BY <2>1, <3>1, <3>2 DEF RowsOf
    <3> QED
      BY <3>1, <3>3
  <2>7. \A u \in Users : /\ Row[u].points = Opening /\ Row[u].current = Opening
                         /\ Row[u].type = "earn_order" /\ Row[u].shop = s /\ Row[u].created = 0
    OBVIOUS
  <2> HIDE DEF Row
  <2>8. LogExplainsBalance
    <3> SUFFICES ASSUME NEW u \in Users
                 PROVE  /\ \A i \in RowsOf(u) : logs[i].current = logs[i].points
                                                  + Told({j \in RowsOf(u) : j < i})
                        /\ users[u].available = Told(RowsOf(u))
      BY DEF LogExplainsBalance
    <3>1. PICK k \in DOMAIN logs : RowsOf(u) = {k} /\ logs[k] = Row[u]
      BY <2>6
    <3>2. k \in Nat
      BY <1>5, RowsInLog
    <3>3. {j \in RowsOf(u) : j < k} = {}
      BY <3>1, <3>2
    <3>4. Told({j \in RowsOf(u) : j < k}) = 0
      BY <3>3 DEF Told
    <3>5. Max(RowsOf(u)) = k
      <4>1. RowsOf(u) \in SUBSET (1..Len(logs)) /\ RowsOf(u) # {}
        BY <1>5, <3>1, RowsInLog
      <4> QED
        BY <1>5, <3>1, <4>1, Newest
    <3>6. Told(RowsOf(u)) = Opening
      BY <2>7, <3>1, <3>5 DEF Told
    <3> QED
      BY <1>4, <2>7, <3>1, <3>4, <3>6
  <2>9. OneSigninADay
    BY <2>6, <2>7 DEF OneSigninADay
  <2>10. LevelFitsTotal
    <3> SUFFICES ASSUME NEW u \in Users, Earnings(u) # {},
                        LevelsFor(logs[Max(Earnings(u))].shop, users[u].total) # {}
                 PROVE  users[u].level \in LevelsFor(logs[Max(Earnings(u))].shop, users[u].total)
      BY DEF LevelFitsTotal
    <3>1. PICK k \in DOMAIN logs : RowsOf(u) = {k} /\ logs[k] = Row[u]
      BY <2>6
    <3>2. Earnings(u) = {k}
      BY <2>7, <3>1 DEF Earnings
    <3>3. Max(Earnings(u)) = k
      <4>1. Earnings(u) \in SUBSET (1..Len(logs)) /\ Earnings(u) # {}
        BY <1>5, <3>1, <3>2, RowsInLog
      <4> QED
        BY <1>5, <3>2, <4>1, Newest
    <3>4. logs[Max(Earnings(u))].shop = s
      BY <2>7, <3>1, <3>3
    <3>5. users[u].level \in Upgrades(s, Opening, Regular)
      BY <1>1, <1>7
    <3> QED
      BY <1>4, <3>4, <3>5 DEF Upgrades
  <2>11. Dated
    BY <1>2, <2>5, <2>7 DEF Dated
  <2> QED
    BY <1>3, <2>8, <2>9, <2>10, <2>11 DEF LogInv
<1> QED
  BY <1>6, <1>7

\* Every step keeps what is said of the log.
LEMMA NextLog == TypeInv /\ LogInv /\ [Next]_vars => LogInv'
<1> SUFFICES ASSUME TypeInv, LogInv, [Next]_vars PROVE LogInv'
  OBVIOUS
<1>0. Fresh /\ Dated /\ Looked /\ LogExplainsBalance /\ OneSigninADay /\ LevelFitsTotal
  BY DEF LogInv
<1>1. CASE UNCHANGED vars
  <2>1. LogExplainsBalance' /\ OneSigninADay' /\ LevelFitsTotal'
    BY <1>0, <1>1, LogKept DEF vars
  <2>2. Fresh' /\ Dated'
    BY <1>0, <1>1 DEF vars, Fresh, Dated
  <2>3. Looked'
    BY <1>0, <1>1 DEF vars, Looked, SigninsAt, RowsOf, Local, Utc
  <2> QED
    BY <2>1, <2>2, <2>3 DEF LogInv
<1>2. CASE Tick
  <2>1. now' = now + 1 /\ now \in Nat /\ UNCHANGED <<users, logs, pc, job, seen, contended>>
    BY <1>2 DEF Tick, TypeInv, TypeOK
  <2>2. LogExplainsBalance' /\ LevelFitsTotal'
    BY <1>0, <2>1, FewerKept
  <2>3. \A i \in DOMAIN logs : logs[i].created \in Nat
    <3>1. \A i \in DOMAIN logs : logs[i] \in PointsLog
      BY DEF TypeInv, TypeOK
    <3> QED
      BY <3>1 DEF PointsLog
  <2>4. \A i \in DOMAIN logs : logs[i].created <= now /\ logs[i].created # now + 1
    BY <1>0, <2>1, <2>3 DEF Dated
  <2>5. Dated'
    BY <2>1, <2>3, <2>4 DEF Dated
  <2>6. Looked'
    BY <2>1, <2>4 DEF Looked, SigninsAt, RowsOf
  <2>7. Fresh'
    BY <1>0, <2>1 DEF Fresh
  <2>8. OneSigninADay'
    <3> SUFFICES ASSUME NEW u \in Users \ contended, NEW t \in 1..(now + 1), Local(t) = Utc(t),
                        NEW i \in RowsOf(u), NEW j \in RowsOf(u),
                        logs[i].type = "earn_signin", logs[i].created = t,
                        logs[j].type = "earn_signin", logs[j].created = t,
                        logs[i].shop = logs[j].shop
                 PROVE  i = j
      BY <2>1 DEF OneSigninADay, RowsOf, Local, Utc
    <3>1. t \in 1..now
      BY <2>1, <2>4 DEF RowsOf
    <3> QED
      BY <1>0, <3>1 DEF OneSigninADay
  <2> QED
    BY <2>2, <2>5, <2>6, <2>7, <2>8 DEF LogInv
<1>3. ASSUME NEW w \in Workers, NEW kind \in Kinds, NEW u \in Users, NEW s \in Shops,
             Receive(w, kind, u, s)
      PROVE  LogInv'
  <2>1. PICK x \in PointsAsked(kind) :
          job' = [job EXCEPT ![w] = [kind |-> kind, user |-> u, shop |-> s, points |-> x]]
    BY <1>3 DEF Receive
  <2>2. UNCHANGED <<users, logs, now, contended>>
    BY <1>3 DEF Receive
  <2>3. LogExplainsBalance' /\ OneSigninADay' /\ LevelFitsTotal'
    BY <1>0, <2>2, LogKept
  <2>4. /\ job'[w].user = u /\ job'[w].kind = kind /\ seen'[w] = users[u]
        /\ pc'[w] = IF kind = "signin" THEN "look" ELSE "apply"
        /\ \A v \in Workers \ {w} : pc'[v] = pc[v] /\ job'[v] = job[v] /\ seen'[v] = seen[v]
    BY <1>3, <2>1 DEF Receive, TypeInv, TypeOK
  <2>5. Fresh'
    BY <1>0, <2>2, <2>4 DEF Fresh
  <2>6. Looked'
    BY <1>0, <2>2, <2>4 DEF Looked, SigninsAt, RowsOf, Local, Utc
  <2>7. Dated'
    BY <1>0, <2>2 DEF Dated
  <2> QED
    BY <2>3, <2>5, <2>6, <2>7 DEF LogInv
<1>4. ASSUME NEW w \in Workers, LookUp(w) PROVE LogInv'
  <2>1. CASE SignedIn(job[w].user, job[w].shop)
    BY <1>4, <2>1, FinishLog DEF LookUp
  <2>2. CASE ~SignedIn(job[w].user, job[w].shop)
    <3>1. /\ pc' = [pc EXCEPT ![w] = "apply"]
          /\ UNCHANGED <<users, logs, now, contended, job, seen>> /\ pc[w] = "look"
      BY <1>4, <2>2 DEF LookUp
    <3>2. LogExplainsBalance' /\ OneSigninADay' /\ LevelFitsTotal'
      BY <1>0, <3>1, LogKept
    <3>3. Local(now) = Utc(now) => SigninsAt(job[w].user, job[w].shop, now) = {}
      BY <2>2 DEF SignedIn, SigninsAt
    <3>4. \A v \in Workers : pc'[v] # "idle" => pc[v] # "idle"
      BY <3>1 DEF TypeInv, TypeOK
    <3>5. Fresh'
      BY <1>0, <3>1, <3>4 DEF Fresh
    <3>6. Looked'
      <4> SUFFICES ASSUME NEW v \in Workers, pc'[v] = "apply", job[v].kind = "signin",
                          job[v].user \notin contended, Local(now) = Utc(now)
                   PROVE  SigninsAt(job[v].user, job[v].shop, now) = {}
        BY <3>1 DEF Looked, SigninsAt, RowsOf, Local, Utc
      <4>1. v = w \/ pc[v] = "apply"
        BY <3>1 DEF TypeInv, TypeOK
      <4> QED
        BY <1>0, <3>3, <4>1 DEF Looked
    <3>7. Dated'
      BY <1>0, <3>1 DEF Dated
    <3> QED
      BY <3>2, <3>5, <3>6, <3>7 DEF LogInv
  <2> QED
    BY <2>1, <2>2
<1>5. ASSUME NEW w \in Workers, Earn(w) PROVE LogInv'
  <2>1. PICK x, type :
          /\ x = Earned(seen[w], job[w].points)
          /\ type = IF job[w].kind = "signin" THEN "earn_signin" ELSE "earn_order"
    OBVIOUS
  <2>2. PICK l \in Upgrades(job[w].shop, x.total, x.level) :
          Commit(w, [x EXCEPT !.level = l], <<Entry(w, type, job[w].points, x)>>)
    BY <1>5, <2>1 DEF Earn
  <2>3. pc[w] = "apply" /\ job[w].kind \in {"signin", "recharge"} /\ job[w] \in Job
        /\ seen[w] \in User
    BY <1>5 DEF Earn, TypeInv, HandlerOK
  <2>4. x \in User
    BY <2>1, <2>3, EarnedAddsUp
  <2> DEFINE e == Entry(w, type, job[w].points, x)
  <2>5. e \in PointsLog /\ e.user = job[w].user /\ e.created = now
    BY <2>1, <2>3, <2>4 DEF Entry, PointsLog, TypeInv, TypeOK
  <2>6. job[w].user \notin contended => Sound(job[w].user, [x EXCEPT !.level = l], e)
    BY <2>1, <2>2, <2>3, EarnSound
  <2> HIDE DEF e
  <2>7. Commit(w, [x EXCEPT !.level = l], <<e>>)
    BY <2>2 DEF e
  <2> QED
    BY <2>3, <2>5, <2>6, <2>7, CommitLog
<1>6. ASSUME NEW w \in Workers, Consume(w) PROVE LogInv'
  <2>1. PICK x : x = Spent(seen[w], job[w].points)
    OBVIOUS
  <2>2. pc[w] = "apply" /\ job[w] \in Job /\ seen[w] \in User
    BY <1>6 DEF Consume, TypeInv, HandlerOK
  <2> DEFINE e == Entry(w, "consume_order", -job[w].points, x)
  <2>3. CASE Commit(w, x, <<e>>)
    <3>1. x \in User
      BY <2>1, <2>2, SpentAddsUp
    <3>2. e \in PointsLog /\ e.user = job[w].user /\ e.created = now
      BY <2>2, <3>1 DEF Entry, PointsLog, TypeInv, TypeOK
    <3>3. job[w].user \notin contended => Sound(job[w].user, x, e)
      BY <2>1, <2>2, ConsumeSound
    <3> HIDE DEF e
    <3> QED
      BY <2>2, <2>3, <3>2, <3>3, CommitLog
  <2>4. CASE Finish(w) /\ UNCHANGED <<users, logs, now, served, contended>>
    BY <2>4, FinishLog
  <2> QED
    BY <1>6, <2>1, <2>3, <2>4 DEF Consume
<1>7. ASSUME NEW w \in Workers, SaveProfile(w) PROVE LogInv'
  <2>1. pc[w] # "idle" /\ Commit(w, seen[w], <<>>) /\ job[w] \in Job
    BY <1>7 DEF SaveProfile, TypeInv, HandlerOK
  <2>2. /\ users' = [users EXCEPT ![job[w].user] = seen[w]] /\ logs' = logs /\ now' = now
        /\ Finish(w)
        /\ contended' = IF OthersHave(w, job[w].user) THEN contended \cup {job[w].user} ELSE contended
    BY <2>1 DEF Commit, Saved, TypeInv, TypeOK
  <2>3. contended \subseteq contended' /\ \A u \in Users \ contended' : users'[u] = users[u]
    BY <1>0, <2>1, <2>2 DEF Fresh, TypeInv, TypeOK
  <2>4. LogExplainsBalance' /\ LevelFitsTotal'
    BY <1>0, <2>2, <2>3, FewerKept
  <2>5. OneSigninADay'
    BY <1>0, <2>2, <2>3 DEF OneSigninADay, RowsOf
  <2>7. Fresh'
    BY <1>0, <2>1, CommitFresh
  <2>8. Looked'
    <3>1. \A v \in Workers : pc'[v] = "apply" => pc[v] = "apply" /\ job'[v] = job[v]
      BY <2>2 DEF Finish, TypeInv, TypeOK
    <3> QED
      BY <1>0, <2>2, <2>3, <3>1 DEF Looked, SigninsAt, RowsOf, Local, Utc
  <2>9. Dated'
    BY <1>0, <2>2 DEF Dated
  <2> QED
    BY <2>4, <2>5, <2>7, <2>8, <2>9 DEF LogInv
<1>8. ASSUME NEW w \in Workers, Fail(w) PROVE LogInv'
  BY <1>8, FinishLog DEF Fail
<1> QED
  BY <1>1, <1>2, <1>3, <1>4, <1>5, <1>6, <1>7, <1>8 DEF Next

LEMMA LogInvariant == Spec => []LogInv
BY InitTyped, NextTyped, InitLog, NextLog, PTL DEF Spec

\* The log explains the balance of every user whose requests did not overlap, row
\* by row and to the last.
THEOREM LogTellsBalances == Spec => []LogExplainsBalance
<1>1. LogInv => LogExplainsBalance
  BY DEF LogInv
<1> QED
  BY LogInvariant, <1>1, PTL

\* From eight o'clock on, a user whose requests did not overlap signs in to a shop
\* once a day.
THEOREM SigninsOnce == Spec => []OneSigninADay
<1>1. LogInv => OneSigninADay
  BY DEF LogInv
<1> QED
  BY LogInvariant, <1>1, PTL

\* The level of a user whose requests did not overlap fits the total, on the scale of
\* the shop where points were last earned.
THEOREM LevelsFit == Spec => []LevelFitsTotal
<1>1. LogInv => LevelFitsTotal
  BY DEF LogInv
<1> QED
  BY LogInvariant, <1>1, PTL
=============================================================================
