------------------------------ MODULE Coupons -------------------------------
(***************************************************************************)
(* Coupons: how many were issued, and who claimed one.                     *)
(*                                                                         *)
(* claim_coupon fetches the coupon, checks it, counts the user's claims,   *)
(* and then, in a transaction, inserts the claim and saves the coupon it   *)
(* fetched with used_quantity one higher.  An edit of the coupon and the   *)
(* claim both save the whole row, and insert it again if it was deleted.   *)
(* The viewset of a user's coupons also creates and deletes claims         *)
(* directly, without a look at the coupon.                                 *)
(*                                                                         *)
(* A row written is locked until its transaction ends, and so is a key of  *)
(* user_coupons inserted.  Being active and being within valid_from and    *)
(* valid_until are one flag.  total_quantity and limit_per_user have no    *)
(* validator: any integer may be set.                                      *)
(***************************************************************************)
EXTENDS Integers, FiniteSets

CONSTANTS
  Workers, Users, Coupons,
  Totals,       \* total_quantity staff may set
  Limits,       \* limit_per_user a coupon may have
  None,
  MaxRequests,  \* bound: requests served
  MaxFailures   \* bound: requests cut off

ASSUME NumbersAssumption == Totals \subseteq Int /\ Limits \subseteq Int
ASSUME UsersAssumption == IsFiniteSet(Users)
ASSUME BoundsAssumption == MaxRequests \in Nat /\ MaxFailures \in Nat

Coupon == [total : Int, used : Nat, limit : Int, active : BOOLEAN]

\* An edit sets total, or active where total is None.
Job == [kind : {"claim", "edit"}, coupon : Coupons, user : Users \cup {None},
        total : Totals \cup {None}, active : BOOLEAN]

ASSUME NoneAssumption == None \notin Users \cup Int \cup Coupon \cup Job

VARIABLES
  coupons,   \* [Coupons -> Coupon \cup {None}]  None: deleted
  claimed,   \* SUBSET (Users \X Coupons)  user_coupons
  pc,        \* [Workers -> step of the handler]
  job,       \* [Workers -> Job \cup {None}]
  read,      \* [Workers -> Coupon \cup {None}]  the coupon fetched first
  served, failures,
  counted,   \* history: [Coupons -> claims committed]
  raced,     \* history: coupons committed while another handler had them
  given,     \* history: coupons with a claim created directly
  lowered    \* history: coupons whose total was set below what was used, or below 0

history == <<counted, raced, given, lowered>>
vars == <<coupons, claimed, pc, job, read, served, failures, history>>

-----------------------------------------------------------------------------
Rows == {c \in Coupons : coupons[c] # None}
Holders(c) == {u \in Users : <<u, c>> \in claimed}

\* Mutant: the quantity left is not looked at.
ActiveOnly(row) == row.active

\* Coupon.is_available
Available(row) == row.active /\ row.used < row.total

\* Workers that hold the lock of a coupon's row, or of a key of user_coupons.
RowHolders(c) == {v \in Workers : pc[v] = "commit" /\ job[v].coupon = c}
KeyHolders(u, c) ==
  {v \in Workers : pc[v] \in {"save", "commit"} /\ job[v].coupon = c /\ job[v].user = u}

Init ==
  /\ coupons \in [Coupons -> [total : Totals, used : {0}, limit : Limits, active : {TRUE}]]
  /\ claimed = {}
  /\ pc = [w \in Workers |-> "idle"]
  /\ job = [w \in Workers |-> None]
  /\ read = [w \in Workers |-> None]
  /\ served = 0 /\ failures = 0
  /\ counted = [c \in Coupons |-> 0]
  /\ raced = {} /\ given = {} /\ lowered = {c \in Coupons : coupons[c].total < 0}

Finish(w) ==
  /\ pc' = [pc EXCEPT ![w] = "idle"]
  /\ job' = [job EXCEPT ![w] = None]
  /\ read' = [read EXCEPT ![w] = None]

Arrives ==
  /\ served < MaxRequests
  /\ served' = served + 1
  /\ UNCHANGED failures

\* c is committed by other workers than those in W.
Race(W, c) ==
  raced' = IF \E v \in Workers \ W : job[v] # None /\ job[v].coupon = c
           THEN raced \cup {c} ELSE raced

-----------------------------------------------------------------------------
\* The coupon is fetched; one that is not available is refused.
ReceiveClaim(w, u, c) ==
  /\ pc[w] = "idle"
  /\ Arrives
  /\ \/ /\ Available(coupons[c])
        /\ pc' = [pc EXCEPT ![w] = "count"]
        /\ job' = [job EXCEPT ![w] = [kind |-> "claim", coupon |-> c, user |-> u,
                                      total |-> None, active |-> TRUE]]
        /\ read' = [read EXCEPT ![w] = coupons[c]]
     \/ /\ ~Available(coupons[c])
        /\ UNCHANGED <<pc, job, read>>
  /\ UNCHANGED <<coupons, claimed, history>>

\* The user's claims against limit_per_user.
Count(w) ==
  LET had == IF <<job[w].user, job[w].coupon>> \in claimed THEN 1 ELSE 0 IN
  /\ pc[w] = "count"
  /\ \/ /\ had < read[w].limit
        /\ pc' = [pc EXCEPT ![w] = "insert"]
        /\ UNCHANGED <<job, read>>
     \/ /\ had >= read[w].limit
        /\ Finish(w)
  /\ UNCHANGED <<coupons, claimed, served, failures, history>>

\* Mutant: user_coupons has no unique key.
NeverTaken(u, c) == FALSE

Taken(u, c) == <<u, c>> \in claimed

\* UserCoupon.objects.create: waits for a transaction that has the key, and raises
\* if the key is taken.
Insert(w) ==
  /\ pc[w] = "insert"
  /\ KeyHolders(job[w].user, job[w].coupon) = {}
  /\ \/ /\ ~Taken(job[w].user, job[w].coupon)
        /\ pc' = [pc EXCEPT ![w] = "save"]
        /\ UNCHANGED <<job, read>>
     \/ /\ Taken(job[w].user, job[w].coupon)
        /\ Finish(w)
  /\ UNCHANGED <<coupons, claimed, served, failures, history>>

\* coupon.save(): the row is locked.
Save(w) ==
  /\ pc[w] = "save"
  /\ RowHolders(job[w].coupon) = {}
  /\ pc' = [pc EXCEPT ![w] = "commit"]
  /\ UNCHANGED <<coupons, claimed, job, read, served, failures, history>>

\* Mutant: the claim is not counted.
CountedNot(w) == read[w]

Counted(w) == [read[w] EXCEPT !.used = @ + 1]

Commit(w) ==
  LET c == job[w].coupon IN
  /\ pc[w] = "commit"
  /\ claimed' = claimed \cup {<<job[w].user, c>>}
  /\ coupons' = [coupons EXCEPT ![c] = Counted(w)]
  /\ counted' = [counted EXCEPT ![c] = @ + 1]
  /\ Race({w}, c)
  /\ Finish(w)
  /\ UNCHANGED <<served, failures, given, lowered>>

-----------------------------------------------------------------------------
\* PATCH of a coupon; used_quantity is read-only in the form, and saved as read.
ReceiveEdit(w, c, total, active) ==
  /\ pc[w] = "idle"
  /\ Arrives
  /\ pc' = [pc EXCEPT ![w] = "edit"]
  /\ job' = [job EXCEPT ![w] = [kind |-> "edit", coupon |-> c, user |-> None,
                                total |-> total, active |-> active]]
  /\ read' = [read EXCEPT ![w] = coupons[c]]
  /\ UNCHANGED <<coupons, claimed, history>>

Edited(w) ==
  IF job[w].total = None THEN [read[w] EXCEPT !.active = job[w].active]
                         ELSE [read[w] EXCEPT !.total = job[w].total]

Edit(w) ==
  LET c == job[w].coupon IN
  /\ pc[w] = "edit"
  /\ RowHolders(c) = {}
  /\ coupons' = [coupons EXCEPT ![c] = Edited(w)]
  /\ lowered' = IF Edited(w).total < read[w].used THEN lowered \cup {c} ELSE lowered
  /\ Race({w}, c)
  /\ Finish(w)
  /\ UNCHANGED <<claimed, served, failures, counted, given>>

\* Mutant: the claims of a coupon outlive it.
AllClaims(c) == claimed

OtherClaims(c) == {uc \in claimed : uc[2] # c}

\* DELETE of a coupon, its claims with it.
Delete(c) ==
  /\ Arrives
  /\ RowHolders(c) = {}
  /\ coupons' = [coupons EXCEPT ![c] = None]
  /\ claimed' = OtherClaims(c)
  /\ Race({}, c)
  /\ UNCHANGED <<pc, job, read, counted, given, lowered>>

\* POST of a user's coupon.
Give(u, c) ==
  /\ Arrives
  /\ KeyHolders(u, c) = {}
  /\ <<u, c>> \notin claimed
  /\ claimed' = claimed \cup {<<u, c>>}
  /\ given' = given \cup {c}
  /\ UNCHANGED <<coupons, pc, job, read, counted, raced, lowered>>

\* DELETE of a user's coupon; the coupon's count stays.
Discard(u, c) ==
  /\ Arrives
  /\ <<u, c>> \in claimed
  /\ claimed' = claimed \ {<<u, c>>}
  /\ UNCHANGED <<coupons, pc, job, read, history>>

\* PATCH of a user's coupon: another user's, or another coupon's.
Move(u, c, other, to) ==
  /\ Arrives
  /\ <<u, c>> \in claimed
  /\ <<other, to>> \notin claimed
  /\ KeyHolders(other, to) = {}
  /\ claimed' = (claimed \ {<<u, c>>}) \cup {<<other, to>>}
  /\ given' = given \cup {to}
  /\ UNCHANGED <<coupons, pc, job, read, counted, raced, lowered>>

\* A handler is cut off before its transaction ends, or before its only statement.
Fail(w) ==
  /\ pc[w] # "idle"
  /\ failures < MaxFailures
  /\ failures' = failures + 1
  /\ Finish(w)
  /\ UNCHANGED <<coupons, claimed, served, history>>

Next ==
  \/ \E w \in Workers :
       \/ \E c \in Rows, u \in Users : ReceiveClaim(w, u, c)
       \/ \E c \in Rows, total \in Totals \cup {None}, active \in BOOLEAN :
            ReceiveEdit(w, c, total, active)
       \/ Count(w) \/ Insert(w) \/ Save(w) \/ Commit(w) \/ Edit(w) \/ Fail(w)
  \/ \E c \in Rows : Delete(c)
  \/ \E u \in Users, c \in Rows : Give(u, c) \/ Discard(u, c)
  \/ \E u, other \in Users, c, to \in Rows : Move(u, c, other, to)

Spec == Init /\ [][Next]_vars
-----------------------------------------------------------------------------
(***************************************************************************)
(* Properties                                                              *)
(***************************************************************************)
\* The tables and the handlers' locals hold values of their kinds.
TypeOK ==
  /\ coupons \in [Coupons -> Coupon \cup {None}]
  /\ claimed \subseteq Users \X Coupons
  /\ pc \in [Workers -> {"idle", "count", "insert", "save", "commit", "edit"}]
  /\ job \in [Workers -> Job \cup {None}]
  /\ read \in [Workers -> Coupon \cup {None}]
  /\ counted \in [Coupons -> Nat]
  /\ raced \subseteq Coupons /\ given \subseteq Coupons /\ lowered \subseteq Coupons

\* used_quantity counts the claims that were made, whatever is rolled back, edited,
\* or deleted from a user's coupons, unless a handler committed the coupon behind
\* another's back (coupon.save in claim_coupon).
CountTellsClaims ==
  \A c \in Rows \ raced : coupons[c].used = counted[c]

\* The row never shows more used than issued, also where updates were lost: a copy
\* is checked, counted up and saved as a whole (is_available, claim_coupon).  Only an
\* edit that sets the total below the count, or a coupon created with a negative
\* total, shows otherwise.
RowLooksSound ==
  \A c \in Rows \ lowered : coupons[c].used <= coupons[c].total

\* No more coupons are out than were issued, unless a count was lost, a claim was
\* created directly, or the total was set below the count or below zero.
IssuedWithinTotal ==
  \A c \in Rows \ (raced \cup given \cup lowered) :
    Cardinality(Holders(c)) <= coupons[c].total

\* A deleted coupon leaves no claims behind, and comes back only through a handler
\* that had it in hand when it was deleted (coupon.save() in claim_coupon, or the
\* form's save, inserts a row that is gone; user_coupons cascade, services.py).
DeletedLeavesNothing ==
  [][\A c \in Coupons \ Rows :
       Holders(c) = {} /\ (coupons'[c] # None => c \in raced)]_vars

\* No claim is ever added to one the user has, however high limit_per_user is
\* (unique_together of UserCoupon).
NoSecondCoupon ==
  [][\A w \in Workers :
       pc[w] = "commit" /\ counted' # counted /\ pc'[w] = "idle"
         => <<job[w].user, job[w].coupon>> \notin claimed]_vars
=============================================================================
