--------------------------- MODULE CouponsProofs ----------------------------
(***************************************************************************)
(* Theorems about Coupons, for every set of workers and coupons, every     *)
(* finite set of users, any totals and limits and every bound.             *)
(***************************************************************************)
EXTENDS Coupons, FiniteSetTheorems, TLAPS

Claiming == {"count", "insert", "save", "commit"}

\* A handler has its request and the coupon it fetched; a claim has its user.
HandlerOK(w) ==
  /\ pc[w] = "idle" => job[w] = None
  /\ pc[w] # "idle" => job[w] \in Job /\ read[w] \in Coupon
  /\ pc[w] \in Claiming => job[w].user \in Users

TypeInv == TypeOK /\ \A w \in Workers : HandlerOK(w)
-----------------------------------------------------------------------------
(***************************************************************************)
(* Type correctness                                                        *)
(***************************************************************************)
\* Setting one column of a coupon.
LEMMA QuantitySet ==
  ASSUME NEW row \in Coupon, NEW n \in Nat
  PROVE  /\ [row EXCEPT !.used = n] \in Coupon
         /\ [row EXCEPT !.used = n].used = n
         /\ [row EXCEPT !.used = n].total = row.total
BY DEF Coupon

LEMMA TotalSet ==
  ASSUME NEW row \in Coupon, NEW t \in Int
  PROVE  /\ [row EXCEPT !.total = t] \in Coupon
         /\ [row EXCEPT !.total = t].total = t
         /\ [row EXCEPT !.total = t].used = row.used
BY DEF Coupon

LEMMA SwitchSet ==
  ASSUME NEW row \in Coupon, NEW b \in BOOLEAN
  PROVE  /\ [row EXCEPT !.active = b] \in Coupon
         /\ [row EXCEPT !.active = b].total = row.total
         /\ [row EXCEPT !.active = b].used = row.used
BY DEF Coupon

\* The rows the handlers save are coupons, a claim's with one more used.
LEMMA CountedTyped ==
  ASSUME NEW w \in Workers, read[w] \in Coupon
  PROVE  /\ Counted(w) \in Coupon
         /\ Counted(w).used = read[w].used + 1
         /\ Counted(w).total = read[w].total
<1>1. read[w].used + 1 \in Nat
  BY DEF Coupon
<1> DEFINE row == read[w]
           n == read[w].used + 1
<1>2. Counted(w) = [row EXCEPT !.used = n]
  BY DEF Counted
<1>3. row \in Coupon /\ n \in Nat
  BY <1>1
<1> HIDE DEF row, n
<1>4. /\ [row EXCEPT !.used = n] \in Coupon
      /\ [row EXCEPT !.used = n].used = n
      /\ [row EXCEPT !.used = n].total = row.total
  BY <1>3, QuantitySet
<1>5. Counted(w) \in Coupon /\ Counted(w).used = n /\ Counted(w).total = row.total
  BY <1>2, <1>4
<1> QED
  BY <1>5 DEF row, n

LEMMA EditedTyped ==
  ASSUME NEW w \in Workers, read[w] \in Coupon, job[w] \in Job
  PROVE  /\ Edited(w) \in Coupon
         /\ Edited(w).used = read[w].used
<1>1. job[w].active \in BOOLEAN /\ job[w].total \in Totals \cup {None}
  BY DEF Job
<1>2. CASE job[w].total = None
  <2>1. Edited(w) = [read[w] EXCEPT !.active = job[w].active]
    BY <1>2 DEF Edited
  <2> QED
    BY <1>1, <2>1, SwitchSet
<1>3. CASE job[w].total # None
  <2>1. Edited(w) = [read[w] EXCEPT !.total = job[w].total]
    BY <1>3 DEF Edited
  <2> DEFINE row == read[w]
             t == job[w].total
  <2>2. row \in Coupon /\ t \in Int
    BY <1>1, <1>3, NumbersAssumption
  <2> HIDE DEF row, t
  <2>3. [row EXCEPT !.total = t] \in Coupon /\ [row EXCEPT !.total = t].used = row.used
    BY <2>2, TotalSet
  <2> QED
    BY <2>1, <2>3 DEF row, t
<1> QED
  BY <1>2, <1>3

LEMMA InitTyped == Init => TypeInv
<1> SUFFICES ASSUME Init PROVE TypeInv
  OBVIOUS
<1>1. coupons \in [Coupons -> Coupon]
  <2> DEFINE R == [total : Totals, used : {0}, limit : Limits, active : {TRUE}]
  <2>1. R \subseteq Coupon
    <3> SUFFICES ASSUME NEW row \in R PROVE row \in Coupon
      OBVIOUS
    <3>1. PICK t \in Totals, l \in Limits :
            row = [total |-> t, used |-> 0, limit |-> l, active |-> TRUE]
      OBVIOUS
    <3> QED
      BY <3>1, NumbersAssumption DEF Coupon
  <2>2. coupons \in [Coupons -> R]
    BY DEF Init
  <2> HIDE DEF R
  <2> QED
    BY <2>1, <2>2
<1>2. TypeOK
  BY <1>1 DEF Init, TypeOK
<1>3. \A w \in Workers : HandlerOK(w)
  BY DEF Init, HandlerOK, Claiming
<1> QED
  BY <1>2, <1>3 DEF TypeInv

\* A handler that ends is idle, the others are as they were.
LEMMA FinishTyped ==
  ASSUME TypeInv, NEW w \in Workers, Finish(w)
  PROVE  /\ pc' \in [Workers -> {"idle", "count", "insert", "save", "commit", "edit"}]
         /\ job' \in [Workers -> Job \cup {None}]
         /\ read' \in [Workers -> Coupon \cup {None}]
         /\ \A v \in Workers : HandlerOK(v)'
         /\ pc'[w] = "idle" /\ job'[w] = None
         /\ \A v \in Workers \ {w} :
              pc'[v] = pc[v] /\ job'[v] = job[v] /\ read'[v] = read[v]
<1>1. TypeOK /\ \A v \in Workers : HandlerOK(v)
  BY DEF TypeInv
<1>2. /\ pc' = [pc EXCEPT ![w] = "idle"]
      /\ job' = [job EXCEPT ![w] = None]
      /\ read' = [read EXCEPT ![w] = None]
  BY DEF Finish
<1>3. /\ pc'[w] = "idle" /\ job'[w] = None
      /\ \A v \in Workers \ {w} : pc'[v] = pc[v] /\ job'[v] = job[v] /\ read'[v] = read[v]
  BY <1>1, <1>2 DEF TypeOK
<1>4. \A v \in Workers : HandlerOK(v)'
  BY <1>1, <1>3 DEF HandlerOK, Claiming
<1> QED
  BY <1>1, <1>2, <1>3, <1>4 DEF TypeOK

\* A coupon that some worker has in hand is marked, and nothing else.
LEMMA RaceTyped ==
  ASSUME NEW W, NEW c \in Coupons, raced \subseteq Coupons, Race(W, c)
  PROVE  raced \subseteq raced' /\ raced' \subseteq raced \cup {c}
         /\ (c \notin raced' => \A v \in Workers \ W : job[v] = None \/ job[v].coupon # c)
BY DEF Race

\* Every step keeps the tables and locals typed.
LEMMA StepTyped == TypeInv /\ [Next]_vars => TypeInv'
<1> SUFFICES ASSUME TypeInv, [Next]_vars PROVE TypeInv'
  OBVIOUS
<1> USE NoneAssumption DEF TypeInv
<1>1. ASSUME NEW w \in Workers, NEW u \in Users, NEW c \in Rows, ReceiveClaim(w, u, c)
      PROVE  TypeInv'
  <2> DEFINE j == [kind |-> "claim", coupon |-> c, user |-> u, total |-> None, active |-> TRUE]
  <2>1. j \in Job /\ coupons[c] \in Coupon /\ c \in Coupons
    BY <1>1 DEF Job, Rows, TypeOK
  <2>2. CASE Available(coupons[c])
    <3>1. /\ pc' = [pc EXCEPT ![w] = "count"] /\ job' = [job EXCEPT ![w] = j]
          /\ read' = [read EXCEPT ![w] = coupons[c]]
      BY <1>1, <2>2 DEF ReceiveClaim
    <3>2. j.user = u
      OBVIOUS
    <3> HIDE DEF j
    <3>3. TypeOK'
      BY <1>1, <2>1, <3>1 DEF TypeOK, ReceiveClaim, history
    <3>4. \A v \in Workers : HandlerOK(v)'
      BY <2>1, <3>1, <3>2 DEF TypeOK, HandlerOK, Claiming
    <3> QED
      BY <3>3, <3>4
  <2>3. CASE ~Available(coupons[c])
    BY <1>1, <2>3 DEF ReceiveClaim, TypeOK, HandlerOK, history
  <2> QED
    BY <2>2, <2>3
<1>2. ASSUME NEW w \in Workers, NEW c \in Rows, NEW total \in Totals \cup {None},
             NEW active \in BOOLEAN, ReceiveEdit(w, c, total, active)
      PROVE  TypeInv'
  <2> DEFINE j == [kind |-> "edit", coupon |-> c, user |-> None, total |-> total,
                   active |-> active]
  <2>1. j \in Job /\ coupons[c] \in Coupon
    BY <1>2 DEF Job, Rows, TypeOK
  <2>2. /\ pc' = [pc EXCEPT ![w] = "edit"] /\ job' = [job EXCEPT ![w] = j]
        /\ read' = [read EXCEPT ![w] = coupons[c]]
    BY <1>2 DEF ReceiveEdit
  <2> HIDE DEF j
  <2>3. TypeOK'
    BY <1>2, <2>1, <2>2 DEF TypeOK, ReceiveEdit, history
  <2>4. \A v \in Workers : HandlerOK(v)'
    BY <2>1, <2>2 DEF TypeOK, HandlerOK, Claiming
  <2> QED
    BY <2>3, <2>4
<1>3. ASSUME NEW w \in Workers, Count(w) \/ Insert(w) \/ Save(w) PROVE TypeInv'
  <2>1. CASE Finish(w)
    <3>1. UNCHANGED <<coupons, claimed, history>>
      BY <1>3 DEF Count, Insert, Save
    <3> QED
      BY <2>1, <3>1, FinishTyped DEF TypeOK, history
  <2>2. CASE ~Finish(w)
    <3>1. /\ pc[w] \in Claiming
          /\ \E step \in {"insert", "save", "commit"} : pc' = [pc EXCEPT ![w] = step]
          /\ UNCHANGED <<coupons, claimed, job, read, history>>
      BY <1>3, <2>2 DEF Count, Insert, Save, Claiming
    <3>2. TypeOK'
      BY <3>1 DEF TypeOK, history
    <3>3. \A v \in Workers : HandlerOK(v)'
      BY <3>1 DEF TypeOK, HandlerOK, Claiming
    <3> QED
      BY <3>2, <3>3
  <2> QED
    BY <2>1, <2>2
<1>4. ASSUME NEW w \in Workers, Commit(w) PROVE TypeInv'
  <2>1. job[w] \in Job /\ read[w] \in Coupon /\ job[w].user \in Users
    BY <1>4 DEF Commit, HandlerOK, Claiming
  <2>2. job[w].coupon \in Coupons
    BY <2>1 DEF Job
  <2>3. coupons' \in [Coupons -> Coupon \cup {None}] /\ claimed' \subseteq Users \X Coupons
    BY <1>4, <2>1, <2>2, CountedTyped DEF Commit, TypeOK
  <2>4. counted' \in [Coupons -> Nat]
    BY <1>4, <2>2 DEF Commit, TypeOK
  <2>5. raced' \subseteq Coupons
    BY <1>4, <2>2, RaceTyped DEF Commit, TypeOK
  <2>6. Finish(w) /\ UNCHANGED <<given, lowered>>
    BY <1>4 DEF Commit
  <2> QED
    BY <2>3, <2>4, <2>5, <2>6, FinishTyped DEF TypeOK
<1>5. ASSUME NEW w \in Workers, Edit(w) PROVE TypeInv'
  <2>1. job[w] \in Job /\ read[w] \in Coupon
    BY <1>5 DEF Edit, HandlerOK
  <2>2. job[w].coupon \in Coupons
    BY <2>1 DEF Job
  <2>3. coupons' \in [Coupons -> Coupon \cup {None}] /\ lowered' \subseteq Coupons
    BY <1>5, <2>1, <2>2, EditedTyped DEF Edit, TypeOK
  <2>4. raced' \subseteq Coupons
    BY <1>5, <2>2, RaceTyped DEF Edit, TypeOK
  <2>5. Finish(w) /\ UNCHANGED <<claimed, counted, given>>
    BY <1>5 DEF Edit
  <2> QED
    BY <2>3, <2>4, <2>5, FinishTyped DEF TypeOK
<1>6. ASSUME NEW w \in Workers, Fail(w) PROVE TypeInv'
  BY <1>6, FinishTyped DEF Fail, TypeOK, history
<1>7. ASSUME NEW c \in Rows, Delete(c) PROVE TypeInv'
  <2>1. c \in Coupons
    BY DEF Rows
  <2>2. raced' \subseteq Coupons
    BY <1>7, <2>1, RaceTyped DEF Delete, TypeOK
  <2>3. coupons' \in [Coupons -> Coupon \cup {None}] /\ claimed' \subseteq Users \X Coupons
    BY <1>7, <2>1 DEF Delete, OtherClaims, TypeOK
  <2> QED
    BY <1>7, <2>2, <2>3 DEF Delete, TypeOK, HandlerOK
<1>8. ASSUME NEW u \in Users, NEW c \in Rows, Give(u, c) \/ Discard(u, c) PROVE TypeInv'
  BY <1>8 DEF Give, Discard, TypeOK, HandlerOK, Rows, history
<1>9. ASSUME NEW u \in Users, NEW other \in Users, NEW c \in Rows, NEW to \in Rows,
             Move(u, c, other, to)
      PROVE  TypeInv'
  BY <1>9 DEF Move, TypeOK, HandlerOK, Rows
<1>10. CASE UNCHANGED vars
  BY <1>10 DEF vars, history, TypeOK, HandlerOK
<1> QED
  BY <1>1, <1>2, <1>3, <1>4, <1>5, <1>6, <1>7, <1>8, <1>9, <1>10 DEF Next

\* The tables and the handlers' locals hold values of their kinds.
THEOREM TypeCorrectness == Spec => []TypeOK
<1>1. Init => TypeInv
  BY InitTyped
<1>2. TypeInv /\ [Next]_vars => TypeInv'
  BY StepTyped
<1>3. TypeInv => TypeOK
  BY DEF TypeInv
<1> QED
  BY <1>1, <1>2, <1>3, PTL DEF Spec
-----------------------------------------------------------------------------
(***************************************************************************)
(* The row of a coupon                                                     *)
(***************************************************************************)
\* A claim's copy was available when it was read, and is saved as it was read.
CopiesAvailable == \A w \in Workers : pc[w] \in Claiming => read[w].used < read[w].total

RowInv == RowLooksSound /\ CopiesAvailable

\* A handler that ends leaves no copy behind.
LEMMA FinishCopies ==
  ASSUME TypeInv, NEW w \in Workers, Finish(w), CopiesAvailable
  PROVE  CopiesAvailable'
BY FinishTyped DEF CopiesAvailable, Claiming

\* Saving a sound row keeps the table sound.
LEMMA StoredSound ==
  ASSUME TypeInv, RowLooksSound, NEW c \in Coupons, NEW row \in Coupon,
         coupons' = [coupons EXCEPT ![c] = row],
         lowered \subseteq lowered', c \in lowered' \/ row.used <= row.total
  PROVE  RowLooksSound'
BY DEF RowLooksSound, Rows, TypeInv, TypeOK

LEMMA StepSound == TypeInv /\ RowInv /\ [Next]_vars => RowInv'
<1> SUFFICES ASSUME TypeInv, RowInv, [Next]_vars PROVE RowInv'
  OBVIOUS
<1> USE DEF RowInv
<1>0. TypeOK /\ \A w \in Workers : HandlerOK(w)
  BY DEF TypeInv
<1>1. ASSUME NEW w \in Workers, NEW u \in Users, NEW c \in Rows, ReceiveClaim(w, u, c)
      PROVE  RowInv'
  <2>1. CopiesAvailable'
    BY <1>0, <1>1 DEF ReceiveClaim, CopiesAvailable, Available, TypeOK
  <2>2. RowLooksSound'
    BY <1>1 DEF ReceiveClaim, RowLooksSound, Rows, history
  <2> QED
    BY <2>1, <2>2
<1>2. ASSUME NEW w \in Workers, NEW c \in Rows, NEW total \in Totals \cup {None},
             NEW active \in BOOLEAN, ReceiveEdit(w, c, total, active)
      PROVE  RowInv'
  <2>1. CopiesAvailable'
    BY <1>0, <1>2 DEF ReceiveEdit, CopiesAvailable, Claiming, TypeOK
  <2>2. RowLooksSound'
    BY <1>2 DEF ReceiveEdit, RowLooksSound, Rows, history
  <2> QED
    BY <2>1, <2>2
<1>3. ASSUME NEW w \in Workers, Count(w) \/ Insert(w) \/ Save(w) PROVE RowInv'
  <2>1. RowLooksSound'
    BY <1>3 DEF Count, Insert, Save, RowLooksSound, Rows, history
  <2>2. CASE Finish(w)
    BY <2>1, <2>2, FinishCopies
  <2>3. CASE ~Finish(w)
    <3>1. /\ pc[w] \in Claiming /\ UNCHANGED read
          /\ \E step \in {"insert", "save", "commit"} : pc' = [pc EXCEPT ![w] = step]
      BY <1>3, <2>3 DEF Count, Insert, Save, Claiming
    <3> QED
      BY <1>0, <2>1, <3>1 DEF CopiesAvailable, TypeOK
  <2> QED
    BY <2>2, <2>3
<1>4. ASSUME NEW w \in Workers, Commit(w) PROVE RowInv'
  <2>1. pc[w] \in Claiming /\ job[w] \in Job /\ read[w] \in Coupon
    BY <1>0, <1>4 DEF Commit, HandlerOK, Claiming
  <2>2. read[w].used < read[w].total
    BY <2>1 DEF CopiesAvailable
  <2>3. /\ Counted(w) \in Coupon /\ Counted(w).used <= Counted(w).total
        /\ job[w].coupon \in Coupons
    BY <2>1, <2>2, CountedTyped DEF Job, Coupon
  <2>4. /\ coupons' = [coupons EXCEPT ![job[w].coupon] = Counted(w)]
        /\ lowered' = lowered /\ Finish(w)
    BY <1>4 DEF Commit
  <2> QED
    BY <2>3, <2>4, FinishCopies, StoredSound
<1>5. ASSUME NEW w \in Workers, Edit(w) PROVE RowInv'
  <2>1. job[w] \in Job /\ read[w] \in Coupon
    BY <1>0, <1>5 DEF Edit, HandlerOK
  <2>2. job[w].coupon \in Coupons /\ Edited(w) \in Coupon /\ Edited(w).used = read[w].used
    BY <2>1, EditedTyped DEF Job
  <2>3. /\ coupons' = [coupons EXCEPT ![job[w].coupon] = Edited(w)] /\ Finish(w)
        /\ lowered' = IF Edited(w).total < read[w].used THEN lowered \cup {job[w].coupon}
                                                        ELSE lowered
    BY <1>5 DEF Edit
  <2>4. \/ job[w].coupon \in lowered'
        \/ Edited(w).used <= Edited(w).total
    BY <2>2, <2>3 DEF Coupon
  <2> QED
    BY <2>2, <2>3, <2>4, FinishCopies, StoredSound
<1>6. ASSUME NEW w \in Workers, Fail(w) PROVE RowInv'
  <2>1. RowLooksSound' /\ Finish(w)
    BY <1>6 DEF Fail, RowLooksSound, Rows, history
  <2> QED
    BY <2>1, FinishCopies
<1>7. ASSUME NEW c \in Rows, Delete(c) PROVE RowInv'
  BY <1>0, <1>7 DEF Delete, RowLooksSound, CopiesAvailable, Rows, TypeOK
<1>8. ASSUME NEW u \in Users, NEW c \in Rows, Give(u, c) \/ Discard(u, c) PROVE RowInv'
  BY <1>8 DEF Give, Discard, RowLooksSound, CopiesAvailable, Rows, history
<1>9. ASSUME NEW u \in Users, NEW other \in Users, NEW c \in Rows, NEW to \in Rows,
             Move(u, c, other, to)
      PROVE  RowInv'
  BY <1>9 DEF Move, RowLooksSound, CopiesAvailable, Rows
<1>10. CASE UNCHANGED vars
  BY <1>10 DEF vars, history, RowLooksSound, CopiesAvailable, Rows
<1> QED
  BY <1>1, <1>2, <1>3, <1>4, <1>5, <1>6, <1>7, <1>8, <1>9, <1>10 DEF Next

LEMMA InitSound == Init => RowInv
<1> SUFFICES ASSUME Init PROVE RowInv
  OBVIOUS
<1>1. \A c \in Coupons : coupons[c].used = 0 /\ coupons[c].total \in Totals
  BY DEF Init
<1>2. \A w \in Workers : pc[w] = "idle"
  BY DEF Init
<1>3. ASSUME NEW c \in Coupons \ lowered PROVE coupons[c].used <= coupons[c].total
  <2>1. coupons[c].used = 0 /\ coupons[c].total \in Int
    BY <1>1, NumbersAssumption
  <2>2. ~(coupons[c].total < 0)
    BY <1>3 DEF Init
  <2> QED
    BY <2>1, <2>2
<1>4. RowLooksSound
  BY <1>3 DEF RowLooksSound, Rows
<1>5. CopiesAvailable
  BY <1>2 DEF CopiesAvailable, Claiming
<1> QED
  BY <1>4, <1>5 DEF RowInv

\* The row never shows more used than issued, unless its total was set below that.
THEOREM RowsLookSound == Spec => []RowLooksSound
<1>1. Init => TypeInv /\ RowInv
  BY InitTyped, InitSound
<1>2. TypeInv /\ RowInv /\ [Next]_vars => (TypeInv /\ RowInv)'
  BY StepTyped, StepSound
<1>3. TypeInv /\ RowInv => RowLooksSound
  BY DEF RowInv
<1> QED
  BY <1>1, <1>2, <1>3, PTL DEF Spec
-----------------------------------------------------------------------------
(***************************************************************************)
(* The count of a coupon                                                   *)
(***************************************************************************)
\* What a handler fetched is still the row, until somebody commits it.
CopiesFresh ==
  \A w \in Workers :
    pc[w] # "idle" /\ job[w].coupon \notin raced => read[w] = coupons[job[w].coupon]

CountInv == CountTellsClaims /\ CopiesFresh

\* Nothing but the row of c changes, and no other handler has it.
LEMMA StoredFresh ==
  ASSUME TypeInv, CopiesFresh, NEW w \in Workers, pc[w] # "idle", Finish(w),
         Race({w}, job[w].coupon), NEW row,
         coupons' = [coupons EXCEPT ![job[w].coupon] = row]
  PROVE  CopiesFresh'
<1>1. job[w] \in Job
  BY DEF TypeInv, HandlerOK
<1>2. job[w].coupon \in Coupons
  BY <1>1 DEF Job
<1>3. SUFFICES ASSUME NEW v \in Workers, pc'[v] # "idle", job'[v].coupon \notin raced'
               PROVE  read'[v] = coupons'[job'[v].coupon]
  BY DEF CopiesFresh
<1>4. v # w /\ pc'[v] = pc[v] /\ job'[v] = job[v] /\ read'[v] = read[v]
  BY <1>3, FinishTyped
<1>5. raced \subseteq raced'
  BY <1>2, RaceTyped DEF TypeInv, TypeOK
<1>6. read[v] = coupons[job[v].coupon]
  BY <1>3, <1>4, <1>5 DEF CopiesFresh
<1>7. job[v] \in Job
  BY <1>3, <1>4 DEF TypeInv, HandlerOK
<1>8. job[v].coupon # job[w].coupon
  <2>1. job[v].coupon = job[w].coupon => job[w].coupon \in raced'
    BY <1>2, <1>4, <1>7, NoneAssumption DEF Race
  <2> QED
    BY <2>1, <1>3, <1>4
<1> QED
  BY <1>2, <1>4, <1>6, <1>7, <1>8 DEF TypeInv, TypeOK, Job

\* A handler that ends without a commit.
LEMMA FinishFresh ==
  ASSUME TypeInv, CopiesFresh, NEW w \in Workers, Finish(w), UNCHANGED <<coupons, raced>>
  PROVE  CopiesFresh'
BY FinishTyped DEF CopiesFresh

LEMMA StepCounted == TypeInv /\ CountInv /\ [Next]_vars => CountInv'
<1> SUFFICES ASSUME TypeInv, CountInv, [Next]_vars PROVE CountInv'
  OBVIOUS
<1> USE DEF CountInv
<1>0. TypeOK /\ \A w \in Workers : HandlerOK(w)
  BY DEF TypeInv
<1>1. ASSUME NEW w \in Workers, NEW u \in Users, NEW c \in Rows, ReceiveClaim(w, u, c)
      PROVE  CountInv'
  <2>1. CountTellsClaims'
    BY <1>1 DEF ReceiveClaim, CountTellsClaims, Rows, history
  <2>2. CopiesFresh'
    <3> DEFINE j == [kind |-> "claim", coupon |-> c, user |-> u, total |-> None,
                     active |-> TRUE]
    <3>1. j.coupon = c
      OBVIOUS
    <3>2. \/ UNCHANGED <<pc, job, read>>
          \/ /\ pc' = [pc EXCEPT ![w] = "count"] /\ job' = [job EXCEPT ![w] = j]
             /\ read' = [read EXCEPT ![w] = coupons[c]]
      BY <1>1 DEF ReceiveClaim
    <3> HIDE DEF j
    <3> QED
      BY <1>0, <1>1, <3>1, <3>2 DEF ReceiveClaim, CopiesFresh, TypeOK, history
  <2> QED
    BY <2>1, <2>2
<1>2. ASSUME NEW w \in Workers, NEW c \in Rows, NEW total \in Totals \cup {None},
             NEW active \in BOOLEAN, ReceiveEdit(w, c, total, active)
      PROVE  CountInv'
  <2>1. CountTellsClaims'
    BY <1>2 DEF ReceiveEdit, CountTellsClaims, Rows, history
  <2>2. CopiesFresh'
    <3> DEFINE j == [kind |-> "edit", coupon |-> c, user |-> None, total |-> total,
                     active |-> active]
    <3>1. j.coupon = c
      OBVIOUS
    <3>2. /\ pc' = [pc EXCEPT ![w] = "edit"] /\ job' = [job EXCEPT ![w] = j]
          /\ read' = [read EXCEPT ![w] = coupons[c]]
      BY <1>2 DEF ReceiveEdit
    <3> HIDE DEF j
    <3> QED
      BY <1>0, <1>2, <3>1, <3>2 DEF ReceiveEdit, CopiesFresh, TypeOK, history
  <2> QED
    BY <2>1, <2>2
<1>3. ASSUME NEW w \in Workers, Count(w) \/ Insert(w) \/ Save(w) PROVE CountInv'
  <2>1. CountTellsClaims' /\ UNCHANGED <<coupons, raced>>
    BY <1>3 DEF Count, Insert, Save, CountTellsClaims, Rows, history
  <2>2. CASE Finish(w)
    BY <2>1, <2>2, FinishFresh
  <2>3. CASE ~Finish(w)
    <3>1. /\ pc[w] # "idle" /\ UNCHANGED <<job, read>>
          /\ \E step \in {"insert", "save", "commit"} : pc' = [pc EXCEPT ![w] = step]
      BY <1>3, <2>3 DEF Count, Insert, Save
    <3> QED
      BY <1>0, <2>1, <3>1 DEF CopiesFresh, TypeOK
  <2> QED
    BY <2>2, <2>3
<1>4. ASSUME NEW w \in Workers, Commit(w) PROVE CountInv'
  <2> DEFINE c == job[w].coupon
  <2>1. pc[w] # "idle" /\ job[w] \in Job /\ read[w] \in Coupon
    BY <1>0, <1>4 DEF Commit, HandlerOK
  <2>2. c \in Coupons /\ Counted(w).used = read[w].used + 1
    BY <2>1, CountedTyped DEF Job
  <2>3. /\ coupons' = [coupons EXCEPT ![c] = Counted(w)] /\ Race({w}, c) /\ Finish(w)
        /\ counted' = [counted EXCEPT ![c] = @ + 1]
    BY <1>4 DEF Commit
  <2>4. raced \subseteq raced'
    BY <1>0, <2>2, <2>3, RaceTyped DEF TypeOK
  <2>5. c \notin raced' => coupons[c] = read[w] /\ c \in Rows \ raced
    BY <2>1, <2>2, <2>4, NoneAssumption DEF CopiesFresh, Rows
  <2> HIDE DEF c
  <2>6. CountTellsClaims'
    BY <1>0, <2>2, <2>3, <2>4, <2>5 DEF CountTellsClaims, Rows, TypeOK
  <2>7. CopiesFresh'
    BY <2>1, <2>3, StoredFresh DEF c
  <2> QED
    BY <2>6, <2>7
<1>5. ASSUME NEW w \in Workers, Edit(w) PROVE CountInv'
  <2> DEFINE c == job[w].coupon
  <2>1. pc[w] # "idle" /\ job[w] \in Job /\ read[w] \in Coupon
    BY <1>0, <1>5 DEF Edit, HandlerOK
  <2>2. c \in Coupons /\ Edited(w).used = read[w].used
    BY <2>1, EditedTyped DEF Job
  <2>3. /\ coupons' = [coupons EXCEPT ![c] = Edited(w)] /\ Race({w}, c) /\ Finish(w)
        /\ counted' = counted
    BY <1>5 DEF Edit
  <2>4. raced \subseteq raced'
    BY <1>0, <2>2, <2>3, RaceTyped DEF TypeOK
  <2>5. c \notin raced' => coupons[c] = read[w] /\ c \in Rows \ raced
    BY <2>1, <2>2, <2>4, NoneAssumption DEF CopiesFresh, Rows
  <2> HIDE DEF c
  <2>6. CountTellsClaims'
    BY <1>0, <2>2, <2>3, <2>4, <2>5 DEF CountTellsClaims, Rows, TypeOK
  <2>7. CopiesFresh'
    BY <2>1, <2>3, StoredFresh DEF c
  <2> QED
    BY <2>6, <2>7
<1>6. ASSUME NEW w \in Workers, Fail(w) PROVE CountInv'
  <2>1. CountTellsClaims' /\ Finish(w) /\ UNCHANGED <<coupons, raced>>
    BY <1>6 DEF Fail, CountTellsClaims, Rows, history
  <2> QED
    BY <2>1, FinishFresh
<1>7. ASSUME NEW c \in Rows, Delete(c) PROVE CountInv'
  <2>1. c \in Coupons
    BY DEF Rows
  <2>2. raced \subseteq raced'
    BY <1>0, <1>7, <2>1, RaceTyped DEF Delete, TypeOK
  <2>3. CountTellsClaims'
    BY <1>0, <1>7, <2>1, <2>2 DEF Delete, CountTellsClaims, Rows, TypeOK
  <2>4. ASSUME NEW v \in Workers, pc[v] # "idle", job[v].coupon = c PROVE c \in raced'
    <3>1. job[v] \in Job
      BY <1>0, <2>4 DEF HandlerOK
    <3> QED
      BY <1>7, <2>4, <3>1, NoneAssumption DEF Delete, Race
  <2>5. CopiesFresh'
    <3>1. SUFFICES ASSUME NEW v \in Workers, pc[v] # "idle", job[v].coupon \notin raced'
                   PROVE  read[v] = coupons'[job[v].coupon]
      BY <1>7 DEF CopiesFresh, Delete
    <3>2. job[v] \in Job /\ job[v].coupon # c
      BY <1>0, <2>4, <3>1 DEF HandlerOK
    <3>3. coupons'[job[v].coupon] = coupons[job[v].coupon]
      BY <1>0, <1>7, <3>2 DEF Delete, TypeOK, Job
    <3> QED
      BY <2>2, <3>1, <3>3 DEF CopiesFresh
  <2> QED
    BY <2>3, <2>5
<1>8. ASSUME NEW u \in Users, NEW c \in Rows, Give(u, c) \/ Discard(u, c) PROVE CountInv'
  BY <1>8 DEF Give, Discard, CountTellsClaims, CopiesFresh, Rows, history
<1>9. ASSUME NEW u \in Users, NEW other \in Users, NEW c \in Rows, NEW to \in Rows,
             Move(u, c, other, to)
      PROVE  CountInv'
  BY <1>9 DEF Move, CountTellsClaims, CopiesFresh, Rows
<1>10. CASE UNCHANGED vars
  BY <1>10 DEF vars, history, CountTellsClaims, CopiesFresh, Rows
<1> QED
  BY <1>1, <1>2, <1>3, <1>4, <1>5, <1>6, <1>7, <1>8, <1>9, <1>10 DEF Next

LEMMA InitCounted == Init => CountInv
BY DEF Init, CountInv, CountTellsClaims, CopiesFresh, Rows

\* used_quantity is the number of claims made, unless an update was lost.
THEOREM CountsTellClaims == Spec => []CountTellsClaims
<1>1. Init => TypeInv /\ CountInv
  BY InitTyped, InitCounted
<1>2. TypeInv /\ CountInv /\ [Next]_vars => (TypeInv /\ CountInv)'
  BY StepTyped, StepCounted
<1>3. TypeInv /\ CountInv => CountTellsClaims
  BY DEF CountInv
<1> QED
  BY <1>1, <1>2, <1>3, PTL DEF Spec
-----------------------------------------------------------------------------
(***************************************************************************)
(* The claims of a coupon                                                  *)
(***************************************************************************)
\* A claim that is not made directly is counted.
HoldersCounted ==
  \A c \in Coupons \ given : Cardinality(Holders(c)) <= counted[c]

\* Sets of users are finite: adding one adds at most one, a part has at most as many.
LEMMA UserSets ==
  ASSUME NEW S \in SUBSET Users
  PROVE  /\ Cardinality(S) \in Nat
         /\ \A u \in Users : Cardinality(S \cup {u}) <= Cardinality(S) + 1
         /\ \A T \in SUBSET S : Cardinality(T) <= Cardinality(S)
<1>1. IsFiniteSet(S)
  BY UsersAssumption, FS_Subset
<1>2. Cardinality(S) \in Nat
  BY <1>1, FS_CardinalityType
<1>3. ASSUME NEW u \in Users PROVE Cardinality(S \cup {u}) <= Cardinality(S) + 1
  <2>1. Cardinality(S \cup {u}) = IF u \in S THEN Cardinality(S) ELSE Cardinality(S) + 1
    BY <1>1, FS_AddElement
  <2> QED
    BY <1>2, <2>1
<1>4. ASSUME NEW T \in SUBSET S PROVE Cardinality(T) <= Cardinality(S)
  BY <1>1, FS_Subset
<1> QED
  BY <1>2, <1>3, <1>4

\* Claims that only go away, or come to coupons that are given.
LEMMA FewerHolders ==
  ASSUME TypeInv, HoldersCounted, UNCHANGED counted, given \subseteq given',
         \A c \in Coupons \ given' : Holders(c)' \subseteq Holders(c)
  PROVE  HoldersCounted'
<1> SUFFICES ASSUME NEW c \in Coupons, c \notin given'
             PROVE  Cardinality(Holders(c)') <= counted[c]
  BY DEF HoldersCounted
<1>1. Holders(c) \in SUBSET Users /\ Holders(c)' \in SUBSET Holders(c)
  BY DEF Holders
<1>2. Cardinality(Holders(c)') <= Cardinality(Holders(c)) /\ Cardinality(Holders(c)) \in Nat
  BY <1>1, UserSets
<1>3. Cardinality(Holders(c)') \in Nat
  BY <1>1, UserSets
<1>4. Cardinality(Holders(c)) <= counted[c] /\ counted[c] \in Nat
  BY DEF HoldersCounted, TypeInv, TypeOK
<1> QED
  BY <1>2, <1>3, <1>4

LEMMA StepHolders == TypeInv /\ HoldersCounted /\ [Next]_vars => HoldersCounted'
<1> SUFFICES ASSUME TypeInv, HoldersCounted, [Next]_vars PROVE HoldersCounted'
  OBVIOUS
<1>0. TypeOK /\ \A w \in Workers : HandlerOK(w)
  BY DEF TypeInv
<1>1. ASSUME NEW w \in Workers, Commit(w) PROVE HoldersCounted'
  <2> DEFINE d == job[w].coupon
             u == job[w].user
  <2>1. job[w] \in Job /\ u \in Users
    BY <1>0, <1>1 DEF Commit, HandlerOK, Claiming
  <2>2. d \in Coupons
    BY <2>1 DEF Job
  <2>3. /\ claimed' = claimed \cup {<<u, d>>} /\ given' = given
        /\ counted' = [counted EXCEPT ![d] = @ + 1]
    BY <1>1 DEF Commit
  <2> HIDE DEF d, u
  <2> SUFFICES ASSUME NEW c \in Coupons, c \notin given
               PROVE  Cardinality(Holders(c)') <= counted'[c]
    BY <2>3 DEF HoldersCounted
  <2>4. Cardinality(Holders(c)) <= counted[c] /\ counted[c] \in Nat
    BY <1>0 DEF HoldersCounted, TypeOK
  <2>5. Holders(c) \in SUBSET Users
    BY DEF Holders
  <2>6. CASE c = d
    <3>1. Holders(c)' = Holders(c) \cup {u} /\ counted'[c] = counted[c] + 1
      BY <1>0, <2>1, <2>2, <2>3, <2>6 DEF Holders, TypeOK
    <3>2. /\ Cardinality(Holders(c) \cup {u}) <= Cardinality(Holders(c)) + 1
          /\ Cardinality(Holders(c)) \in Nat
      BY <2>1, <2>5, UserSets
    <3>3. Cardinality(Holders(c) \cup {u}) \in Nat
      BY <2>1, <2>5, UserSets
    <3> HIDE DEF Holders
    <3> QED
      BY <2>4, <3>1, <3>2, <3>3
  <2>7. CASE c # d
    <3>1. Holders(c)' = Holders(c) /\ counted'[c] = counted[c]
      BY <1>0, <2>2, <2>3, <2>7 DEF Holders, TypeOK
    <3> QED
      BY <2>4, <3>1
  <2> QED
    BY <2>6, <2>7
<1>2. CASE UNCHANGED <<claimed, counted, given>>
  BY <1>2, FewerHolders DEF Holders
<1>3. ASSUME NEW c \in Rows, Delete(c) PROVE HoldersCounted'
  BY <1>3, FewerHolders DEF Delete, OtherClaims, Holders
<1>4. ASSUME NEW u \in Users, NEW c \in Rows, Give(u, c) \/ Discard(u, c)
      PROVE  HoldersCounted'
  <2>1. \A d \in Coupons \ given' : Holders(d)' \subseteq Holders(d)
    BY <1>4 DEF Give, Discard, Holders
  <2> QED
    BY <1>4, <2>1, FewerHolders DEF Give, Discard, history
<1>5. ASSUME NEW u \in Users, NEW other \in Users, NEW c \in Rows, NEW to \in Rows,
             Move(u, c, other, to)
      PROVE  HoldersCounted'
  <2>1. \A d \in Coupons \ given' : Holders(d)' \subseteq Holders(d)
    BY <1>5 DEF Move, Holders
  <2> QED
    BY <1>5, <2>1, FewerHolders DEF Move
<1> QED
  BY <1>1, <1>2, <1>3, <1>4, <1>5
  DEF Next, vars, history, ReceiveClaim, ReceiveEdit, Count, Insert, Save, Edit, Fail

CouponInv == TypeInv /\ CountInv /\ HoldersCounted

LEMMA CouponInvariant == Spec => []CouponInv
<1>1. Init => CouponInv
  <2>1. ASSUME Init PROVE HoldersCounted
    <3>1. \A c \in Coupons : Holders(c) = {} /\ counted[c] = 0
      BY <2>1 DEF Init, Holders
    <3> QED
      BY <3>1, FS_EmptySet DEF HoldersCounted
  <2> QED
    BY <2>1, InitTyped, InitCounted DEF CouponInv
<1>2. CouponInv /\ [Next]_vars => CouponInv'
  BY StepTyped, StepCounted, StepHolders DEF CouponInv
<1> QED
  BY <1>1, <1>2, PTL DEF Spec

\* Where no update was lost and nothing given, the claims are within the count.
LEMMA HoldersWithinUsed ==
  ASSUME CouponInv, NEW c \in Rows, c \notin raced \cup given
  PROVE  /\ Cardinality(Holders(c)) <= coupons[c].used
         /\ Cardinality(Holders(c)) \in Nat /\ coupons[c] \in Coupon
<1>1. c \in Coupons /\ coupons[c] \in Coupon
  BY DEF CouponInv, TypeInv, TypeOK, Rows
<1>2. coupons[c].used = counted[c] /\ Cardinality(Holders(c)) <= counted[c]
  BY <1>1 DEF CouponInv, CountInv, CountTellsClaims, HoldersCounted
<1>3. Holders(c) \in SUBSET Users
  BY DEF Holders
<1> QED
  BY <1>1, <1>2, <1>3, UserSets

\* No more coupons are out than were issued, where nothing was lost, given or lowered.
THEOREM IssueKept == Spec => []IssuedWithinTotal
<1>1. CouponInv /\ RowInv => IssuedWithinTotal
  <2> SUFFICES ASSUME CouponInv, RowInv, NEW c \in Rows, c \notin raced \cup given \cup lowered
               PROVE  Cardinality(Holders(c)) <= coupons[c].total
    BY DEF IssuedWithinTotal
  <2>1. /\ Cardinality(Holders(c)) <= coupons[c].used
        /\ Cardinality(Holders(c)) \in Nat /\ coupons[c] \in Coupon
    BY HoldersWithinUsed
  <2>2. coupons[c].used <= coupons[c].total
    BY DEF RowInv, RowLooksSound
  <2> QED
    BY <2>1, <2>2 DEF Coupon
<1>2. Init => TypeInv /\ RowInv
  BY InitTyped, InitSound
<1>3. TypeInv /\ RowInv /\ [Next]_vars => (TypeInv /\ RowInv)'
  BY StepTyped, StepSound
<1> QED
  BY <1>1, <1>2, <1>3, CouponInvariant, PTL DEF Spec

-----------------------------------------------------------------------------
(***************************************************************************)
(* Deleted coupons                                                         *)
(***************************************************************************)
NoClaimsOfDeleted == \A uc \in claimed : uc[2] \in Rows

LEMMA StepClaims == TypeInv /\ NoClaimsOfDeleted /\ [Next]_vars => NoClaimsOfDeleted'
<1> SUFFICES ASSUME TypeInv, NoClaimsOfDeleted, [Next]_vars PROVE NoClaimsOfDeleted'
  OBVIOUS
<1>0. TypeOK /\ \A w \in Workers : HandlerOK(w)
  BY DEF TypeInv
<1>1. ASSUME UNCHANGED <<coupons, claimed>> PROVE NoClaimsOfDeleted'
  BY <1>1 DEF NoClaimsOfDeleted, Rows
<1>2. ASSUME NEW w \in Workers, Commit(w) \/ Edit(w) PROVE NoClaimsOfDeleted'
  <2> DEFINE c == job[w].coupon
  <2>1. job[w] \in Job /\ read[w] \in Coupon /\ (Commit(w) => job[w].user \in Users)
    BY <1>0, <1>2 DEF Commit, Edit, HandlerOK, Claiming
  <2>2. c \in Coupons /\ Counted(w) \in Coupon /\ Edited(w) \in Coupon
    BY <2>1, CountedTyped, EditedTyped DEF Job
  <2>3. PICK row \in Coupon : coupons' = [coupons EXCEPT ![c] = row]
    BY <1>2, <2>2 DEF Commit, Edit
  <2>4. claimed' \subseteq claimed \cup {<<job[w].user, c>>}
    BY <1>2 DEF Commit, Edit
  <2>5. Rows' = Rows \cup {c}
    BY <1>0, <2>2, <2>3, NoneAssumption DEF Rows, TypeOK
  <2> HIDE DEF c
  <2> QED
    BY <2>4, <2>5 DEF NoClaimsOfDeleted
<1>3. ASSUME NEW c \in Rows, Delete(c) PROVE NoClaimsOfDeleted'
  <2>1. Rows' = Rows \ {c}
    BY <1>0, <1>3 DEF Delete, Rows, TypeOK
  <2> QED
    BY <1>3, <2>1 DEF Delete, OtherClaims, NoClaimsOfDeleted
<1>4. ASSUME NEW u \in Users, NEW c \in Rows, Give(u, c) \/ Discard(u, c)
      PROVE  NoClaimsOfDeleted'
  BY <1>4 DEF Give, Discard, NoClaimsOfDeleted, Rows
<1>5. ASSUME NEW u \in Users, NEW other \in Users, NEW c \in Rows, NEW to \in Rows,
             Move(u, c, other, to)
      PROVE  NoClaimsOfDeleted'
  BY <1>5 DEF Move, NoClaimsOfDeleted, Rows
<1>6. ASSUME NEW w \in Workers, Count(w) \/ Insert(w) \/ Save(w) \/ Fail(w)
      PROVE  NoClaimsOfDeleted'
  BY <1>1, <1>6 DEF Count, Insert, Save, Fail
<1>7. ASSUME NEW w \in Workers, NEW u \in Users, NEW c \in Rows, ReceiveClaim(w, u, c)
      PROVE  NoClaimsOfDeleted'
  BY <1>1, <1>7 DEF ReceiveClaim
<1>8. ASSUME NEW w \in Workers, NEW c \in Rows, NEW total \in Totals \cup {None},
             NEW active \in BOOLEAN, ReceiveEdit(w, c, total, active)
      PROVE  NoClaimsOfDeleted'
  BY <1>1, <1>8 DEF ReceiveEdit
<1> QED
  BY <1>1, <1>2, <1>3, <1>4, <1>5, <1>6, <1>7, <1>8 DEF Next, vars

\* A row that is gone is inserted by a handler whose copy is not the row any more.
LEMMA InsertedRaced ==
  ASSUME TypeInv, CopiesFresh, [Next]_vars, NEW c \in Coupons \ Rows, coupons'[c] # None
  PROVE  c \in raced
<1>0. TypeOK /\ \A w \in Workers : HandlerOK(w)
  BY DEF TypeInv
<1>1. coupons[c] = None
  BY DEF Rows
<1>2. ASSUME NEW w \in Workers, Commit(w) \/ Edit(w) PROVE c \in raced
  <2>1. pc[w] # "idle" /\ job[w] \in Job /\ read[w] \in Coupon
    BY <1>0, <1>2 DEF Commit, Edit, HandlerOK
  <2>2. \E row : coupons' = [coupons EXCEPT ![job[w].coupon] = row]
    BY <1>2 DEF Commit, Edit
  <2>3. job[w].coupon = c
    BY <1>0, <1>1, <2>2 DEF TypeOK
  <2>4. read[w] # coupons[c]
    BY <1>1, <2>1, NoneAssumption
  <2> QED
    BY <2>1, <2>3, <2>4 DEF CopiesFresh
<1>3. ASSUME NEW d \in Rows, Delete(d) PROVE c \in raced
  BY <1>0, <1>1, <1>3 DEF Delete, TypeOK
<1>4. coupons' # coupons
  BY <1>1
<1> QED
  BY <1>2, <1>3, <1>4 DEF Next, vars, ReceiveClaim, ReceiveEdit, Count, Insert, Save, Fail,
                        Give, Discard, Move

\* A deleted coupon has no claims, and stays deleted unless a handler still had it.
THEOREM DeletedGone == Spec => DeletedLeavesNothing
<1>1. Init => TypeInv /\ CountInv /\ NoClaimsOfDeleted
  BY InitTyped, InitCounted DEF Init, NoClaimsOfDeleted
<1>2. TypeInv /\ CountInv /\ NoClaimsOfDeleted /\ [Next]_vars =>
        (TypeInv /\ CountInv /\ NoClaimsOfDeleted)'
  BY StepTyped, StepCounted, StepClaims
<1>3. TypeInv /\ CountInv /\ NoClaimsOfDeleted /\ [Next]_vars =>
        [\A c \in Coupons \ Rows :
           Holders(c) = {} /\ (coupons'[c] # None => c \in raced)]_vars
  <2> SUFFICES ASSUME TypeInv, CountInv, NoClaimsOfDeleted, [Next]_vars,
                      NEW c \in Coupons \ Rows
               PROVE  Holders(c) = {} /\ (coupons'[c] # None => c \in raced)
    OBVIOUS
  <2>1. Holders(c) = {}
    BY DEF Holders, NoClaimsOfDeleted
  <2>2. coupons'[c] # None => c \in raced
    BY InsertedRaced DEF CountInv
  <2> QED
    BY <2>1, <2>2
<1> QED
  BY <1>1, <1>2, <1>3, PTL DEF Spec, DeletedLeavesNothing
-----------------------------------------------------------------------------
(***************************************************************************)
(* One claim of a coupon for a user                                        *)
(***************************************************************************)
Key(w) == <<job[w].user, job[w].coupon>>
Inserting == {w \in Workers : pc[w] \in {"save", "commit"}}

\* A key inserted is free, and nobody else's.
KeysFree ==
  /\ \A w \in Inserting : Key(w) \notin claimed
  /\ \A v, w \in Inserting : Key(v) = Key(w) => v = w

\* No key is claimed, and no worker joins those that insert.
LEMMA KeysKept ==
  ASSUME KeysFree, claimed' \subseteq claimed, Inserting' \subseteq Inserting,
         \A v \in Inserting' : job'[v] = job[v]
  PROVE  KeysFree'
BY DEF KeysFree, Key

LEMMA StepKeys == TypeInv /\ KeysFree /\ [Next]_vars => KeysFree'
<1> SUFFICES ASSUME TypeInv, KeysFree, [Next]_vars PROVE KeysFree'
  OBVIOUS
<1>0. TypeOK /\ \A w \in Workers : HandlerOK(w)
  BY DEF TypeInv
<1>1. ASSUME NEW w \in Workers, NEW u \in Users, NEW c \in Rows, ReceiveClaim(w, u, c)
      PROVE  KeysFree'
  BY <1>0, <1>1, KeysKept DEF ReceiveClaim, Inserting, TypeOK
<1>2. ASSUME NEW w \in Workers, NEW c \in Rows, NEW total \in Totals \cup {None},
             NEW active \in BOOLEAN, ReceiveEdit(w, c, total, active)
      PROVE  KeysFree'
  BY <1>0, <1>2, KeysKept DEF ReceiveEdit, Inserting, TypeOK
<1>3. ASSUME NEW w \in Workers, Finish(w), claimed' \subseteq claimed PROVE KeysFree'
  BY <1>3, FinishTyped, KeysKept DEF Inserting
<1>4. ASSUME NEW w \in Workers, Count(w) \/ Save(w) PROVE KeysFree'
  BY <1>0, <1>3, <1>4, KeysKept DEF Count, Save, Inserting, TypeOK
<1>5. ASSUME NEW w \in Workers, Insert(w) PROVE KeysFree'
  <2>1. CASE Finish(w)
    BY <1>3, <1>5, <2>1 DEF Insert
  <2>2. CASE ~Finish(w)
    <3>1. /\ ~Taken(job[w].user, job[w].coupon) /\ pc' = [pc EXCEPT ![w] = "save"]
          /\ KeyHolders(job[w].user, job[w].coupon) = {} /\ UNCHANGED <<job, claimed>>
      BY <1>5, <2>2 DEF Insert
    <3>2. Inserting' = Inserting \cup {w}
      BY <1>0, <3>1 DEF Inserting, TypeOK
    <3>3. Key(w) \notin claimed
      BY <3>1 DEF Taken, Key
    <3>4. \A v \in Inserting : Key(v) # Key(w)
      BY <3>1 DEF KeyHolders, Inserting, Key
    <3> QED
      BY <3>1, <3>2, <3>3, <3>4 DEF KeysFree, Key
  <2> QED
    BY <2>1, <2>2
<1>6. ASSUME NEW w \in Workers, Commit(w) PROVE KeysFree'
  <2>1. w \in Inserting /\ claimed' = claimed \cup {Key(w)}
    BY <1>6 DEF Commit, Inserting, Key
  <2>2. /\ Inserting' \subseteq Inserting \ {w}
        /\ \A v \in Inserting' : job'[v] = job[v]
    BY <1>6, FinishTyped DEF Commit, Inserting
  <2> QED
    BY <2>1, <2>2 DEF KeysFree, Key
<1>7. ASSUME NEW w \in Workers, Edit(w) \/ Fail(w) PROVE KeysFree'
  BY <1>3, <1>7 DEF Edit, Fail
<1>8. ASSUME NEW c \in Rows, Delete(c) PROVE KeysFree'
  BY <1>8, KeysKept DEF Delete, OtherClaims, Inserting
<1>9. ASSUME NEW u \in Users, NEW c \in Rows, Give(u, c) \/ Discard(u, c) PROVE KeysFree'
  BY <1>9 DEF Give, Discard, KeysFree, KeyHolders, Inserting, Key
<1>10. ASSUME NEW u \in Users, NEW other \in Users, NEW c \in Rows, NEW to \in Rows,
              Move(u, c, other, to)
       PROVE  KeysFree'
  BY <1>10 DEF Move, KeysFree, KeyHolders, Inserting, Key
<1>11. CASE UNCHANGED vars
  BY <1>11 DEF vars, KeysFree, Inserting, Key
<1> QED
  BY <1>1, <1>2, <1>4, <1>5, <1>6, <1>7, <1>8, <1>9, <1>10, <1>11 DEF Next

\* A claim that commits is never a second one of its user, at any limit_per_user.
THEOREM OneCouponEach == Spec => NoSecondCoupon
<1>1. Init => TypeInv /\ KeysFree
  BY InitTyped DEF Init, KeysFree, Inserting
<1>2. TypeInv /\ KeysFree /\ [Next]_vars => (TypeInv /\ KeysFree)'
  BY StepTyped, StepKeys
<1>3. KeysFree => \A w \in Workers :
                    pc[w] = "commit" => <<job[w].user, job[w].coupon>> \notin claimed
  BY DEF KeysFree, Inserting, Key
<1>4. TypeInv /\ KeysFree /\ [Next]_vars =>
        [\A w \in Workers :
           pc[w] = "commit" /\ counted' # counted /\ pc'[w] = "idle"
             => <<job[w].user, job[w].coupon>> \notin claimed]_vars
  BY <1>3
<1> QED
  BY <1>1, <1>2, <1>4, PTL DEF Spec, NoSecondCoupon
=============================================================================
