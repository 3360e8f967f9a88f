--------------------------- MODULE ReconcilerProofs ---------------------------
(***************************************************************************)
(* The store and the pump over it, for any number of Routines, Reviews,    *)
(* specs, bodies, faults and generations and any sequence of transactions. *)
(*                                                                         *)
(* First the store alone: upsert_outbox replaces or appends exactly one    *)
(* row (UpsertShape), a write-back changes the status and the bookkeeping  *)
(* of exactly one row (SameIntents), and the invariant StoreInv says of    *)
(* the rows of each key what survives both.  Then the pump: each of its    *)
(* steps is a transaction of StoreSpec or leaves the store alone, so the   *)
(* store's theorems carry over.  Then done rows: the pump acts on          *)
(* snapshots, and BatchFaithful says how far a snapshot may be from its    *)
(* row.  Last, what each step does to the outbox (StepShape), the          *)
(* refinement of KernelIntent and what the kernel holds (KernelInv).       *)
(***************************************************************************)
EXTENDS Reconciler, TLAPS

-----------------------------------------------------------------------------
(* The store *)

\* A live row is the last row of its key.
LiveIsLast(o) ==
    \A i, j \in 1..Len(o) :
        o[i].key = o[j].key /\ IsLive(o[i], o[i].key) => j <= i

\* The last row of key asks for d.
Asks(o, key, d) ==
    \E i \in 1..Len(o) :
        /\ o[i].key = key
        /\ o[i].desired = d
        /\ \A j \in 1..Len(o) : o[j].key = key => j <= i

-----------------------------------------------------------------------------
\* upsert_outbox writes exactly one row: the single live row of the key, or a
\* new last row when the key has no live row.
LEMMA UpsertShape ==
    ASSUME NEW o \in Seq(Row), NEW key \in Keys, NEW d \in Desired, LiveIsLast(o)
    PROVE  LET o2 == upsert_outbox(o, key, d) IN
           /\ o2 \in Seq(Row)
           /\ \E i \in 1..Len(o2) :
               /\ o2[i].key = key /\ o2[i].desired = d /\ o2[i].status = "pending"
               /\ \/ i = Len(o) + 1 /\ Len(o2) = Len(o) + 1 /\ LiveRows(o, key) = {}
                  \/ /\ i \in 1..Len(o) /\ Len(o2) = Len(o) /\ IsLive(o[i], key)
                     /\ o2[i].version = o[i].version + 1
               /\ \A j \in 1..Len(o) : j # i => o2[j] = o[j]
<1> DEFINE o2 == upsert_outbox(o, key, d)
<1>1. CASE LiveRows(o, key) = {}
  <2>1. o2 = Append(o, FreshRow(key, d, 1))
    BY <1>1 DEF upsert_outbox
  <2>2. FreshRow(key, d, 1) \in Row
    BY DEF FreshRow, Row
  <2>3. /\ o2 \in Seq(Row) /\ Len(o2) = Len(o) + 1
        /\ o2[Len(o) + 1] = FreshRow(key, d, 1)
        /\ \A j \in 1..Len(o) : o2[j] = o[j]
    BY <2>1, <2>2
  <2>4. Len(o) + 1 \in 1..Len(o2)
    BY <2>3
  <2> HIDE DEF o2
  <2>5. /\ o2[Len(o) + 1].key = key /\ o2[Len(o) + 1].desired = d
        /\ o2[Len(o) + 1].status = "pending"
    BY <2>3 DEF FreshRow
  <2>. QED  BY <1>1, <2>3, <2>4, <2>5 DEF o2
<1>2. CASE LiveRows(o, key) # {}
  <2>1. PICK i \in LiveRows(o, key) : TRUE
    BY <1>2
  <2>2. i \in 1..Len(o) /\ IsLive(o[i], key) /\ o[i].key = key
    BY <2>1 DEF LiveRows, IsLive
  <2>3. \A j \in LiveRows(o, key) : j = i
    <3> SUFFICES ASSUME NEW j \in LiveRows(o, key) PROVE j = i
      OBVIOUS
    <3>1. j \in 1..Len(o) /\ IsLive(o[j], key) /\ o[j].key = key
      BY DEF LiveRows, IsLive
    <3>2. j <= i /\ i <= j
      BY <2>2, <3>1 DEF LiveIsLast
    <3>. QED  BY <2>2, <3>1, <3>2
  <2>4. LiveRows(o, key) = {i}
    BY <2>1, <2>3
  <2>5. Newest({i}) = i
    BY <2>2 DEF Newest
  <2>6. o2 = [o EXCEPT ![i] = FreshRow(key, d, o[i].version + 1)]
    BY <1>2, <2>4, <2>5 DEF upsert_outbox
  <2>7. o[i] \in Row
    BY <2>2
  <2>8. /\ FreshRow(key, d, o[i].version + 1) \in Row
        /\ FreshRow(key, d, o[i].version + 1).key = key
        /\ FreshRow(key, d, o[i].version + 1).desired = d
        /\ FreshRow(key, d, o[i].version + 1).status = "pending"
        /\ FreshRow(key, d, o[i].version + 1).version = o[i].version + 1
    BY <2>7 DEF FreshRow, Row
  <2>9. /\ o2 \in Seq(Row) /\ Len(o2) = Len(o)
        /\ o2[i] = FreshRow(key, d, o[i].version + 1)
        /\ \A j \in 1..Len(o) : j # i => o2[j] = o[j]
    BY <2>2, <2>6, <2>8
  <2> HIDE DEF o2
  <2>. QED  BY <2>2, <2>8, <2>9 DEF o2
<1>. QED  BY <1>1, <1>2

\* What upsert_outbox leaves true: the key asks for d, its live row is its last,
\* and the rows of every other key are as they were.
LEMMA UpsertKeeps ==
    ASSUME NEW o \in Seq(Row), NEW key \in Keys, NEW d \in Desired, LiveIsLast(o)
    PROVE  LET o2 == upsert_outbox(o, key, d) IN
           /\ o2 \in Seq(Row)
           /\ LiveIsLast(o2)
           /\ Asks(o2, key, d)
           /\ \A k, e : k # key /\ Asks(o, k, e) => Asks(o2, k, e)
           /\ \A j \in 1..Len(o2) : o2[j].key # key => j \in 1..Len(o) /\ o2[j] = o[j]
           /\ \A j \in 1..Len(o) : o[j].key # key => j \in 1..Len(o2) /\ o2[j] = o[j]
           /\ \A j \in 1..Len(o2) :
                o2[j].key = key => o2[j].desired = d \/ (j \in 1..Len(o) /\ o2[j] = o[j])
<1> DEFINE o2 == upsert_outbox(o, key, d)
<1>1. o2 \in Seq(Row)
  BY UpsertShape
<1>2. PICK i \in 1..Len(o2) :
        /\ o2[i].key = key /\ o2[i].desired = d /\ o2[i].status = "pending"
        /\ \/ i = Len(o) + 1 /\ Len(o2) = Len(o) + 1 /\ LiveRows(o, key) = {}
           \/ i \in 1..Len(o) /\ Len(o2) = Len(o) /\ IsLive(o[i], key)
        /\ \A j \in 1..Len(o) : j # i => o2[j] = o[j]
  BY UpsertShape
<1> HIDE DEF o2
<1> Len(o) \in Nat /\ Len(o2) \in Nat
  BY <1>1
<1>3. \A j \in 1..Len(o2) : j # i => j \in 1..Len(o) /\ o2[j] = o[j]
  BY <1>2
<1>4. \A j \in 1..Len(o) : o[j].key # key => j # i
  BY <1>2 DEF IsLive
<1>5. \A j \in 1..Len(o2) : o2[j].key = key => j <= i
  BY <1>2, <1>3 DEF LiveIsLast, IsLive
<1>6. \A j \in 1..Len(o) : j # i /\ o[j].key = key => ~IsLive(o[j], key)
  <2> SUFFICES ASSUME NEW j \in 1..Len(o), j # i, o[j].key = key, IsLive(o[j], key)
               PROVE  FALSE
    OBVIOUS
  <2>1. j \in LiveRows(o, key)
    BY DEF LiveRows
  <2>2. i \in 1..Len(o) /\ IsLive(o[i], key) /\ o[i].key = key
    BY <1>2, <2>1 DEF IsLive
  <2>3. i <= j /\ j <= i
    BY <2>2 DEF LiveIsLast
  <2>. QED  BY <2>2, <2>3
<1>7. LiveIsLast(o2)
  <2> SUFFICES ASSUME NEW a \in 1..Len(o2), NEW b \in 1..Len(o2),
                      o2[a].key = o2[b].key, IsLive(o2[a], o2[a].key)
               PROVE  b <= a
    BY DEF LiveIsLast
  <2>1. CASE a = i
    BY <1>2, <1>5, <2>1
  <2>2. CASE a # i /\ o2[a].key = key
    BY <1>3, <1>6, <2>2
  <2>3. CASE a # i /\ o2[a].key # key
    <3>1. b # i
      BY <1>2, <2>3
    <3>. QED  BY <1>3, <2>3, <3>1 DEF LiveIsLast
  <2>. QED  BY <2>1, <2>2, <2>3
<1>8. Asks(o2, key, d)
  BY <1>2, <1>5 DEF Asks
<1>9. \A j \in 1..Len(o) : o[j].key # key => j \in 1..Len(o2) /\ o2[j] = o[j]
  BY <1>2, <1>4
<1>10. \A j \in 1..Len(o2) : o2[j].key # key => j \in 1..Len(o) /\ o2[j] = o[j]
  BY <1>2, <1>3
<1>11. ASSUME NEW k, NEW e, k # key, Asks(o, k, e) PROVE Asks(o2, k, e)
  <2>1. PICK m \in 1..Len(o) : /\ o[m].key = k /\ o[m].desired = e
                               /\ \A j \in 1..Len(o) : o[j].key = k => j <= m
    BY <1>11 DEF Asks
  <2>2. m \in 1..Len(o2) /\ o2[m] = o[m]
    BY <1>9, <1>11, <2>1
  <2>3. \A j \in 1..Len(o2) : o2[j].key = k => j <= m
    BY <1>10, <1>11, <2>1
  <2>. QED  BY <2>1, <2>2, <2>3 DEF Asks
<1>12. \A j \in 1..Len(o2) :
         o2[j].key = key => o2[j].desired = d \/ (j \in 1..Len(o) /\ o2[j] = o[j])
  BY <1>2, <1>3
<1>. QED  BY <1>1, <1>7, <1>8, <1>9, <1>10, <1>11, <1>12 DEF o2

\* o2 has the rows of o, under the same keys and asking for the same, with no
\* row brought back to life.
SameIntents(o, o2) ==
    /\ o2 \in Seq(Row)
    /\ Len(o2) = Len(o)
    /\ \A j \in 1..Len(o) :
        /\ o2[j].key = o[j].key
        /\ o2[j].desired = o[j].desired
        /\ IsLive(o2[j], o2[j].key) => IsLive(o[j], o[j].key)

\* Such a rewrite keeps the live rows last and every key's intent.
LEMMA SameIntentsKeeps ==
    ASSUME NEW o \in Seq(Row), NEW o2, SameIntents(o, o2), LiveIsLast(o)
    PROVE  /\ LiveIsLast(o2)
           /\ \A k, e : Asks(o, k, e) => Asks(o2, k, e)
<1> Len(o) \in Nat /\ Len(o2) = Len(o)
  BY DEF SameIntents
<1>1. LiveIsLast(o2)
  BY DEF SameIntents, LiveIsLast
<1>2. ASSUME NEW k, NEW e, Asks(o, k, e) PROVE Asks(o2, k, e)
  BY <1>2 DEF SameIntents, Asks
<1>. QED  BY <1>1, <1>2

-----------------------------------------------------------------------------
(* The inductive invariant *)

\* The last row of every Routine that was created asks for its present state.
IntentsKept ==
    \A r \in RoutineIds : routines[r].status # "absent" => Asks(outbox, r, DesiredOf(r))

\* Only finalize_review enqueues for a Review.
UnfinalizedHasNoRow ==
    \A v \in ReviewIds : reviews[v].status # "finalized" => RowsOf(v) = {}

\* What every transaction keeps.
StoreInv ==
    /\ StoreTypeOK
    /\ LiveIsLast(outbox)
    /\ IntentsKept
    /\ UnfinalizedHasNoRow
    /\ FinalizedReviewIsExported

\* The empty database satisfies it.
LEMMA StoreInitInv == StoreInit => StoreInv
<1> SUFFICES ASSUME StoreInit PROVE StoreInv
  OBVIOUS
<1>1. Len(outbox) = 0 /\ 1..Len(outbox) = {}
  BY DEF StoreInit
<1>2. StoreTypeOK
  BY DEF StoreInit, StoreTypeOK
<1>3. LiveIsLast(outbox) /\ IntentsKept /\ UnfinalizedHasNoRow /\ FinalizedReviewIsExported
  BY <1>1 DEF StoreInit, LiveIsLast, IntentsKept, UnfinalizedHasNoRow, RowsOf,
              FinalizedReviewIsExported
<1>. QED  BY <1>2, <1>3 DEF StoreInv

\* The desired states the store writes are well formed.
LEMMA DesiredTypes ==
    /\ \A s \in Specs \cup {Nothing}, b \in BOOLEAN : routine_outbox_upsert_desired(s, b) \in Desired
    /\ routine_outbox_delete_desired \in Desired
    /\ \A b \in Bodies : review_remember_desired(b) \in Desired
BY DEF Desired, Kinds, routine_outbox_upsert_desired, routine_outbox_delete_desired,
       review_remember_desired

\* A step that leaves the Reviews and their rows alone keeps what holds of them.
LEMMA ReviewsUntouched ==
    ASSUME UnfinalizedHasNoRow, FinalizedReviewIsExported,
           UNCHANGED <<reviews, markdown>>,
           \A v \in ReviewIds :
               /\ RowsOf(v)' = RowsOf(v)
               /\ \A i \in RowsOf(v) : outbox'[i].desired = outbox[i].desired
    PROVE  (UnfinalizedHasNoRow /\ FinalizedReviewIsExported)'
<1> SUFFICES ASSUME NEW v \in ReviewIds
             PROVE  /\ reviews'[v].status # "finalized" => RowsOf(v)' = {}
                    /\ reviews'[v].status = "finalized" =>
                        /\ markdown'[v] = reviews'[v].body
                        /\ (reviews'[v].body = Blank) <=> (RowsOf(v)' = {})
                        /\ \A i \in RowsOf(v)' :
                            outbox'[i].desired = review_remember_desired(reviews'[v].body)
  BY DEF UnfinalizedHasNoRow, FinalizedReviewIsExported
<1>1. reviews' = reviews /\ markdown' = markdown
  OBVIOUS
<1>. QED  BY <1>1 DEF UnfinalizedHasNoRow, FinalizedReviewIsExported

\* An upsert for a key that is no Review's.
LEMMA ForeignUpsert ==
    ASSUME StoreInv, NEW key \in RoutineIds \cup OrphanIds, NEW d \in Desired,
           outbox' = upsert_outbox(outbox, key, d), UNCHANGED <<reviews, markdown>>
    PROVE  /\ outbox' \in Seq(Row)
           /\ LiveIsLast(outbox')
           /\ Asks(outbox', key, d)
           /\ \A k, e : k # key /\ Asks(outbox, k, e) => Asks(outbox', k, e)
           /\ (UnfinalizedHasNoRow /\ FinalizedReviewIsExported)'
<1>1. outbox \in Seq(Row) /\ LiveIsLast(outbox) /\ key \in Keys
  BY DEF StoreInv, StoreTypeOK, Keys
<1> DEFINE o2 == upsert_outbox(outbox, key, d)
<1>2. /\ o2 \in Seq(Row) /\ LiveIsLast(o2) /\ Asks(o2, key, d)
      /\ \A k, e : k # key /\ Asks(outbox, k, e) => Asks(o2, k, e)
      /\ \A j \in 1..Len(o2) : o2[j].key # key => j \in 1..Len(outbox) /\ o2[j] = outbox[j]
      /\ \A j \in 1..Len(outbox) : outbox[j].key # key => j \in 1..Len(o2) /\ o2[j] = outbox[j]
  BY <1>1, UpsertKeeps
<1>3. outbox' = o2
  OBVIOUS
<1> HIDE DEF o2
<1>4. \A v \in ReviewIds : v # key
  BY OutboxAssumption
<1>5. ASSUME NEW v \in ReviewIds
      PROVE  /\ RowsOf(v)' = RowsOf(v)
             /\ \A i \in RowsOf(v) : outbox'[i].desired = outbox[i].desired
  BY <1>2, <1>3, <1>4 DEF RowsOf
<1>6. (UnfinalizedHasNoRow /\ FinalizedReviewIsExported)'
  BY <1>5, ReviewsUntouched DEF StoreInv
<1>. QED  BY <1>2, <1>3, <1>6

\* A step that changes no more than statuses and bookkeeping of the outbox.
LEMMA SameIntentsInv ==
    ASSUME StoreInv, SameIntents(outbox, outbox'),
           UNCHANGED <<routines, suspendedNotice, reviews, markdown>>
    PROVE  StoreInv'
<1>1. outbox \in Seq(Row) /\ LiveIsLast(outbox)
  BY DEF StoreInv, StoreTypeOK
<1>2. outbox' \in Seq(Row) /\ LiveIsLast(outbox')
      /\ \A k, e : Asks(outbox, k, e) => Asks(outbox', k, e)
  BY <1>1, SameIntentsKeeps DEF SameIntents
<1>3. StoreTypeOK'
  BY <1>2 DEF StoreInv, StoreTypeOK
<1>4. IntentsKept'
  BY <1>2 DEF StoreInv, IntentsKept, DesiredOf
<1>5. ASSUME NEW v \in ReviewIds
      PROVE  /\ RowsOf(v)' = RowsOf(v)
             /\ \A i \in RowsOf(v) : outbox'[i].desired = outbox[i].desired
  BY DEF RowsOf, SameIntents
<1>6. (UnfinalizedHasNoRow /\ FinalizedReviewIsExported)'
  BY <1>5, ReviewsUntouched DEF StoreInv
<1>. QED  BY <1>2, <1>3, <1>4, <1>6 DEF StoreInv

-----------------------------------------------------------------------------
(* One lemma per group of transactions *)

\* A row of sin90_routines.
RoutineRow == [status : {"absent", "active", "paused", "retired"}, spec : Specs \cup {Nothing}]

\* A Routine moves to row x and its new desired state is enqueued with it.
LEMMA RoutineEditInv ==
    ASSUME StoreInv, NEW r \in RoutineIds, NEW x \in RoutineRow, NEW d \in Desired,
           routines' = [routines EXCEPT ![r] = x],
           outbox' = upsert_outbox(outbox, r, d),
           DesiredOf(r)' = d,
           UNCHANGED <<suspendedNotice, reviews, markdown>>
    PROVE  StoreInv'
<1>1. /\ outbox' \in Seq(Row) /\ LiveIsLast(outbox') /\ Asks(outbox', r, d)
      /\ \A k, e : k # r /\ Asks(outbox, k, e) => Asks(outbox', k, e)
      /\ (UnfinalizedHasNoRow /\ FinalizedReviewIsExported)'
  BY ForeignUpsert
<1>2. StoreTypeOK'
  BY <1>1 DEF StoreInv, StoreTypeOK, RoutineRow
<1>3. ASSUME NEW q \in RoutineIds, routines'[q].status # "absent"
      PROVE  Asks(outbox', q, DesiredOf(q)')
  <2>1. CASE q = r
    BY <1>1, <2>1
  <2>2. CASE q # r
    <3>1. routines'[q] = routines[q]
      BY <2>2 DEF StoreInv, StoreTypeOK
    <3>2. DesiredOf(q)' = DesiredOf(q)
      BY <3>1 DEF DesiredOf
    <3>3. Asks(outbox, q, DesiredOf(q))
      BY <1>3, <3>1 DEF StoreInv, IntentsKept
    <3>. QED  BY <1>1, <2>2, <3>2, <3>3
  <2>. QED  BY <2>1, <2>2
<1>4. IntentsKept'
  BY <1>3 DEF IntentsKept
<1>. QED  BY <1>1, <1>2, <1>4 DEF StoreInv

\* create_routine enqueues the state it inserts.
LEMMA create_routineInv ==
    ASSUME StoreInv, NEW r \in RoutineIds, NEW s \in Specs, create_routine(r, s)
    PROVE  StoreInv'
<1> DEFINE x == [status |-> "active", spec |-> s]
           d == routine_outbox_upsert_desired(s, TRUE)
<1>1. x \in RoutineRow /\ d \in Desired
  BY DesiredTypes DEF RoutineRow
<1>2. routines' = [routines EXCEPT ![r] = x] /\ outbox' = upsert_outbox(outbox, r, d)
      /\ UNCHANGED <<suspendedNotice, reviews, markdown>>
  BY DEF create_routine
<1>3. routines'[r] = x
  BY <1>2 DEF StoreInv, StoreTypeOK
<1>4. (routines'[r].status = "active") = TRUE /\ routines'[r].spec = s
  BY <1>3
<1>5. DesiredOf(r)' = routine_outbox_upsert_desired(s, routines'[r].status = "active")
  BY <1>4 DEF DesiredOf
<1>6. DesiredOf(r)' = d
  BY <1>4, <1>5
<1> HIDE DEF x, d
<1>. QED  BY <1>1, <1>2, <1>6, RoutineEditInv

\* update_routine enqueues the new spec with the present status.
LEMMA update_routineInv ==
    ASSUME StoreInv, NEW r \in RoutineIds, NEW s \in Specs, update_routine(r, s)
    PROVE  StoreInv'
<1> DEFINE x == [routines[r] EXCEPT !.spec = s]
           d == routine_outbox_upsert_desired(s, routines[r].status = "active")
<1>1. routines[r] \in RoutineRow /\ routines[r].status \in {"active", "paused"}
  BY DEF StoreInv, StoreTypeOK, RoutineRow, update_routine
<1>2. x \in RoutineRow /\ x.status = routines[r].status /\ x.spec = s /\ d \in Desired
  BY <1>1, DesiredTypes DEF RoutineRow
<1>3. routines' = [routines EXCEPT ![r] = x]
  BY DEF update_routine
<1>4. outbox' = upsert_outbox(outbox, r, d) /\ UNCHANGED <<suspendedNotice, reviews, markdown>>
  BY DEF update_routine
<1>5. routines'[r] = x
  BY <1>3 DEF StoreInv, StoreTypeOK
<1>6. DesiredOf(r)' = d
  BY <1>1, <1>2, <1>5 DEF DesiredOf
<1> HIDE DEF x, d
<1>. QED  BY <1>2, <1>3, <1>4, <1>6, RoutineEditInv

\* transition_routine enqueues the new status, or the delete of a retirement.
LEMMA transition_routineInv ==
    ASSUME StoreInv, NEW r \in RoutineIds, NEW to \in {"active", "paused", "retired"},
           transition_routine(r, to)
    PROVE  StoreInv'
<1> DEFINE x == [routines[r] EXCEPT !.status = to]
           d == IF to = "retired"
                THEN routine_outbox_delete_desired
                ELSE routine_outbox_upsert_desired(routines[r].spec, to = "active")
<1>1. routines[r] \in RoutineRow
  BY DEF StoreInv, StoreTypeOK, RoutineRow
<1>2. x \in RoutineRow /\ x.status = to /\ x.spec = routines[r].spec /\ d \in Desired
  BY <1>1, DesiredTypes DEF RoutineRow
<1>3. routines' = [routines EXCEPT ![r] = x]
  BY DEF transition_routine
<1>4. outbox' = upsert_outbox(outbox, r, d) /\ UNCHANGED <<suspendedNotice, reviews, markdown>>
  BY DEF transition_routine
<1>5. routines'[r] = x
  BY <1>3 DEF StoreInv, StoreTypeOK
<1>6. DesiredOf(r)' = d
  BY <1>2, <1>5 DEF DesiredOf
<1> HIDE DEF x, d
<1>. QED  BY <1>2, <1>3, <1>4, <1>6, RoutineEditInv

\* A row of sin90_reviews.
ReviewRow == [status : {"absent", "draft", "finalized"}, body : Bodies \cup {Blank}]

\* A Review that is not finalized moves to another such row, or its draft's
\* file is written; nothing is enqueued.
LEMMA DraftInv ==
    ASSUME StoreInv, NEW v \in ReviewIds, reviews[v].status # "finalized",
           NEW x \in ReviewRow, x.status # "finalized",
           reviews' = [reviews EXCEPT ![v] = x],
           NEW m \in Bodies \cup {Blank, Nothing},
           markdown' = [markdown EXCEPT ![v] = m],
           UNCHANGED <<routines, suspendedNotice, outbox>>
    PROVE  StoreInv'
<1>1. StoreTypeOK' /\ LiveIsLast(outbox')
  BY DEF StoreInv, StoreTypeOK, ReviewRow
<1>2. IntentsKept'
  BY DEF StoreInv, IntentsKept, DesiredOf
<1>3. \A w \in ReviewIds : RowsOf(w)' = RowsOf(w)
  BY DEF RowsOf
<1>4. reviews'[v] = x /\ \A w \in ReviewIds : w # v => /\ reviews'[w] = reviews[w]
                                                       /\ markdown'[w] = markdown[w]
  BY DEF StoreInv, StoreTypeOK
<1>5. UnfinalizedHasNoRow'
  BY <1>3, <1>4 DEF StoreInv, UnfinalizedHasNoRow
<1>6. ASSUME NEW w \in ReviewIds, reviews'[w].status = "finalized"
      PROVE  /\ markdown'[w] = reviews'[w].body
             /\ (reviews'[w].body = Blank) <=> (RowsOf(w)' = {})
             /\ \A i \in RowsOf(w)' :
                    outbox'[i].desired = review_remember_desired(reviews'[w].body)
  <2>1. w # v
    BY <1>4, <1>6
  <2>2. reviews'[w] = reviews[w] /\ markdown'[w] = markdown[w] /\ outbox' = outbox
    BY <1>4, <2>1
  <2>. QED  BY <1>3, <1>6, <2>2 DEF StoreInv, FinalizedReviewIsExported
<1>7. FinalizedReviewIsExported'
  BY <1>6 DEF FinalizedReviewIsExported
<1>. QED  BY <1>1, <1>2, <1>5, <1>7 DEF StoreInv

\* A new draft has no outbox row.
LEMMA create_reviewInv ==
    ASSUME StoreInv, NEW v \in ReviewIds, create_review(v)
    PROVE  StoreInv'
<1> DEFINE x == [reviews[v] EXCEPT !.status = "draft"]
<1>1. reviews[v] \in ReviewRow /\ reviews[v].status = "absent"
  BY DEF StoreInv, StoreTypeOK, ReviewRow, create_review
<1>2. x \in ReviewRow /\ x.status = "draft"
  BY <1>1 DEF ReviewRow
<1>3. reviews' = [reviews EXCEPT ![v] = x] /\ UNCHANGED <<routines, suspendedNotice, outbox>>
  BY DEF create_review
<1>4. markdown' = [markdown EXCEPT ![v] = markdown[v]] /\ markdown[v] \in Bodies \cup {Blank, Nothing}
  BY DEF create_review, StoreInv, StoreTypeOK
<1> HIDE DEF x
<1>. QED  BY <1>1, <1>2, <1>3, <1>4, DraftInv

\* Editing a draft touches no outbox row.
LEMMA update_review_bodyInv ==
    ASSUME StoreInv, NEW v \in ReviewIds, NEW b \in Bodies \cup {Blank}, update_review_body(v, b)
    PROVE  StoreInv'
<1> DEFINE x == [reviews[v] EXCEPT !.body = b]
<1>1. reviews[v] \in ReviewRow /\ reviews[v].status = "draft"
  BY DEF StoreInv, StoreTypeOK, ReviewRow, update_review_body
<1>2. x \in ReviewRow /\ x.status = "draft"
  BY <1>1 DEF ReviewRow
<1>3. reviews' = [reviews EXCEPT ![v] = x] /\ UNCHANGED <<routines, suspendedNotice, outbox>>
  BY DEF update_review_body
<1>4. markdown' = [markdown EXCEPT ![v] = markdown[v]] /\ markdown[v] \in Bodies \cup {Blank, Nothing}
  BY DEF update_review_body, StoreInv, StoreTypeOK
<1> HIDE DEF x
<1>. QED  BY <1>1, <1>2, <1>3, <1>4, DraftInv

\* An aborted finalize leaves a draft, and only its file behind.
LEMMA finalize_review_abortsInv ==
    ASSUME StoreInv, NEW v \in ReviewIds, finalize_review_aborts(v)
    PROVE  StoreInv'
<1>1. reviews[v] \in ReviewRow /\ reviews[v].status = "draft"
  BY DEF StoreInv, StoreTypeOK, ReviewRow, finalize_review_aborts, write_markdown_atomic
<1>2. reviews' = [reviews EXCEPT ![v] = reviews[v]]
  BY DEF finalize_review_aborts, StoreInv, StoreTypeOK, write_markdown_atomic
<1>3. markdown' = [markdown EXCEPT ![v] = reviews[v].body]
      /\ UNCHANGED <<routines, suspendedNotice, outbox>>
  BY DEF finalize_review_aborts, write_markdown_atomic
<1>4. reviews[v].body \in Bodies \cup {Blank, Nothing}
  BY <1>1 DEF ReviewRow
<1>. QED  BY <1>1, <1>2, <1>3, <1>4, DraftInv

\* Only the Review's own rows may differ, and all of them ask for its body.
LEMMA finalize_reviewInv ==
    ASSUME StoreInv, NEW v \in ReviewIds, finalize_review(v)
    PROVE  StoreInv'
<1> DEFINE b == reviews[v].body
           d == review_remember_desired(b)
<1>1. reviews[v] \in ReviewRow /\ reviews[v].status = "draft"
      /\ b \in Bodies \cup {Blank} /\ RowsOf(v) = {}
  BY DEF StoreInv, StoreTypeOK, ReviewRow, finalize_review, UnfinalizedHasNoRow, write_markdown_atomic
<1>2. /\ outbox' \in Seq(Row) /\ LiveIsLast(outbox')
      /\ \A k, e : k # v /\ Asks(outbox, k, e) => Asks(outbox', k, e)
      /\ \A j \in 1..Len(outbox') : outbox'[j].key # v => j \in 1..Len(outbox) /\ outbox'[j] = outbox[j]
      /\ \A j \in 1..Len(outbox) : outbox[j].key # v => j \in 1..Len(outbox') /\ outbox'[j] = outbox[j]
      /\ (b = Blank) <=> (RowsOf(v)' = {})
      /\ \A j \in RowsOf(v)' : outbox'[j].desired = d
  <2>1. CASE b = Blank
    <3>1. outbox' = outbox
      BY <2>1 DEF finalize_review, write_markdown_atomic
    <3>2. RowsOf(v)' = {}
      BY <1>1, <3>1 DEF RowsOf
    <3>3. outbox \in Seq(Row) /\ LiveIsLast(outbox)
      BY DEF StoreInv, StoreTypeOK
    <3>. QED  BY <2>1, <3>1, <3>2, <3>3
  <2>2. CASE b # Blank
    <3>1. outbox' = upsert_outbox(outbox, v, d)
      BY <2>2 DEF finalize_review, write_markdown_atomic
    <3>2. outbox \in Seq(Row) /\ LiveIsLast(outbox) /\ v \in Keys /\ d \in Desired
      BY <1>1, <2>2, DesiredTypes DEF StoreInv, StoreTypeOK, Keys
    <3> DEFINE o2 == upsert_outbox(outbox, v, d)
    <3> HIDE DEF d
    <3>3. /\ o2 \in Seq(Row) /\ LiveIsLast(o2) /\ Asks(o2, v, d)
          /\ \A k, e : k # v /\ Asks(outbox, k, e) => Asks(o2, k, e)
          /\ \A j \in 1..Len(o2) : o2[j].key # v => j \in 1..Len(outbox) /\ o2[j] = outbox[j]
          /\ \A j \in 1..Len(outbox) : outbox[j].key # v => j \in 1..Len(o2) /\ o2[j] = outbox[j]
          /\ \A j \in 1..Len(o2) :
                o2[j].key = v => o2[j].desired = d \/ (j \in 1..Len(outbox) /\ o2[j] = outbox[j])
      BY <3>2, UpsertKeeps
    <3>4. outbox' = o2
      BY <3>1
    <3> HIDE DEF o2
    <3>5. RowsOf(v)' # {}
      BY <3>3, <3>4 DEF Asks, RowsOf
    <3>6. \A j \in RowsOf(v)' : outbox'[j].desired = d
      BY <1>1, <3>3, <3>4 DEF RowsOf
    <3>. QED  BY <2>2, <3>3, <3>4, <3>5, <3>6
  <2>. QED  BY <2>1, <2>2
<1>3. /\ reviews' = [reviews EXCEPT ![v] = [reviews[v] EXCEPT !.status = "finalized"]]
      /\ markdown' = [markdown EXCEPT ![v] = b]
      /\ UNCHANGED <<routines, suspendedNotice>>
  BY DEF finalize_review, write_markdown_atomic
<1>4. [reviews[v] EXCEPT !.status = "finalized"] \in ReviewRow
  BY <1>1 DEF ReviewRow
<1>5. StoreTypeOK'
  BY <1>1, <1>2, <1>3, <1>4 DEF StoreInv, StoreTypeOK, ReviewRow
<1>6. IntentsKept'
  <2> SUFFICES ASSUME NEW r \in RoutineIds, routines'[r].status # "absent"
               PROVE  Asks(outbox', r, DesiredOf(r)')
    BY DEF IntentsKept
  <2>1. DesiredOf(r)' = DesiredOf(r) /\ routines[r].status # "absent"
    BY <1>3 DEF DesiredOf
  <2>2. r # v
    BY OutboxAssumption
  <2>. QED  BY <1>2, <2>1, <2>2 DEF StoreInv, IntentsKept
<1>7. /\ reviews'[v].status = "finalized" /\ reviews'[v].body = b /\ markdown'[v] = b
      /\ \A w \in ReviewIds : w # v => reviews'[w] = reviews[w] /\ markdown'[w] = markdown[w]
  BY <1>1, <1>3 DEF StoreInv, StoreTypeOK, ReviewRow
<1>8. ASSUME NEW w \in ReviewIds, w # v
      PROVE  /\ RowsOf(w)' = RowsOf(w)
             /\ \A i \in RowsOf(w) : outbox'[i] = outbox[i]
  BY <1>2, <1>8 DEF RowsOf
<1>9. UnfinalizedHasNoRow'
  BY <1>7, <1>8 DEF StoreInv, UnfinalizedHasNoRow
<1>10. ASSUME NEW w \in ReviewIds, reviews'[w].status = "finalized"
       PROVE  /\ markdown'[w] = reviews'[w].body
              /\ (reviews'[w].body = Blank) <=> (RowsOf(w)' = {})
              /\ \A i \in RowsOf(w)' :
                    outbox'[i].desired = review_remember_desired(reviews'[w].body)
  <2>1. CASE w = v
    BY <1>2, <1>7, <2>1
  <2>2. CASE w # v
    <3>1. reviews'[w] = reviews[w] /\ markdown'[w] = markdown[w]
      BY <1>7, <2>2
    <3>. QED  BY <1>8, <1>10, <2>2, <3>1 DEF StoreInv, FinalizedReviewIsExported
  <2>. QED  BY <2>1, <2>2
<1>11. FinalizedReviewIsExported'
  BY <1>10 DEF FinalizedReviewIsExported
<1>. QED  BY <1>2, <1>5, <1>6, <1>9, <1>11 DEF StoreInv

\* A guarded UPDATE that leaves the row's key, kind and desired alone.
LEMMA WriteBackInv ==
    ASSUME StoreInv, NEW i \in 1..Len(outbox), NEW n, NEW row,
           outbox[i].status = "pending" =>
               row \in Row /\ row.key = outbox[i].key /\ row.desired = outbox[i].desired,
           WriteBack(i, n, row)
    PROVE  StoreInv'
<1>1. outbox \in Seq(Row) /\ UNCHANGED <<routines, suspendedNotice, reviews, markdown>>
  BY DEF StoreInv, StoreTypeOK, WriteBack
<1>2. CASE outbox_row_is_current(i, n)
  <2>1. outbox[i].status = "pending" /\ row \in Row
        /\ row.key = outbox[i].key /\ row.desired = outbox[i].desired
    BY <1>2 DEF outbox_row_is_current
  <2>2. outbox' = [outbox EXCEPT ![i] = row]
    BY <1>2 DEF WriteBack
  <2>3. /\ outbox' \in Seq(Row) /\ Len(outbox') = Len(outbox)
        /\ outbox'[i] = row
        /\ \A j \in 1..Len(outbox) : j # i => outbox'[j] = outbox[j]
    BY <1>1, <2>1, <2>2
  <2>4. SameIntents(outbox, outbox')
    BY <2>1, <2>3 DEF SameIntents, IsLive
  <2>. QED  BY <1>1, <2>4, SameIntentsInv
<1>3. CASE ~outbox_row_is_current(i, n)
  <2>1. outbox' = outbox
    BY <1>3 DEF WriteBack
  <2>2. SameIntents(outbox, outbox')
    BY <1>1, <2>1 DEF SameIntents
  <2>. QED  BY <1>1, <2>2, SameIntentsInv
<1>. QED  BY <1>2, <1>3

\* Each of the three write-backs is such an UPDATE.
LEMMA MarkInv ==
    ASSUME StoreInv, NEW i \in 1..Len(outbox), NEW n,
           \/ outbox_mark_done(i, n)
           \/ \E bump \in BOOLEAN : outbox_mark_retry(i, n, bump)
           \/ outbox_mark_failed(i, n)
    PROVE  StoreInv'
<1>1. outbox[i] \in Row
  BY DEF StoreInv, StoreTypeOK
<1>2. CASE outbox_mark_done(i, n)
  <2> DEFINE row == [outbox[i] EXCEPT !.status = "done"]
  <2>1. row \in Row /\ row.key = outbox[i].key /\ row.desired = outbox[i].desired
    BY <1>1 DEF Row
  <2>2. WriteBack(i, n, row)
    BY <1>2 DEF outbox_mark_done
  <2> HIDE DEF row
  <2>. QED  BY <2>1, <2>2, WriteBackInv
<1>3. ASSUME NEW bump \in BOOLEAN, outbox_mark_retry(i, n, bump) PROVE StoreInv'
  <2> DEFINE row == [outbox[i] EXCEPT !.waiting = TRUE,
                        !.otherBucket = IF bump THEN @ + 1 ELSE @]
             n2 == IF bump THEN outbox[i].otherBucket + 1 ELSE outbox[i].otherBucket
  <2>1. n2 \in Nat
    BY <1>1 DEF Row
  <2>2. row = [outbox[i] EXCEPT !.waiting = TRUE, !.otherBucket = n2]
    BY <1>1 DEF Row
  <2>3. row \in Row /\ row.key = outbox[i].key /\ row.desired = outbox[i].desired
    <3> HIDE DEF n2
    <3>. QED  BY <1>1, <2>1, <2>2 DEF Row
  <2>4. WriteBack(i, n, row)
    BY <1>3 DEF outbox_mark_retry
  <2> HIDE DEF row
  <2>. QED  BY <2>3, <2>4, WriteBackInv
<1>4. CASE outbox_mark_failed(i, n)
  <2> DEFINE row == [outbox[i] EXCEPT !.status = "failed", !.waiting = FALSE]
  <2>1. row \in Row /\ row.key = outbox[i].key /\ row.desired = outbox[i].desired
    BY <1>1 DEF Row
  <2>2. WriteBack(i, n, row)
    BY <1>4 DEF outbox_mark_failed
  <2> HIDE DEF row
  <2>. QED  BY <2>1, <2>2, WriteBackInv
<1>. QED  BY <1>2, <1>3, <1>4

\* The passing of next_attempt_at moves no intent.
LEMMA BackoffElapsesInv ==
    ASSUME StoreInv, NEW i \in 1..Len(outbox), BackoffElapses(i)
    PROVE  StoreInv'
<1> DEFINE row == [outbox[i] EXCEPT !.waiting = FALSE]
<1>1. outbox \in Seq(Row) /\ outbox[i] \in Row
  BY DEF StoreInv, StoreTypeOK
<1>2. row \in Row /\ row.key = outbox[i].key /\ row.desired = outbox[i].desired
      /\ row.status = outbox[i].status
  BY <1>1 DEF Row
<1>3. outbox' = [outbox EXCEPT ![i] = row] /\ UNCHANGED <<routines, suspendedNotice, reviews, markdown>>
  BY DEF BackoffElapses
<1> HIDE DEF row
<1>4. /\ outbox' \in Seq(Row) /\ Len(outbox') = Len(outbox)
      /\ outbox'[i] = row
      /\ \A j \in 1..Len(outbox) : j # i => outbox'[j] = outbox[j]
  BY <1>1, <1>2, <1>3
<1>5. SameIntents(outbox, outbox')
  BY <1>2, <1>4 DEF SameIntents, IsLive
<1>. QED  BY <1>3, <1>5, SameIntentsInv

\* Full reconcile's corrections restate what the Routine table says now.
LEMMA EnqueueUpsertInv ==
    ASSUME StoreInv, NEW r \in RoutineIds, outbox_enqueue_upsert_for_routine(r)
    PROVE  StoreInv'
<1>1. routines[r] \in RoutineRow /\ UNCHANGED <<routines, suspendedNotice, reviews, markdown>>
  BY DEF StoreInv, StoreTypeOK, RoutineRow, outbox_enqueue_upsert_for_routine
<1>2. CASE outbox' = outbox
  BY <1>1, <1>2, SameIntentsInv DEF SameIntents, StoreInv, StoreTypeOK
<1>3. CASE outbox' # outbox
  <2> DEFINE d == routine_outbox_upsert_desired(routines[r].spec, routines[r].status = "active")
  <2>1. routines[r].status \notin {"absent", "retired"} /\ outbox' = upsert_outbox(outbox, r, d)
    BY <1>3 DEF outbox_enqueue_upsert_for_routine
  <2>2. d \in Desired
    BY <1>1, DesiredTypes DEF RoutineRow
  <2>3. DesiredOf(r)' = d
    BY <1>1, <2>1 DEF DesiredOf
  <2>4. routines' = [routines EXCEPT ![r] = routines[r]]
    BY <1>1 DEF StoreInv, StoreTypeOK
  <2> HIDE DEF d
  <2>. QED  BY <1>1, <2>1, <2>2, <2>3, <2>4, RoutineEditInv
<1>. QED  BY <1>2, <1>3

\* A delete is enqueued only for a key without a living Routine.
LEMMA EnqueueDeleteInv ==
    ASSUME StoreInv, NEW k \in RoutineIds \cup OrphanIds, outbox_enqueue_delete_for_orphan(k)
    PROVE  StoreInv'
<1>1. UNCHANGED <<routines, suspendedNotice, reviews, markdown>>
  BY DEF outbox_enqueue_delete_for_orphan
<1>2. CASE outbox' = outbox
  BY <1>1, <1>2, SameIntentsInv DEF SameIntents, StoreInv, StoreTypeOK
<1>3. CASE outbox' # outbox
  <2> DEFINE d == routine_outbox_delete_desired
  <2>1. /\ ~(k \in RoutineIds /\ routines[k].status \in {"active", "paused"})
        /\ outbox' = upsert_outbox(outbox, k, d)
    BY <1>3 DEF outbox_enqueue_delete_for_orphan
  <2>2. d \in Desired
    BY DesiredTypes
  <2>3. CASE k \in RoutineIds
    <3>1. routines[k] \in RoutineRow /\ routines' = [routines EXCEPT ![k] = routines[k]]
      BY <1>1, <2>3 DEF StoreInv, StoreTypeOK, RoutineRow
    <3>2. routines'[k].status \in {"absent", "retired"}
      BY <1>1, <2>1, <2>3, <3>1 DEF RoutineRow
    <3>3. DesiredOf(k)' = d
      BY <3>2 DEF DesiredOf
    <3> HIDE DEF d
    <3>. QED  BY <1>1, <2>1, <2>2, <2>3, <3>1, <3>3, RoutineEditInv
  <2>4. CASE k \notin RoutineIds
    <3> HIDE DEF d
    <3>1. /\ outbox' \in Seq(Row) /\ LiveIsLast(outbox')
          /\ \A q, e : q # k /\ Asks(outbox, q, e) => Asks(outbox', q, e)
          /\ (UnfinalizedHasNoRow /\ FinalizedReviewIsExported)'
      BY <1>1, <2>1, <2>2, ForeignUpsert
    <3>2. StoreTypeOK'
      BY <1>1, <3>1 DEF StoreInv, StoreTypeOK
    <3>3. IntentsKept'
      BY <1>1, <2>4, <3>1 DEF StoreInv, IntentsKept, DesiredOf
    <3>. QED  BY <3>1, <3>2, <3>3 DEF StoreInv
  <2>. QED  BY <2>3, <2>4
<1>. QED  BY <1>2, <1>3

\* The suspended marks are no part of an intent.
LEMMA SyncSuspendedInv ==
    ASSUME StoreInv, NEW ids \in SUBSET RoutineIds, sync_kernel_suspended_routines(ids)
    PROVE  StoreInv'
BY DEF StoreInv, StoreTypeOK, sync_kernel_suspended_routines, IntentsKept, DesiredOf,
       UnfinalizedHasNoRow, FinalizedReviewIsExported, RowsOf

-----------------------------------------------------------------------------
(* The theorems *)

\* Every transaction of the store keeps the invariant.
LEMMA StoreNextInv == StoreInv /\ [StoreNext]_storeVars => StoreInv'
<1> SUFFICES ASSUME StoreInv, [StoreNext]_storeVars PROVE StoreInv'
  OBVIOUS
<1>1. CASE UNCHANGED storeVars
  BY <1>1, SameIntentsInv DEF storeVars, SameIntents, StoreInv, StoreTypeOK
<1>2. ASSUME NEW r \in RoutineIds, NEW s \in Specs, create_routine(r, s) \/ update_routine(r, s)
      PROVE  StoreInv'
  BY <1>2, create_routineInv, update_routineInv
<1>3. ASSUME NEW r \in RoutineIds, NEW to \in {"active", "paused", "retired"}, transition_routine(r, to)
      PROVE  StoreInv'
  BY <1>3, transition_routineInv
<1>4. ASSUME NEW v \in ReviewIds, create_review(v) \/ finalize_review(v) \/ finalize_review_aborts(v)
      PROVE  StoreInv'
  BY <1>4, create_reviewInv, finalize_reviewInv, finalize_review_abortsInv
<1>5. ASSUME NEW v \in ReviewIds, NEW b \in Bodies \cup {Blank}, update_review_body(v, b)
      PROVE  StoreInv'
  BY <1>5, update_review_bodyInv
<1>6. CASE Edit
  BY <1>6, <1>2, <1>3, <1>4, <1>5 DEF Edit
<1>7. CASE Reconcile
  BY <1>7, MarkInv, EnqueueUpsertInv, EnqueueDeleteInv, SyncSuspendedInv DEF Reconcile
<1>8. CASE \E i \in 1..Len(outbox) : BackoffElapses(i)
  BY <1>8, BackoffElapsesInv
<1>. QED  BY <1>1, <1>6, <1>7, <1>8 DEF StoreNext

\* What the invariant says in the terms the runs check.
LEMMA StoreInvImplies ==
    StoreInv => /\ StoreTypeOK
                /\ LiveRowIsNewest
                /\ NewestRowIsCurrentIntent
                /\ FinalizedReviewIsExported
<1> SUFFICES ASSUME StoreInv
             PROVE  LiveRowIsNewest /\ NewestRowIsCurrentIntent
  BY DEF StoreInv
<1>1. LiveRowIsNewest
  BY DEF StoreInv, LiveIsLast, LiveRowIsNewest
<1>2. NewestRowIsCurrentIntent
  BY DEF StoreInv, IntentsKept, Asks, NewestRowIsCurrentIntent, RowsOf
<1>. QED  BY <1>1, <1>2

\* StoreInv, which the properties below follow from, holds in every state the
\* transactions of store/repo.rs reach.
THEOREM StoreInvariant == StoreSpec => []StoreInv
BY StoreInitInv, StoreNextInv, PTL DEF StoreSpec

\* Every column keeps its type.
THEOREM StoreTypes == StoreSpec => []StoreTypeOK
BY StoreInvariant, StoreInvImplies, PTL

\* upsert_outbox's collapse leaves a key at most one pending or failed row, and
\* no done row after it.
THEOREM StoreLiveRowIsNewest == StoreSpec => []LiveRowIsNewest
BY StoreInvariant, StoreInvImplies, PTL

\* The outbox never loses or outdates the intent of a Routine.
THEOREM StoreKeepsIntent == StoreSpec => []NewestRowIsCurrentIntent
BY StoreInvariant, StoreInvImplies, PTL

\* A finalized Review's file and memory row hold the finalized body.
THEOREM StoreExportsReviews == StoreSpec => []FinalizedReviewIsExported
BY StoreInvariant, StoreInvImplies, PTL

-----------------------------------------------------------------------------
(* The pump: the store's theorems carry over *)

\* A write-back with a remembered id and version either finds its row or does
\* nothing.
LEMMA WriteBackCases ==
    ASSUME StoreInv, NEW i, NEW n, NEW row, WriteBack(i, n, row)
    PROVE  \/ UNCHANGED storeVars
           \/ /\ i \in 1..Len(outbox)
              /\ outbox[i].status = "pending" /\ outbox[i].version = n
              /\ n \in 1..outbox[i].version
              /\ outbox' = [outbox EXCEPT ![i] = row]
<1>1. CASE ~outbox_row_is_current(i, n)
  BY <1>1 DEF WriteBack, storeVars
<1>2. CASE outbox_row_is_current(i, n)
  <2>1. i \in 1..Len(outbox) /\ outbox[i].status = "pending" /\ outbox[i].version = n
        /\ outbox' = [outbox EXCEPT ![i] = row]
    BY <1>2 DEF WriteBack, outbox_row_is_current
  <2>2. outbox[i].version \in Nat \ {0}
    <3>1. outbox[i] \in Row
      BY <2>1 DEF StoreInv, StoreTypeOK
    <3>. QED  BY <3>1 DEF Row
  <2>. QED  BY <2>1, <2>2
<1>. QED  BY <1>1, <1>2

\* So each write-back of the pump is a transaction of StoreSpec, or nothing.
LEMMA MarksAreStoreSteps ==
    ASSUME StoreInv, NEW i, NEW n,
           \/ outbox_mark_done(i, n)
           \/ \E bump \in BOOLEAN : outbox_mark_retry(i, n, bump)
           \/ outbox_mark_failed(i, n)
    PROVE  [StoreNext]_storeVars
<1>1. UNCHANGED storeVars \/ (i \in 1..Len(outbox) /\ n \in 1..outbox[i].version)
  BY WriteBackCases DEF outbox_mark_done, outbox_mark_retry, outbox_mark_failed
<1>. QED  BY <1>1 DEF StoreNext, Reconcile

\* Whatever the pump, a handler, the kernel or a crash does is a transaction of
\* the store or none.
LEMMA StepIsStore == StoreInv /\ [Next]_vars => [StoreNext]_storeVars
<1> SUFFICES ASSUME StoreInv, [Next]_vars PROVE [StoreNext]_storeVars
  OBVIOUS
<1>1. CASE UNCHANGED vars
  BY <1>1 DEF vars
<1>2. CASE HttpEdit
  BY <1>2 DEF HttpEdit, StoreNext
<1>3. CASE RowBecomesDue
  BY <1>3 DEF RowBecomesDue, StoreNext
<1>4. CASE FullBecomesDue \/ KernelDrifts \/ LateCallExecuted \/ Crash \/ GenerationEnds \/ StartGeneration
  BY <1>4 DEF FullBecomesDue, KernelDrifts, LateCallExecuted, Crash, GenerationEnds, StartGeneration
<1>5. CASE Wake \/ SkipStaleRow \/ SkipUnserved \/ SendRow \/ RowRevoked \/ RowConnectionLost \/ DrainEnds
  BY <1>5 DEF Wake, SkipStaleRow, SkipUnserved, SendRow, RowRevoked, RowConnectionLost, DrainEnds
<1>6. CASE PostponeUnknownKind \/ RowLands \/ RowFailsForGood \/ RowBacksOff \/ RowRetriesOrExhausts
  BY <1>6, MarksAreStoreSteps
  DEF PostponeUnknownKind, RowLands, RowFailsForGood, RowBacksOff, RowRetriesOrExhausts
<1>7. ASSUME NEW k \in ScheduleIds, Correct(k) PROVE [StoreNext]_storeVars
  <2>1. \/ UNCHANGED storeVars
        \/ k \in RoutineIds /\ outbox_enqueue_upsert_for_routine(k)
        \/ outbox_enqueue_delete_for_orphan(k)
    BY <1>7 DEF Correct, IsLocal
  <2>. QED  BY <2>1 DEF StoreNext, Reconcile, ScheduleIds
<1>8. CASE SyncSuspended
  <2>1. \E ids \in SUBSET RoutineIds : sync_kernel_suspended_routines(ids)
    BY <1>8 DEF SyncSuspended
  <2>. QED  BY <2>1 DEF StoreNext, Reconcile
<1>9. CASE KernelAnswers
  BY <1>9 DEF KernelAnswers, SchedulerAnswers, RecallAnswers, RememberAnswers, ListAnswers,
              CallFails, Answered
<1>10. CASE DrainStoreFails \/ ListFails \/ FullStoreFails
  BY <1>10 DEF DrainStoreFails, ListFails, FullStoreFails
<1>. QED
  BY <1>1, <1>2, <1>3, <1>4, <1>5, <1>6, <1>7, <1>8, <1>9, <1>10 DEF Next, PumpStep

\* The store's invariant is kept by every step of the pump's specification.
LEMMA StoreInvStep == StoreInv /\ [Next]_vars => StoreInv'
BY StepIsStore, StoreNextInv

\* It holds initially.
LEMMA InitIsStore == Init => StoreInv
BY StoreInitInv DEF Init

\* The pump, crashes and kernel answers keep the store's invariant.
THEOREM PumpKeepsStore == Spec => []StoreInv
BY InitIsStore, StoreInvStep, PTL DEF Spec

\* The reconciler implements the store's specification.
THEOREM ReconcilerRefinesStore == Spec => StoreSpec
<1>1. Init => StoreInit
  BY DEF Init
<1>. QED  BY <1>1, StepIsStore, PumpKeepsStore, PTL DEF Spec, StoreSpec

-----------------------------------------------------------------------------
(* Types *)

\* outbox_due_pending's snapshots are those of due rows.
LEMMA DueBatch ==
    ASSUME outbox \in Seq(Row), NEW b \in outbox_due_pending
    PROVE  /\ b \in Seq(OutboxRow)
           /\ \A n \in 1..Len(b) : b[n].id \in 1..Len(outbox) /\ b[n] = Snapshot(b[n].id)
<1>1. PICK n \in 0..Len(outbox) : \E ids \in [1..n -> DueIds] :
        b = [m \in DOMAIN ids |-> Snapshot(ids[m])]
  BY DEF outbox_due_pending
<1> PICK ids \in [1..n -> DueIds] : b = [m \in DOMAIN ids |-> Snapshot(ids[m])]
  BY <1>1
<1>2. n \in Nat /\ DOMAIN ids = 1..n
  BY <1>1
<1>3. \A m \in 1..n : ids[m] \in 1..Len(outbox)
  BY <1>1 DEF DueIds
<1>4. \A m \in 1..n : Snapshot(ids[m]) \in OutboxRow /\ Snapshot(ids[m]).id = ids[m]
  <2> SUFFICES ASSUME NEW m \in 1..n
               PROVE  Snapshot(ids[m]) \in OutboxRow /\ Snapshot(ids[m]).id = ids[m]
    OBVIOUS
  <2>1. ids[m] \in Nat \ {0} /\ outbox[ids[m]] \in Row
    BY <1>3
  <2>. QED  BY <2>1 DEF Snapshot, OutboxRow, Row
<1>5. b \in [1..n -> OutboxRow]
  BY <1>1, <1>2, <1>4
<1>6. b \in Seq(OutboxRow) /\ Len(b) = n
  BY <1>2, <1>5
<1>. QED  BY <1>1, <1>2, <1>3, <1>4, <1>6

\* The variables of TypeOK that are not the store's.
PumpTypes ==
    /\ gen \in Generation
    /\ pc \in {"down", "off", "idle", "drain", "sent", "recalled", "reply",
               "list", "correct", "stopped"}
    /\ batch \in Seq(OutboxRow)
    /\ (pc \in {"sent", "recalled", "reply"} => batch # <<>>)
    /\ reply \in Outcomes \cup {Nothing}
    /\ (pc = "reply" => reply \in Outcomes)
    /\ fullDue \in BOOLEAN
    /\ local \in [RoutineIds -> Desired]
    /\ listed \in [ScheduleIds -> Schedule]
    /\ todo \in SUBSET ScheduleIds

\* The kernel's part of TypeOK.
KernelTypes ==
    /\ schedules \in [ScheduleIds -> Schedule]
    /\ memories \in [ReviewIds -> Nat]
    /\ late \in SUBSET Call

\* The history variable's part.
AckTypes == acks \in SUBSET [id : Nat \ {0}, version : Nat \ {0}, desired : Desired]

\* The counters' part.
BoundTypes == edits \in Nat /\ faults \in Nat /\ drifts \in Nat

\* TypeOK is these parts and the store's.
LEMMA TypeParts == TypeOK <=> StoreTypeOK /\ PumpTypes /\ KernelTypes /\ AckTypes /\ BoundTypes
BY DEF TypeOK, PumpTypes, KernelTypes, AckTypes, BoundTypes

\* The values the pump's locals have when it holds none are well formed.
LEMMA EmptyTypes ==
    /\ NoSchedule \in Schedule
    /\ NothingListed \in [ScheduleIds -> Schedule]
    /\ NothingLocal \in [RoutineIds -> Desired]
<1>1. NoSchedule \in Schedule
  BY DEF NoSchedule, Schedule
<1>. QED  BY <1>1, DesiredTypes DEF NothingListed, NothingLocal

\* While a row is at hand it is the head of a batch that is not empty.
LEMMA HeadTypes ==
    ASSUME PumpTypes, pc \in {"sent", "recalled", "reply"} \/ AtRow
    PROVE  /\ batch \in Seq(OutboxRow) /\ batch # <<>>
           /\ Head1 = batch[1] /\ 1 \in 1..Len(batch)
           /\ Head1 \in OutboxRow
           /\ CallOf(Head1) \in Call
           /\ Tail(batch) \in Seq(OutboxRow)
<1>1. batch \in Seq(OutboxRow) /\ batch # <<>>
  BY DEF PumpTypes, AtRow
<1>2. Head1 = batch[1] /\ 1 \in 1..Len(batch) /\ Tail(batch) \in Seq(OutboxRow)
  BY <1>1 DEF Head1
<1>3. Head1 \in OutboxRow
  BY <1>1, <1>2
<1>4. CallOf(Head1) \in Call
  BY <1>3 DEF CallOf, Call, OutboxRow
<1>. QED  BY <1>1, <1>2, <1>3, <1>4

\* An executed call leaves the kernel's tables well formed.
LEMMA ExecutedTypes ==
    ASSUME KernelTypes, NEW call \in Call, Executed(call)
    PROVE  schedules' \in [ScheduleIds -> Schedule] /\ memories' \in [ReviewIds -> Nat]
<1>1. memories' \in [ReviewIds -> Nat]
  <2>1. CASE call.key \in ReviewIds
    <3>1. memories[call.key] + 1 \in Nat
      BY <2>1 DEF KernelTypes
    <3>. QED  BY <3>1 DEF Executed, MemoriesAfter, KernelTypes
  <2>2. CASE call.key \notin ReviewIds
    BY <2>2 DEF Executed, MemoriesAfter, KernelTypes
  <2>. QED  BY <2>1, <2>2
<1> SUFFICES schedules' \in [ScheduleIds -> Schedule]
  BY <1>1
<1>2. CASE call.desired.kind = "scheduler.upsert"
  <2> DEFINE x == [present |-> TRUE, spec |-> call.desired.payload, enabled |-> call.desired.enabled,
                   suspended |-> schedules[call.key].suspended, disabled |-> FALSE]
  <2>1. schedules' = [schedules EXCEPT ![call.key] = x]
    BY <1>2 DEF Executed, ScheduleAfter
  <2>2. CASE call.key \in ScheduleIds
    <3>1. schedules[call.key] \in Schedule
      BY <2>2 DEF KernelTypes
    <3>2. call.desired \in Desired
      BY DEF Call
    <3>3. x \in Schedule
      BY <3>1, <3>2 DEF Schedule, Desired
    <3> HIDE DEF x
    <3>. QED  BY <2>1, <3>3 DEF KernelTypes
  <2>3. CASE call.key \notin ScheduleIds
    <3> HIDE DEF x
    <3>. QED  BY <2>1, <2>3 DEF KernelTypes
  <2>. QED  BY <2>2, <2>3
<1>3. CASE call.desired.kind = "scheduler.delete"
  BY <1>3, EmptyTypes DEF Executed, ScheduleAfter, KernelTypes
<1>4. CASE call.desired.kind \notin {"scheduler.upsert", "scheduler.delete"}
  BY <1>4 DEF Executed, ScheduleAfter, KernelTypes
<1>. QED  BY <1>2, <1>3, <1>4

\* A call that was executed, lost or delayed leaves the kernel well formed.
LEMMA UncertainTypes ==
    ASSUME KernelTypes, NEW call \in Call, Uncertain(call)
    PROVE  KernelTypes'
BY ExecutedTypes DEF Uncertain, NotExecuted, KernelTypes

\* NextRow, StopBatch, PumpStops and FullEnds leave well-formed locals.
LEMMA BatchMoves ==
    ASSUME PumpTypes,
           \/ (AtRow \/ pc = "reply") /\ NextRow
           \/ StopBatch \/ PumpStops \/ FullEnds
    PROVE  PumpTypes'
<1>1. CASE (AtRow \/ pc = "reply") /\ NextRow
  <2>1. Tail(batch) \in Seq(OutboxRow)
    BY <1>1, HeadTypes
  <2>. QED  BY <1>1, <2>1 DEF NextRow, PumpTypes
<1>2. CASE StopBatch
  BY <1>2 DEF StopBatch, PumpTypes
<1>3. CASE PumpStops \/ FullEnds
  <2>1. /\ batch' = <<>> /\ reply' = Nothing /\ todo' = {}
        /\ local' \in [RoutineIds -> Desired] /\ listed' \in [ScheduleIds -> Schedule]
    BY <1>3, EmptyTypes DEF PumpStops, FullEnds, Forgotten
  <2>2. pc' \in {"stopped", "idle"} /\ fullDue' \in BOOLEAN /\ gen' \in Generation
    BY <1>3 DEF PumpStops, FullEnds, PumpTypes
  <2>. QED  BY <2>1, <2>2 DEF PumpTypes
<1>. QED  BY <1>1, <1>2, <1>3

\* An answer leaves well-formed locals.
LEMMA AnsweredTypes ==
    ASSUME PumpTypes, pc \in {"sent", "recalled"}, NEW outcome \in Outcomes, Answered(outcome)
    PROVE  PumpTypes'
BY DEF Answered, PumpTypes

\* A confirmation of a snapshot is a well-formed ack.
LEMMA ConfirmedTypes ==
    ASSUME AckTypes, NEW row \in OutboxRow, Confirmed(row)
    PROVE  AckTypes'
<1>1. [id |-> row.id, version |-> row.version, desired |-> row.desired]
        \in [id : Nat \ {0}, version : Nat \ {0}, desired : Desired]
  BY DEF OutboxRow
<1>. QED  BY <1>1 DEF AckTypes, Confirmed

\* All of TypeOK but the store.
Typed == PumpTypes /\ KernelTypes /\ AckTypes /\ BoundTypes

\* A failed call keeps the types.
LEMMA CallFailsTypes ==
    ASSUME Typed, pc \in {"sent", "recalled"}, CallFails(CallOf(Head1))
    PROVE  Typed'
<1>1. CallOf(Head1) \in Call
  BY HeadTypes DEF Typed
<1>2. KernelTypes'
  BY <1>1, UncertainTypes DEF Typed, CallFails, KernelTypes, kernelVars
<1>3. PumpTypes'
  <2>1. \E outcome \in Outcomes : Answered(outcome)
    BY DEF CallFails, Outcomes
  <2>. QED  BY <2>1, AnsweredTypes DEF Typed
<1>4. AckTypes' /\ BoundTypes'
  BY DEF Typed, CallFails, AckTypes, BoundTypes, Answered
<1>. QED  BY <1>2, <1>3, <1>4 DEF Typed

\* So does any other answer.
LEMMA KernelAnswersTypes ==
    ASSUME Typed, KernelAnswers
    PROVE  Typed'
<1>1. CASE SchedulerAnswers
  <2>1. Head1 \in OutboxRow /\ CallOf(Head1) \in Call /\ pc = "sent"
    BY <1>1, HeadTypes DEF Typed, SchedulerAnswers
  <2>2. CASE CallFails(CallOf(Head1))
    BY <2>1, <2>2, CallFailsTypes
  <2>3. CASE ~CallFails(CallOf(Head1))
    <3>1. /\ \E outcome \in {"ok", "not_found"} : Answered(outcome)
          /\ Executed(CallOf(Head1)) /\ Confirmed(Head1) /\ UNCHANGED <<late, faults>>
      BY <1>1, <2>3 DEF SchedulerAnswers
    <3>2. PumpTypes'
      BY <2>1, <3>1, AnsweredTypes DEF Typed, Outcomes
    <3>3. KernelTypes'
      BY <2>1, <3>1, ExecutedTypes DEF Typed, KernelTypes
    <3>4. AckTypes' /\ BoundTypes'
      BY <2>1, <3>1, ConfirmedTypes DEF Typed, BoundTypes, Answered
    <3>. QED  BY <3>2, <3>3, <3>4 DEF Typed
  <2>. QED  BY <2>2, <2>3
<1>2. CASE RecallAnswers
  <2>1. Head1 \in OutboxRow /\ pc = "sent" /\ UNCHANGED kernelVars
    BY <1>2, HeadTypes DEF Typed, RecallAnswers
  <2>2. KernelTypes'
    BY <2>1 DEF Typed, KernelTypes, kernelVars
  <2>3. CASE Answered("ok") /\ Confirmed(Head1) /\ UNCHANGED faults
    BY <2>1, <2>2, <2>3, AnsweredTypes, ConfirmedTypes DEF Typed, BoundTypes, Answered, Outcomes
  <2>4. CASE /\ pc' = "recalled"
             /\ UNCHANGED <<gen, batch, reply, fullDue, local, listed, todo, acks, bounds>>
    BY <2>1, <2>2, <2>4 DEF Typed, PumpTypes, AckTypes, BoundTypes, bounds
  <2>5. CASE /\ faults' = faults + 1 /\ UNCHANGED acks
             /\ \E outcome \in {"revoked", "lost", "permanent", "capacity", "other"} : Answered(outcome)
    <3>1. PumpTypes'
      BY <2>1, <2>5, AnsweredTypes DEF Typed, Outcomes
    <3>. QED  BY <2>2, <2>5, <3>1 DEF Typed, AckTypes, BoundTypes, Answered
  <2>. QED  BY <1>2, <2>3, <2>4, <2>5 DEF RecallAnswers
<1>3. CASE RememberAnswers
  <2>1. Head1 \in OutboxRow /\ CallOf(Head1) \in Call /\ pc = "recalled"
    BY <1>3, HeadTypes DEF Typed, RememberAnswers
  <2>2. CASE CallFails(CallOf(Head1))
    BY <2>1, <2>2, CallFailsTypes
  <2>3. CASE ~CallFails(CallOf(Head1))
    <3>1. /\ Answered("ok")
          /\ Executed(CallOf(Head1)) /\ Confirmed(Head1) /\ UNCHANGED <<late, faults>>
      BY <1>3, <2>3 DEF RememberAnswers
    <3>2. PumpTypes'
      BY <2>1, <3>1, AnsweredTypes DEF Typed, Outcomes
    <3>3. KernelTypes'
      BY <2>1, <3>1, ExecutedTypes DEF Typed, KernelTypes
    <3>4. AckTypes' /\ BoundTypes'
      BY <2>1, <3>1, ConfirmedTypes DEF Typed, BoundTypes, Answered
    <3>. QED  BY <3>2, <3>3, <3>4 DEF Typed
  <2>. QED  BY <2>2, <2>3
<1>4. CASE ListAnswers
  BY <1>4 DEF ListAnswers, Typed, PumpTypes, KernelTypes, AckTypes, BoundTypes, kernelVars, bounds
<1>. QED  BY <1>1, <1>2, <1>3, <1>4 DEF KernelAnswers

\* So does every step of the pump task.
LEMMA PumpStepTypes ==
    ASSUME Typed, StoreInv, PumpStep
    PROVE  Typed'
<1>1. UNCHANGED <<kernelVars, acks, bounds>>
  BY DEF PumpStep, Wake, SkipStaleRow, SkipUnserved, PostponeUnknownKind, SendRow, RowLands,
         RowRevoked, RowConnectionLost, RowFailsForGood, RowBacksOff, RowRetriesOrExhausts,
         DrainEnds, Correct, SyncSuspended
<1>2. KernelTypes' /\ AckTypes' /\ BoundTypes'
  BY <1>1 DEF Typed, KernelTypes, AckTypes, BoundTypes, kernelVars, bounds
<1> SUFFICES PumpTypes'
  BY <1>2 DEF Typed
<1>3. CASE Wake
  <2>1. batch' \in Seq(OutboxRow)
    BY <1>3, DueBatch DEF Wake, StoreInv, StoreTypeOK
  <2>. QED  BY <1>3, <2>1 DEF Wake, Typed, PumpTypes
<1>4. CASE SkipStaleRow \/ SkipUnserved \/ PostponeUnknownKind \/ RowLands
           \/ RowFailsForGood \/ RowRetriesOrExhausts
  BY <1>4, BatchMoves DEF Typed, SkipStaleRow, SkipUnserved, PostponeUnknownKind, RowLands,
                          RowFailsForGood, RowRetriesOrExhausts
<1>5. CASE SendRow
  BY <1>5 DEF SendRow, AtRow, Typed, PumpTypes
<1>6. CASE RowRevoked \/ RowConnectionLost \/ RowBacksOff \/ SyncSuspended
  BY <1>6, BatchMoves DEF Typed, RowRevoked, RowConnectionLost, RowBacksOff, SyncSuspended
<1>7. CASE DrainEnds
  <2>1. local_desired_map \in [RoutineIds -> Desired]
    <3>1. ASSUME NEW r \in RoutineIds PROVE DesiredOf(r) \in Desired
      <4>1. routines[r].spec \in Specs \cup {Nothing}
        BY DEF StoreInv, StoreTypeOK
      <4>. QED  BY <4>1, DesiredTypes DEF DesiredOf
    <3>. QED  BY <3>1 DEF local_desired_map
  <2>. QED  BY <1>7, <2>1 DEF DrainEnds, Typed, PumpTypes
<1>8. ASSUME NEW k \in ScheduleIds, Correct(k) PROVE PumpTypes'
  BY <1>8 DEF Correct, Typed, PumpTypes
<1>. QED  BY <1>3, <1>4, <1>5, <1>6, <1>7, <1>8 DEF PumpStep

\* So does a change made on the kernel side.
LEMMA DriftTypes ==
    ASSUME Typed, KernelDrifts
    PROVE  Typed'
<1>1. PICK k \in ScheduleIds :
        \/ schedules' = [schedules EXCEPT ![k].suspended = ~@]
        \/ schedules' = [schedules EXCEPT ![k].disabled = TRUE]
        \/ schedules' = [schedules EXCEPT ![k].enabled = ~@]
        \/ schedules' = [schedules EXCEPT ![k] = NoSchedule]
  BY DEF KernelDrifts
<1>2. schedules[k] \in Schedule
  BY DEF Typed, KernelTypes
<1>3. /\ [schedules[k] EXCEPT !.suspended = ~@] \in Schedule
      /\ [schedules[k] EXCEPT !.disabled = TRUE] \in Schedule
      /\ [schedules[k] EXCEPT !.enabled = ~@] \in Schedule
  BY <1>2 DEF Schedule
<1>4. \E x \in Schedule : schedules' = [schedules EXCEPT ![k] = x]
  BY <1>1, <1>3, EmptyTypes
<1>5. schedules' \in [ScheduleIds -> Schedule]
  BY <1>4 DEF Typed, KernelTypes
<1>6. PumpTypes'
  BY DEF KernelDrifts, pumpVars, Typed, PumpTypes
<1>. QED  BY <1>5, <1>6 DEF KernelDrifts, Typed, KernelTypes, AckTypes, BoundTypes

\* So does every step.
LEMMA TypeStep == Typed /\ StoreInv /\ [Next]_vars => Typed'
<1> SUFFICES ASSUME Typed, StoreInv, [Next]_vars PROVE Typed'
  OBVIOUS
<1>1. CASE UNCHANGED vars
  BY <1>1 DEF vars, pumpVars, kernelVars, bounds, Typed, PumpTypes, KernelTypes, AckTypes, BoundTypes
<1>2. CASE HttpEdit \/ RowBecomesDue
  BY <1>2 DEF HttpEdit, RowBecomesDue, pumpVars, kernelVars, bounds,
              Typed, PumpTypes, KernelTypes, AckTypes, BoundTypes
<1>3. CASE FullBecomesDue \/ GenerationEnds
  BY <1>3 DEF FullBecomesDue, GenerationEnds, kernelVars, bounds,
              Typed, PumpTypes, KernelTypes, AckTypes, BoundTypes
<1>4. CASE KernelDrifts
  BY <1>4, DriftTypes
<1>5. CASE LateCallExecuted
  <2>1. PICK call \in late : Executed(call) /\ late' = late \ {call}
    BY <1>5 DEF LateCallExecuted
  <2>2. KernelTypes'
    BY <2>1, ExecutedTypes DEF Typed, KernelTypes
  <2>. QED  BY <1>5, <2>2 DEF LateCallExecuted, pumpVars, bounds, Typed, PumpTypes, AckTypes, BoundTypes
<1>6. CASE Crash
  <2>1. KernelTypes'
    <3>1. CASE pc = "recalled" \/ (pc = "sent" /\ Head1.desired.kind # "memory.remember")
      <4>1. CallOf(Head1) \in Call
        BY <3>1, HeadTypes DEF Typed
      <4>2. Uncertain(CallOf(Head1))
        BY <1>6, <3>1 DEF Crash
      <4>. QED  BY <4>1, <4>2, UncertainTypes DEF Typed
    <3>2. CASE ~(pc = "recalled" \/ (pc = "sent" /\ Head1.desired.kind # "memory.remember"))
      BY <1>6, <3>2 DEF Crash, kernelVars, Typed, KernelTypes
    <3>. QED  BY <3>1, <3>2
  <2>2. /\ batch' = <<>> /\ reply' = Nothing /\ todo' = {} /\ pc' = "down" /\ fullDue' \in BOOLEAN
        /\ local' \in [RoutineIds -> Desired] /\ listed' \in [ScheduleIds -> Schedule]
        /\ UNCHANGED <<gen, acks, edits, drifts>> /\ faults' = faults + 1
    BY <1>6, EmptyTypes DEF Crash, Forgotten
  <2>3. PumpTypes'
    BY <2>2 DEF Typed, PumpTypes
  <2>. QED  BY <2>1, <2>2, <2>3 DEF Typed, AckTypes, BoundTypes
<1>7. CASE StartGeneration
  <2>1. /\ gen' \in Generation /\ pc' \in {"idle", "off"} /\ fullDue' \in BOOLEAN
        /\ UNCHANGED <<batch, reply, local, listed, todo, kernelVars, acks, bounds>>
    BY <1>7, ReconcilerAssumption DEF StartGeneration, PumpRuns
  <2>. QED  BY <2>1 DEF kernelVars, bounds, Typed, PumpTypes, KernelTypes, AckTypes, BoundTypes
<1>8. CASE PumpStep
  BY <1>8, PumpStepTypes
<1>9. CASE KernelAnswers
  BY <1>9, KernelAnswersTypes
<1>10. CASE DrainStoreFails \/ ListFails \/ FullStoreFails
  <2>1. PumpTypes'
    BY <1>10, BatchMoves DEF Typed, DrainStoreFails, ListFails, FullStoreFails
  <2>. QED  BY <1>10, <2>1 DEF DrainStoreFails, ListFails, FullStoreFails, kernelVars,
                               Typed, KernelTypes, AckTypes, BoundTypes
<1>. QED  BY <1>1, <1>2, <1>3, <1>4, <1>5, <1>6, <1>7, <1>8, <1>9, <1>10 DEF Next

\* The initial state is well typed.
LEMMA InitTypes == Init => Typed
<1> SUFFICES ASSUME Init PROVE Typed
  OBVIOUS
<1>1. PICK s \in Specs :
        schedules = [k \in ScheduleIds |->
            IF k \in OrphanIds
            THEN [NoSchedule EXCEPT !.present = TRUE, !.spec = s, !.enabled = TRUE]
            ELSE NoSchedule]
  BY DEF Init
<1>2. [NoSchedule EXCEPT !.present = TRUE, !.spec = s, !.enabled = TRUE] \in Schedule
  BY DEF NoSchedule, Schedule
<1>3. KernelTypes
  BY <1>1, <1>2, EmptyTypes DEF Init, KernelTypes
<1>4. PumpTypes
  <2>1. /\ gen \in Generation /\ pc = "down" /\ fullDue \in BOOLEAN
        /\ batch = <<>> /\ reply = Nothing /\ todo = {}
        /\ local \in [RoutineIds -> Desired] /\ listed \in [ScheduleIds -> Schedule]
    BY EmptyTypes, ReconcilerAssumption DEF Init
  <2>. QED  BY <2>1 DEF PumpTypes
<1>. QED  BY <1>3, <1>4 DEF Init, Typed, AckTypes, BoundTypes

\* Every table, local of the pump and kernel record keeps its type, and a call
\* in flight always has its row at the head of the batch.
THEOREM ReconcilerTypes == Spec => []TypeOK
<1>1. Init => StoreInv /\ Typed
  BY InitIsStore, InitTypes
<1>2. StoreInv /\ Typed /\ [Next]_vars => (StoreInv /\ Typed)'
  BY StoreInvStep, TypeStep
<1>3. StoreInv /\ Typed => TypeOK
  BY TypeParts DEF StoreInv, Typed
<1>. QED  BY <1>1, <1>2, <1>3, PTL DEF Spec

-----------------------------------------------------------------------------
(* Done rows *)

\* Rows stay under their keys, versions only grow, and a version stands for one
\* desired state.
Evolves(o, o2) ==
    /\ Len(o) <= Len(o2)
    /\ \A j \in 1..Len(o) :
        /\ o2[j].key = o[j].key
        /\ o[j].version <= o2[j].version
        /\ o2[j].version = o[j].version => o2[j].desired = o[j].desired

\* A row that is done in o2 is that same done row in o.
NoNewDone(o, o2) ==
    \A j \in 1..Len(o2) :
        o2[j].status = "done" =>
            /\ j \in 1..Len(o) /\ o[j].status = "done"
            /\ o2[j].version = o[j].version /\ o2[j].desired = o[j].desired

\* Versions are numbers.
LEMMA VersionsAreNat ==
    ASSUME NEW o \in Seq(Row)
    PROVE  \A j \in 1..Len(o) : o[j].version \in Nat
<1> SUFFICES ASSUME NEW j \in 1..Len(o) PROVE o[j].version \in Nat
  OBVIOUS
<1>1. o[j] \in Row
  OBVIOUS
<1>. QED  BY <1>1 DEF Row

\* upsert_outbox overwrites a row under a higher version and makes none done.
LEMMA UpsertEvolves ==
    ASSUME NEW o \in Seq(Row), NEW key \in Keys, NEW d \in Desired, LiveIsLast(o)
    PROVE  Evolves(o, upsert_outbox(o, key, d)) /\ NoNewDone(o, upsert_outbox(o, key, d))
<1> DEFINE o2 == upsert_outbox(o, key, d)
<1>1. o2 \in Seq(Row)
  BY UpsertShape
<1>2. PICK i \in 1..Len(o2) :
        /\ o2[i].status = "pending" /\ o2[i].key = key
        /\ \/ i = Len(o) + 1 /\ Len(o2) = Len(o) + 1
           \/ /\ i \in 1..Len(o) /\ Len(o2) = Len(o) /\ IsLive(o[i], key)
              /\ o2[i].version = o[i].version + 1
        /\ \A j \in 1..Len(o) : j # i => o2[j] = o[j]
  BY UpsertShape
<1> HIDE DEF o2
<1>3. \A j \in 1..Len(o) : o[j].version \in Nat
  BY VersionsAreNat
<1>4. Evolves(o, o2)
  BY <1>2, <1>3 DEF Evolves, IsLive
<1>5. NoNewDone(o, o2)
  BY <1>2 DEF NoNewDone
<1>. QED  BY <1>4, <1>5 DEF o2

\* An outbox left alone evolves.
LEMMA SameEvolves ==
    ASSUME StoreInv, outbox' = outbox
    PROVE  Evolves(outbox, outbox') /\ NoNewDone(outbox, outbox')
<1>1. outbox \in Seq(Row)
  BY DEF StoreInv, StoreTypeOK
<1>2. \A j \in 1..Len(outbox) : outbox[j].version \in Nat
  BY <1>1, VersionsAreNat
<1>. QED  BY <1>1, <1>2 DEF Evolves, NoNewDone

\* One row takes another status, or other bookkeeping.
LEMMA RowRewritten ==
    ASSUME StoreInv, NEW i \in 1..Len(outbox), NEW row \in Row,
           row.key = outbox[i].key,
           row.version = outbox[i].version, row.desired = outbox[i].desired,
           outbox' = [outbox EXCEPT ![i] = row]
    PROVE  /\ Evolves(outbox, outbox')
           /\ (row.status = "done" => outbox[i].status = "done") => NoNewDone(outbox, outbox')
<1>1. outbox \in Seq(Row)
  BY DEF StoreInv, StoreTypeOK
<1>2. \A j \in 1..Len(outbox) : outbox[j].version \in Nat
  BY <1>1, VersionsAreNat
<1>3. /\ Len(outbox') = Len(outbox) /\ Len(outbox) \in Nat /\ outbox'[i] = row
      /\ \A j \in 1..Len(outbox) : j # i => outbox'[j] = outbox[j]
  BY <1>1
<1>. QED  BY <1>2, <1>3 DEF Evolves, NoNewDone

\* Every transaction but outbox_mark_done.
LEMMA EditEvolves ==
    ASSUME StoreInv, Edit
    PROVE  Evolves(outbox, outbox') /\ NoNewDone(outbox, outbox')
<1>1. outbox \in Seq(Row) /\ LiveIsLast(outbox)
  BY DEF StoreInv, StoreTypeOK
<1>2. outbox' = outbox \/ \E key \in Keys, d \in Desired : outbox' = upsert_outbox(outbox, key, d)
  <2>1. ASSUME NEW r \in RoutineIds, NEW s \in Specs, create_routine(r, s) \/ update_routine(r, s)
        PROVE  \E d \in Desired : outbox' = upsert_outbox(outbox, r, d)
    BY <2>1, DesiredTypes DEF create_routine, update_routine
  <2>2. ASSUME NEW r \in RoutineIds, NEW to \in {"active", "paused", "retired"}, transition_routine(r, to)
        PROVE  \E d \in Desired : outbox' = upsert_outbox(outbox, r, d)
    <3>1. routines[r].spec \in Specs \cup {Nothing}
      BY DEF StoreInv, StoreTypeOK
    <3>. QED  BY <2>2, <3>1, DesiredTypes DEF transition_routine
  <2>3. ASSUME NEW v \in ReviewIds, finalize_review(v)
        PROVE  outbox' = outbox \/ \E d \in Desired : outbox' = upsert_outbox(outbox, v, d)
    <3>1. reviews[v].body \in Bodies \cup {Blank}
      BY DEF StoreInv, StoreTypeOK
    <3>. QED  BY <2>3, <3>1, DesiredTypes DEF finalize_review, write_markdown_atomic
  <2>4. ASSUME NEW v \in ReviewIds, NEW b,
               create_review(v) \/ finalize_review_aborts(v) \/ update_review_body(v, b)
        PROVE  outbox' = outbox
    BY <2>4 DEF create_review, finalize_review_aborts, write_markdown_atomic, update_review_body
  <2>. QED  BY <2>1, <2>2, <2>3, <2>4 DEF Edit, Keys
<1>3. CASE outbox' = outbox
  BY <1>3, SameEvolves
<1>4. CASE \E key \in Keys, d \in Desired : outbox' = upsert_outbox(outbox, key, d)
  BY <1>1, <1>4, UpsertEvolves
<1>. QED  BY <1>2, <1>3, <1>4

\* Full reconcile's corrections go through upsert_outbox.
LEMMA EnqueueEvolves ==
    ASSUME StoreInv, NEW k,
           \/ k \in RoutineIds /\ outbox_enqueue_upsert_for_routine(k)
           \/ k \in ScheduleIds /\ outbox_enqueue_delete_for_orphan(k)
    PROVE  Evolves(outbox, outbox') /\ NoNewDone(outbox, outbox')
<1>1. outbox \in Seq(Row) /\ LiveIsLast(outbox)
  BY DEF StoreInv, StoreTypeOK
<1>2. outbox' = outbox \/ \E key \in Keys, d \in Desired : outbox' = upsert_outbox(outbox, key, d)
  <2>1. k \in RoutineIds => routines[k].spec \in Specs \cup {Nothing}
    BY DEF StoreInv, StoreTypeOK
  <2>. QED  BY <2>1, DesiredTypes DEF outbox_enqueue_upsert_for_routine,
                outbox_enqueue_delete_for_orphan, Keys, ScheduleIds
<1>. QED  BY <1>1, <1>2, SameEvolves, UpsertEvolves

\* A retry or a failure keeps the row's version and makes it no done row.
LEMMA RetryOrFailEvolves ==
    ASSUME StoreInv, NEW i, NEW n,
           (\E bump \in BOOLEAN : outbox_mark_retry(i, n, bump)) \/ outbox_mark_failed(i, n)
    PROVE  Evolves(outbox, outbox') /\ NoNewDone(outbox, outbox')
<1>1. ASSUME NEW bump \in BOOLEAN, outbox_mark_retry(i, n, bump), outbox' # outbox
      PROVE  Evolves(outbox, outbox') /\ NoNewDone(outbox, outbox')
  <2> DEFINE row == [outbox[i] EXCEPT !.waiting = TRUE,
                        !.otherBucket = IF bump THEN @ + 1 ELSE @]
             n2 == IF bump THEN outbox[i].otherBucket + 1 ELSE outbox[i].otherBucket
  <2>1. /\ i \in 1..Len(outbox) /\ outbox' = [outbox EXCEPT ![i] = row]
        /\ outbox[i].status = "pending"
    <3>1. WriteBack(i, n, row)
      BY <1>1 DEF outbox_mark_retry
    <3> HIDE DEF row
    <3>. QED  BY <1>1, <3>1, WriteBackCases DEF storeVars
  <2>2. outbox[i] \in Row
    BY <2>1 DEF StoreInv, StoreTypeOK
  <2>3. n2 \in Nat
    BY <2>2 DEF Row
  <2>4. row = [outbox[i] EXCEPT !.waiting = TRUE, !.otherBucket = n2]
    BY <2>2 DEF Row
  <2>5. row \in Row /\ row.key = outbox[i].key /\ row.version = outbox[i].version /\ row.desired = outbox[i].desired
        /\ row.status = outbox[i].status
    <3> HIDE DEF n2
    <3>. QED  BY <2>2, <2>3, <2>4 DEF Row
  <2> HIDE DEF row
  <2>. QED  BY <2>1, <2>5, RowRewritten
<1>2. ASSUME outbox_mark_failed(i, n), outbox' # outbox
      PROVE  Evolves(outbox, outbox') /\ NoNewDone(outbox, outbox')
  <2> DEFINE row == [outbox[i] EXCEPT !.status = "failed", !.waiting = FALSE]
  <2>1. i \in 1..Len(outbox) /\ outbox' = [outbox EXCEPT ![i] = row]
    BY <1>2, WriteBackCases DEF outbox_mark_failed, storeVars
  <2>2. outbox[i] \in Row
    BY <2>1 DEF StoreInv, StoreTypeOK
  <2>3. row \in Row /\ row.key = outbox[i].key /\ row.version = outbox[i].version /\ row.desired = outbox[i].desired
        /\ row.status = "failed"
    BY <2>2 DEF Row
  <2> HIDE DEF row
  <2>. QED  BY <2>1, <2>3, RowRewritten
<1>. QED  BY <1>1, <1>2, SameEvolves

\* Nor does the passing of next_attempt_at.
LEMMA BackoffEvolves ==
    ASSUME StoreInv, NEW i \in 1..Len(outbox), BackoffElapses(i)
    PROVE  Evolves(outbox, outbox') /\ NoNewDone(outbox, outbox')
<1> DEFINE row == [outbox[i] EXCEPT !.waiting = FALSE]
<1>1. outbox[i] \in Row
  BY DEF StoreInv, StoreTypeOK
<1>2. row \in Row /\ row.key = outbox[i].key /\ row.version = outbox[i].version /\ row.desired = outbox[i].desired
      /\ row.status = outbox[i].status
  BY <1>1 DEF Row
<1>3. outbox' = [outbox EXCEPT ![i] = row]
  BY DEF BackoffElapses
<1> HIDE DEF row
<1>. QED  BY <1>2, <1>3, RowRewritten

\* A snapshot's row is still there, at the snapshot's version or a later one,
\* and while the version is the same so is the desired state.
Faithful(o, b) ==
    /\ b.id \in 1..Len(o)
    /\ b.key = o[b.id].key
    /\ b.version <= o[b.id].version
    /\ b.version = o[b.id].version => b.desired = o[b.id].desired

\* The pump's whole batch is faithful.
BatchFaithful == \A n \in 1..Len(batch) : Faithful(outbox, batch[n])

\* The confirmation of a snapshot.
AckOf(row) == [id |-> row.id, version |-> row.version, desired |-> row.desired]

\* A success the pump has not written back yet was the kernel's own.
ReplyAcked == pc = "reply" /\ reply \in {"ok", "not_found"} => AckOf(Head1) \in acks

\* The inductive invariant behind DoneMeansAcked.
PumpInv == StoreInv /\ Typed /\ BatchFaithful /\ ReplyAcked /\ DoneMeansAcked

\* A snapshot stays faithful while its row evolves.
LEMMA FaithfulKept ==
    ASSUME NEW o \in Seq(Row), NEW o2 \in Seq(Row), Evolves(o, o2), NEW b \in OutboxRow, Faithful(o, b)
    PROVE  Faithful(o2, b)
<1>1. b.version \in Nat /\ b.id \in 1..Len(o) /\ b.id \in 1..Len(o2)
  BY DEF OutboxRow, Faithful, Evolves
<1>2. o[b.id].version \in Nat /\ o2[b.id].version \in Nat
  BY <1>1, VersionsAreNat
<1>3. /\ o2[b.id].key = o[b.id].key /\ o[b.id].version <= o2[b.id].version
      /\ o2[b.id].version = o[b.id].version => o2[b.id].desired = o[b.id].desired
  BY <1>1 DEF Evolves
<1>. QED  BY <1>1, <1>2, <1>3 DEF Faithful

\* The batch stays, loses its head, is dropped or is read afresh.
LEMMA BatchFaithfulKept ==
    ASSUME PumpInv, StoreInv', Evolves(outbox, outbox'),
           \/ UNCHANGED batch
           \/ batch' = <<>>
           \/ batch # <<>> /\ batch' = Tail(batch)
           \/ UNCHANGED outbox /\ batch' \in outbox_due_pending
    PROVE  BatchFaithful'
<1>1. outbox \in Seq(Row) /\ outbox' \in Seq(Row) /\ batch \in Seq(OutboxRow)
  BY DEF PumpInv, StoreInv, StoreTypeOK, Typed, PumpTypes
<1>2. \A n \in 1..Len(batch) : Faithful(outbox', batch[n])
  BY <1>1, FaithfulKept DEF PumpInv, BatchFaithful
<1>3. CASE batch' = batch
  BY <1>2, <1>3 DEF BatchFaithful
<1>4. CASE batch' = <<>>
  BY <1>4 DEF BatchFaithful
<1>5. CASE batch # <<>> /\ batch' = Tail(batch)
  <2>1. \A n \in 1..Len(batch') : n + 1 \in 1..Len(batch) /\ batch'[n] = batch[n + 1]
    BY <1>1, <1>5
  <2>. QED  BY <1>2, <2>1 DEF BatchFaithful
<1>6. CASE outbox' = outbox /\ batch' \in outbox_due_pending
  <2> SUFFICES ASSUME NEW n \in 1..Len(batch') PROVE Faithful(outbox, batch'[n])
    BY <1>6 DEF BatchFaithful
  <2>1. batch'[n].id \in 1..Len(outbox) /\ batch'[n] = Snapshot(batch'[n].id)
    BY <1>1, <1>6, DueBatch
  <2>2. /\ batch'[n].key = outbox[batch'[n].id].key
        /\ batch'[n].version = outbox[batch'[n].id].version
        /\ batch'[n].desired = outbox[batch'[n].id].desired
    BY <2>1 DEF Snapshot
  <2>3. outbox[batch'[n].id].version \in Nat
    BY <1>1, <2>1, VersionsAreNat
  <2>. QED  BY <2>1, <2>2, <2>3 DEF Faithful
<1>. QED  BY <1>3, <1>4, <1>5, <1>6

\* Without a new done row, what was confirmed stays confirmed.
LEMMA DoneKept ==
    ASSUME DoneMeansAcked, NoNewDone(outbox, outbox'), acks \subseteq acks'
    PROVE  DoneMeansAcked'
BY DEF DoneMeansAcked, NoNewDone

\* The one step that makes a row done: its snapshot was confirmed, and the
\* guard of outbox_mark_done says the snapshot is current.
LEMMA RowLandsAcked ==
    ASSUME PumpInv, RowLands
    PROVE  Evolves(outbox, outbox') /\ DoneMeansAcked'
<1>1. Head1 = batch[1] /\ 1 \in 1..Len(batch) /\ Head1 \in OutboxRow
  BY HeadTypes DEF PumpInv, Typed, RowLands
<1>2. AckOf(Head1) \in acks /\ acks' = acks
  BY DEF PumpInv, ReplyAcked, RowLands
<1>3. CASE outbox' = outbox
  BY <1>2, <1>3, SameEvolves, DoneKept DEF PumpInv
<1>4. CASE outbox' # outbox
  <2> DEFINE i == Head1.id
             row == [outbox[i] EXCEPT !.status = "done"]
  <2>1. WriteBack(i, Head1.version, row)
    BY DEF RowLands, outbox_mark_done
  <2>2. outbox \in Seq(Row)
    BY DEF PumpInv, StoreInv, StoreTypeOK
  <2> HIDE DEF row
  <2>3. /\ i \in 1..Len(outbox) /\ outbox[i].version = Head1.version
        /\ outbox' = [outbox EXCEPT ![i] = row]
    BY <1>4, <2>1, WriteBackCases DEF storeVars, PumpInv
  <2>4. Head1.desired = outbox[i].desired
    BY <1>1, <2>3 DEF PumpInv, BatchFaithful, Faithful
  <2>5. outbox[i] \in Row
    BY <2>2, <2>3
  <2>6. row \in Row /\ row.key = outbox[i].key /\ row.version = outbox[i].version /\ row.desired = outbox[i].desired
    BY <2>5 DEF Row, row
  <2>7. Evolves(outbox, outbox')
    BY <2>3, <2>6, RowRewritten DEF PumpInv
  <2>8. /\ Len(outbox') = Len(outbox) /\ outbox'[i] = row
        /\ \A j \in 1..Len(outbox) : j # i => outbox'[j] = outbox[j]
    BY <2>2, <2>3
  <2>9. [id |-> i, version |-> row.version, desired |-> row.desired] \in acks
    BY <1>2, <2>3, <2>4, <2>6 DEF AckOf
  <2>10. DoneMeansAcked'
    BY <1>2, <2>8, <2>9 DEF PumpInv, DoneMeansAcked
  <2>. QED  BY <2>7, <2>10
<1>. QED  BY <1>3, <1>4

\* The kernel's answer to the row at hand: an ok, or the not_found of a delete,
\* is confirmed in the same step.
LEMMA AnswerAcked ==
    ASSUME PumpInv, KernelAnswers
    PROVE  ReplyAcked' /\ acks \subseteq acks' /\ UNCHANGED batch /\ UNCHANGED outbox
<1>1. UNCHANGED batch /\ UNCHANGED outbox /\ acks \subseteq acks'
  BY DEF KernelAnswers, SchedulerAnswers, RecallAnswers, RememberAnswers, ListAnswers,
         CallFails, Answered, Confirmed, storeVars
<1>2. pc' = "reply" /\ reply' \in {"ok", "not_found"} => Confirmed(Head1)
  BY DEF KernelAnswers, SchedulerAnswers, RecallAnswers, RememberAnswers, ListAnswers,
         CallFails, Answered
<1>3. Head1' = Head1
  BY <1>1 DEF Head1
<1>4. pc' = "reply" /\ reply' \in {"ok", "not_found"} => AckOf(Head1)' \in acks'
  BY <1>2, <1>3 DEF Confirmed, AckOf
<1>. QED  BY <1>1, <1>4 DEF ReplyAcked

\* What a step does to the batch and to an answer not yet written back.
BatchStep ==
    /\ \/ UNCHANGED batch
       \/ batch' = <<>>
       \/ batch # <<>> /\ batch' = Tail(batch)
       \/ UNCHANGED outbox /\ batch' \in outbox_due_pending
    /\ pc' # "reply" \/ UNCHANGED <<pc, reply, batch>>

\* Any step that neither lands a row nor brings an answer.
LEMMA OtherStepsKeep ==
    ASSUME PumpInv, StoreInv', Typed', Evolves(outbox, outbox'), NoNewDone(outbox, outbox'),
           UNCHANGED acks, BatchStep
    PROVE  PumpInv'
<1>1. BatchFaithful'
  BY BatchFaithfulKept DEF BatchStep
<1>2. DoneMeansAcked'
  BY DoneKept DEF PumpInv
<1>3. ReplyAcked'
  BY DEF PumpInv, ReplyAcked, BatchStep, Head1, AckOf
<1>. QED  BY <1>1, <1>2, <1>3 DEF PumpInv

\* Every step keeps it.
LEMMA PumpInvStep == PumpInv /\ [Next]_vars => PumpInv'
<1> SUFFICES ASSUME PumpInv, [Next]_vars PROVE PumpInv'
  OBVIOUS
<1>1. StoreInv /\ Typed /\ StoreInv' /\ Typed'
  BY StoreInvStep, TypeStep DEF PumpInv
<1>2. CASE RowLands
  <2>1. Evolves(outbox, outbox') /\ DoneMeansAcked'
    BY <1>2, RowLandsAcked
  <2>2. batch # <<>> /\ batch' = Tail(batch) /\ pc' = "drain"
    BY <1>2, <1>1, HeadTypes DEF RowLands, NextRow, Typed
  <2>3. BatchFaithful'
    BY <1>1, <2>1, <2>2, BatchFaithfulKept
  <2>4. ReplyAcked'
    BY <2>2 DEF ReplyAcked
  <2>. QED  BY <1>1, <2>1, <2>3, <2>4 DEF PumpInv
<1>3. CASE KernelAnswers
  <2>1. ReplyAcked' /\ acks \subseteq acks' /\ batch' = batch /\ outbox' = outbox
    BY <1>3, AnswerAcked
  <2>2. Evolves(outbox, outbox') /\ NoNewDone(outbox, outbox')
    BY <1>1, <2>1, SameEvolves
  <2>3. BatchFaithful' /\ DoneMeansAcked'
    BY <1>1, <2>1, <2>2, BatchFaithfulKept, DoneKept DEF PumpInv
  <2>. QED  BY <1>1, <2>1, <2>3 DEF PumpInv
<1>4. CASE HttpEdit
  <2>1. Evolves(outbox, outbox') /\ NoNewDone(outbox, outbox')
    BY <1>1, <1>4, EditEvolves DEF HttpEdit
  <2>. QED  BY <1>1, <1>4, <2>1, OtherStepsKeep DEF HttpEdit, pumpVars, BatchStep
<1>5. CASE RowBecomesDue
  <2>1. Evolves(outbox, outbox') /\ NoNewDone(outbox, outbox')
    BY <1>1, <1>5, BackoffEvolves DEF RowBecomesDue
  <2>. QED  BY <1>1, <1>5, <2>1, OtherStepsKeep DEF RowBecomesDue, pumpVars, BatchStep
<1>6. CASE PostponeUnknownKind \/ RowFailsForGood \/ RowBacksOff \/ RowRetriesOrExhausts
  <2>1. Evolves(outbox, outbox') /\ NoNewDone(outbox, outbox')
    BY <1>1, <1>6, RetryOrFailEvolves
    DEF PostponeUnknownKind, RowFailsForGood, RowBacksOff, RowRetriesOrExhausts
  <2>2. batch # <<>>
    BY <1>1, <1>6, HeadTypes
    DEF PostponeUnknownKind, RowFailsForGood, RowBacksOff, RowRetriesOrExhausts, Typed
  <2>3. BatchStep /\ UNCHANGED acks
    BY <1>6, <2>2 DEF PostponeUnknownKind, RowFailsForGood, RowBacksOff, RowRetriesOrExhausts,
                      NextRow, StopBatch, BatchStep
  <2>. QED  BY <1>1, <2>1, <2>3, OtherStepsKeep
<1>7. ASSUME NEW k \in ScheduleIds, Correct(k) PROVE PumpInv'
  <2>1. \/ UNCHANGED storeVars
        \/ k \in RoutineIds /\ outbox_enqueue_upsert_for_routine(k)
        \/ outbox_enqueue_delete_for_orphan(k)
    BY <1>7 DEF Correct, IsLocal
  <2>2. Evolves(outbox, outbox') /\ NoNewDone(outbox, outbox')
    BY <1>1, <2>1, SameEvolves, EnqueueEvolves DEF storeVars
  <2>3. BatchStep /\ UNCHANGED acks
    BY <1>7 DEF Correct, BatchStep
  <2>. QED  BY <1>1, <2>2, <2>3, OtherStepsKeep
<1>8. ASSUME outbox' = outbox, acks' = acks, BatchStep PROVE PumpInv'
  BY <1>1, <1>8, SameEvolves, OtherStepsKeep
<1>9. CASE SyncSuspended
  BY <1>8, <1>9 DEF SyncSuspended, sync_kernel_suspended_routines, FullEnds, Forgotten, BatchStep
<1>10. CASE Wake \/ SkipStaleRow \/ SkipUnserved \/ SendRow \/ RowRevoked \/ RowConnectionLost \/ DrainEnds
  BY <1>8, <1>10 DEF Wake, SkipStaleRow, SkipUnserved, SendRow, RowRevoked, RowConnectionLost,
              DrainEnds, AtRow, NextRow, StopBatch, PumpStops, Forgotten, BatchStep, storeVars
<1>11. CASE DrainStoreFails \/ ListFails \/ FullStoreFails
  BY <1>8, <1>11 DEF DrainStoreFails, ListFails, FullStoreFails, StopBatch, PumpStops, FullEnds,
              Forgotten, BatchStep, storeVars
<1>12. CASE FullBecomesDue \/ KernelDrifts \/ LateCallExecuted \/ Crash \/ GenerationEnds \/ StartGeneration
  <2>1. outbox' = outbox /\ acks' = acks
    BY <1>12 DEF FullBecomesDue, KernelDrifts, LateCallExecuted, Crash, GenerationEnds,
                 StartGeneration, storeVars
  <2>2. CASE Crash
    BY <1>8, <2>1, <2>2 DEF Crash, Forgotten, BatchStep
  <2>3. CASE FullBecomesDue \/ KernelDrifts \/ LateCallExecuted \/ GenerationEnds
    BY <1>8, <2>1, <2>3 DEF FullBecomesDue, KernelDrifts, LateCallExecuted, GenerationEnds,
                            pumpVars, BatchStep
  <2>4. CASE StartGeneration
    BY <1>8, <2>1, <2>4 DEF StartGeneration, BatchStep
  <2>. QED  BY <1>12, <2>2, <2>3, <2>4
<1>13. CASE UNCHANGED vars
  BY <1>8, <1>13 DEF vars, storeVars, pumpVars, BatchStep
<1>. QED
  BY <1>2, <1>3, <1>4, <1>5, <1>6, <1>7, <1>9, <1>10, <1>11, <1>12, <1>13 DEF Next, PumpStep

\* It holds initially.
LEMMA InitPumpInv == Init => PumpInv
<1> SUFFICES ASSUME Init PROVE PumpInv
  OBVIOUS
<1>1. Len(batch) = 0 /\ Len(outbox) = 0 /\ pc = "down"
  BY DEF Init, StoreInit
<1>2. BatchFaithful /\ ReplyAcked /\ DoneMeansAcked
  BY <1>1 DEF BatchFaithful, ReplyAcked, DoneMeansAcked
<1>. QED  BY <1>2, InitIsStore, InitTypes DEF PumpInv

\* Snapshots stay faithful and done rows confirmed in every reachable state.
THEOREM PumpInvariant == Spec => []PumpInv
BY InitPumpInv, PumpInvStep, PTL DEF Spec

-----------------------------------------------------------------------------
(* What a step does to the outbox *)

\* A new intent: upsert_outbox, for what the Routine it belongs to now is.
Asked(key, d) ==
    /\ outbox' = upsert_outbox(outbox, key, d)
    /\ key \in RoutineIds => DesiredOf(key)' = d
    /\ \A r \in RoutineIds \ {key} : DesiredOf(r)' = DesiredOf(r)

\* One row's status or bookkeeping.
Rewritten(i, row) ==
    /\ row.key = outbox[i].key /\ row.version = outbox[i].version
    /\ row.desired = outbox[i].desired
    /\ outbox' = [outbox EXCEPT ![i] = row]
    /\ routines' = routines

\* Neither.
Untouched == outbox' = outbox /\ \A r \in RoutineIds : DesiredOf(r)' = DesiredOf(r)

\* A transaction of a handler asks for something new or leaves the outbox alone.
LEMMA EditShape ==
    ASSUME StoreInv, Edit
    PROVE  Untouched \/ \E key \in Keys, d \in Desired : Asked(key, d)
<1>1. ASSUME NEW r \in RoutineIds, NEW x, routines' = [routines EXCEPT ![r] = x]
      PROVE  /\ \A q \in RoutineIds \ {r} : DesiredOf(q)' = DesiredOf(q)
             /\ routines'[r] = x
  BY <1>1 DEF DesiredOf, StoreInv, StoreTypeOK
<1>2. ASSUME NEW r \in RoutineIds, NEW s \in Specs, create_routine(r, s)
      PROVE  \E d \in Desired : Asked(r, d)
  <2> DEFINE x == [status |-> "active", spec |-> s]
             d == routine_outbox_upsert_desired(s, TRUE)
  <2>1. d \in Desired
    BY DesiredTypes
  <2>2. routines' = [routines EXCEPT ![r] = x] /\ outbox' = upsert_outbox(outbox, r, d)
    BY <1>2 DEF create_routine
  <2>3. routines'[r] = x
    BY <2>2, <1>1
  <2>4. (routines'[r].status = "active") = TRUE /\ routines'[r].spec = s
    BY <2>3
  <2>5. DesiredOf(r)' = routine_outbox_upsert_desired(s, routines'[r].status = "active")
    BY <2>4 DEF DesiredOf
  <2>6. DesiredOf(r)' = d
    BY <2>4, <2>5
  <2>7. \A q \in RoutineIds \ {r} : DesiredOf(q)' = DesiredOf(q)
    BY <1>1, <2>2
  <2> HIDE DEF x, d
  <2>. QED  BY <2>1, <2>2, <2>6, <2>7 DEF Asked
<1>3. ASSUME NEW r \in RoutineIds, NEW s \in Specs, update_routine(r, s)
      PROVE  \E d \in Desired : Asked(r, d)
  <2> DEFINE x == [routines[r] EXCEPT !.spec = s]
             d == routine_outbox_upsert_desired(s, routines[r].status = "active")
  <2>1. routines[r] \in RoutineRow /\ routines[r].status \in {"active", "paused"}
    BY <1>3 DEF StoreInv, StoreTypeOK, RoutineRow, update_routine
  <2>2. x.status = routines[r].status /\ x.spec = s /\ d \in Desired
    BY <2>1, DesiredTypes DEF RoutineRow
  <2>3. routines' = [routines EXCEPT ![r] = x] /\ outbox' = upsert_outbox(outbox, r, d)
    BY <1>3 DEF update_routine
  <2>4. routines'[r] = x
    BY <1>1, <2>3
  <2>5. DesiredOf(r)' = d
    BY <2>1, <2>2, <2>4 DEF DesiredOf
  <2>6. \A q \in RoutineIds \ {r} : DesiredOf(q)' = DesiredOf(q)
    BY <1>1, <2>3
  <2> HIDE DEF x, d
  <2>. QED  BY <2>2, <2>3, <2>5, <2>6 DEF Asked
<1>4. ASSUME NEW r \in RoutineIds, NEW to \in {"active", "paused", "retired"}, transition_routine(r, to)
      PROVE  \E d \in Desired : Asked(r, d)
  <2> DEFINE x == [routines[r] EXCEPT !.status = to]
             d == IF to = "retired"
                  THEN routine_outbox_delete_desired
                  ELSE routine_outbox_upsert_desired(routines[r].spec, to = "active")
  <2>1. routines[r] \in RoutineRow
    BY DEF StoreInv, StoreTypeOK, RoutineRow
  <2>2. x.status = to /\ x.spec = routines[r].spec /\ d \in Desired
    BY <2>1, DesiredTypes DEF RoutineRow
  <2>3. routines' = [routines EXCEPT ![r] = x] /\ outbox' = upsert_outbox(outbox, r, d)
    BY <1>4 DEF transition_routine
  <2>4. routines'[r] = x
    BY <1>1, <2>3
  <2>5. DesiredOf(r)' = d
    BY <2>2, <2>4 DEF DesiredOf
  <2>6. \A q \in RoutineIds \ {r} : DesiredOf(q)' = DesiredOf(q)
    BY <1>1, <2>3
  <2> HIDE DEF x, d
  <2>. QED  BY <2>2, <2>3, <2>5, <2>6 DEF Asked
<1>5. ASSUME NEW v \in ReviewIds, finalize_review(v)
      PROVE  Untouched \/ \E d \in Desired : Asked(v, d)
  <2>1. reviews[v].body \in Bodies \cup {Blank} /\ v \notin RoutineIds
    BY OutboxAssumption DEF StoreInv, StoreTypeOK
  <2>2. routines' = routines
    BY <1>5 DEF finalize_review
  <2>3. \A r \in RoutineIds : DesiredOf(r)' = DesiredOf(r)
    BY <2>2 DEF DesiredOf
  <2>4. \/ outbox' = outbox
        \/ \E d \in Desired : outbox' = upsert_outbox(outbox, v, d)
    BY <1>5, <2>1, DesiredTypes DEF finalize_review
  <2>. QED  BY <2>1, <2>3, <2>4 DEF Asked, Untouched
<1>6. ASSUME NEW v \in ReviewIds, NEW b,
             create_review(v) \/ finalize_review_aborts(v) \/ update_review_body(v, b)
      PROVE  Untouched
  BY <1>6 DEF create_review, finalize_review_aborts, write_markdown_atomic, update_review_body,
              Untouched, DesiredOf
<1>. QED  BY <1>2, <1>3, <1>4, <1>5, <1>6 DEF Edit, Keys

\* So does a correction of the full reconcile.
LEMMA EnqueueShape ==
    ASSUME StoreInv, NEW k,
           \/ k \in RoutineIds /\ outbox_enqueue_upsert_for_routine(k)
           \/ k \in ScheduleIds /\ outbox_enqueue_delete_for_orphan(k)
    PROVE  Untouched \/ \E d \in Desired : Asked(k, d)
<1>1. routines' = routines /\ \A r \in RoutineIds : DesiredOf(r)' = DesiredOf(r)
  BY DEF outbox_enqueue_upsert_for_routine, outbox_enqueue_delete_for_orphan, DesiredOf
<1>2. k \in RoutineIds => routines[k] \in RoutineRow
  BY DEF StoreInv, StoreTypeOK, RoutineRow
<1>3. CASE outbox' = outbox
  BY <1>1, <1>3 DEF Untouched
<1>4. CASE outbox' # outbox /\ k \in RoutineIds /\ outbox_enqueue_upsert_for_routine(k)
  <2> DEFINE d == routine_outbox_upsert_desired(routines[k].spec, routines[k].status = "active")
  <2>1. routines[k].status \notin {"absent", "retired"} /\ outbox' = upsert_outbox(outbox, k, d)
    BY <1>4 DEF outbox_enqueue_upsert_for_routine
  <2>2. d \in Desired
    BY <1>2, <1>4, DesiredTypes DEF RoutineRow
  <2>3. DesiredOf(k) = d
    BY <2>1 DEF DesiredOf
  <2> HIDE DEF d
  <2>. QED  BY <1>1, <1>4, <2>1, <2>2, <2>3 DEF Asked
<1>5. CASE outbox' # outbox /\ k \in ScheduleIds /\ outbox_enqueue_delete_for_orphan(k)
  <2> DEFINE d == routine_outbox_delete_desired
  <2>1. /\ ~(k \in RoutineIds /\ routines[k].status \in {"active", "paused"})
        /\ outbox' = upsert_outbox(outbox, k, d)
    BY <1>5 DEF outbox_enqueue_delete_for_orphan
  <2>2. k \in RoutineIds => DesiredOf(k) = d
    BY <1>2, <2>1 DEF RoutineRow, DesiredOf
  <2>3. d \in Desired
    BY DesiredTypes
  <2> HIDE DEF d
  <2>. QED  BY <1>1, <2>1, <2>2, <2>3 DEF Asked
<1>. QED  BY <1>3, <1>4, <1>5

\* A write-back rewrites the pending row it remembers, or nothing.
LEMMA WriteBackShape ==
    ASSUME StoreInv, NEW i, NEW n, NEW row, WriteBack(i, n, row), ~Untouched
    PROVE  /\ i \in 1..Len(outbox) /\ outbox[i].status = "pending"
           /\ outbox[i].version = n /\ outbox[i] \in Row
           /\ outbox' = [outbox EXCEPT ![i] = row] /\ routines' = routines
<1>1. routines' = routines
  BY DEF WriteBack
<1>2. \A r \in RoutineIds : DesiredOf(r)' = DesiredOf(r)
  BY <1>1 DEF DesiredOf
<1>3. i \in 1..Len(outbox) => outbox[i] \in Row
  BY DEF StoreInv, StoreTypeOK
<1>. QED  BY <1>1, <1>2, <1>3, WriteBackCases DEF storeVars, Untouched

\* outbox_mark_done ends a pending row.
LEMMA DoneShape ==
    ASSUME StoreInv, NEW i, NEW n, outbox_mark_done(i, n), ~Untouched
    PROVE  /\ i \in 1..Len(outbox) /\ outbox[i].status = "pending" /\ outbox[i].version = n
           /\ \E row \in Row : Rewritten(i, row) /\ row.status = "done"
<1> DEFINE row == [outbox[i] EXCEPT !.status = "done"]
<1>1. WriteBack(i, n, row)
  BY DEF outbox_mark_done
<1>2. /\ i \in 1..Len(outbox) /\ outbox[i].status = "pending" /\ outbox[i].version = n
      /\ outbox[i] \in Row /\ outbox' = [outbox EXCEPT ![i] = row] /\ routines' = routines
  <2> HIDE DEF row
  <2>. QED  BY <1>1, WriteBackShape
<1>3. row \in Row /\ row.key = outbox[i].key /\ row.version = outbox[i].version
      /\ row.desired = outbox[i].desired /\ row.status = "done"
  BY <1>2 DEF Row
<1> HIDE DEF row
<1>. QED  BY <1>2, <1>3 DEF Rewritten

\* outbox_mark_failed gives a pending row up.
LEMMA FailedShape ==
    ASSUME StoreInv, NEW i, NEW n, outbox_mark_failed(i, n), ~Untouched
    PROVE  \E j \in 1..Len(outbox), row \in Row :
            Rewritten(j, row) /\ outbox[j].status = "pending" /\ row.status = "failed"
<1> DEFINE row == [outbox[i] EXCEPT !.status = "failed", !.waiting = FALSE]
<1>1. WriteBack(i, n, row)
  BY DEF outbox_mark_failed
<1>2. /\ i \in 1..Len(outbox) /\ outbox[i].status = "pending"
      /\ outbox[i] \in Row /\ outbox' = [outbox EXCEPT ![i] = row] /\ routines' = routines
  <2> HIDE DEF row
  <2>. QED  BY <1>1, WriteBackShape
<1>3. row \in Row /\ row.key = outbox[i].key /\ row.version = outbox[i].version
      /\ row.desired = outbox[i].desired /\ row.status = "failed"
  BY <1>2 DEF Row
<1> HIDE DEF row
<1>. QED  BY <1>2, <1>3 DEF Rewritten

\* outbox_mark_retry keeps it pending.
LEMMA RetryShape ==
    ASSUME StoreInv, NEW i, NEW n, NEW bump \in BOOLEAN, outbox_mark_retry(i, n, bump), ~Untouched
    PROVE  \E j \in 1..Len(outbox), row \in Row : Rewritten(j, row) /\ row.status = outbox[j].status
<1> DEFINE row == [outbox[i] EXCEPT !.waiting = TRUE,
                      !.otherBucket = IF bump THEN @ + 1 ELSE @]
           n2 == IF bump THEN outbox[i].otherBucket + 1 ELSE outbox[i].otherBucket
<1>1. WriteBack(i, n, row)
  BY DEF outbox_mark_retry
<1>2. /\ i \in 1..Len(outbox) /\ outbox[i] \in Row
      /\ outbox' = [outbox EXCEPT ![i] = row] /\ routines' = routines
  <2> HIDE DEF row
  <2>. QED  BY <1>1, WriteBackShape
<1>3. n2 \in Nat /\ row = [outbox[i] EXCEPT !.waiting = TRUE, !.otherBucket = n2]
  BY <1>2 DEF Row
<1>4. row \in Row /\ row.key = outbox[i].key /\ row.version = outbox[i].version
      /\ row.desired = outbox[i].desired /\ row.status = outbox[i].status
  <2> HIDE DEF n2
  <2>. QED  BY <1>2, <1>3 DEF Row
<1> HIDE DEF row
<1>. QED  BY <1>2, <1>4 DEF Rewritten

\* The kinds of step there are for the outbox: none of it, a new intent, a row
\* rewritten with its status kept, a pending row given up, the row at hand done.
LEMMA StepShape ==
    ASSUME StoreInv, [Next]_vars
    PROVE  \/ Untouched
           \/ acks' = acks /\ \E key \in Keys, d \in Desired : Asked(key, d)
           \/ /\ acks' = acks
              /\ \E i \in 1..Len(outbox), row \in Row :
                    /\ Rewritten(i, row)
                    /\ \/ row.status = outbox[i].status
                       \/ outbox[i].status = "pending" /\ row.status = "failed" /\ pc' = "drain"
           \/ /\ acks' = acks /\ RowLands
              /\ Head1.id \in 1..Len(outbox) /\ outbox[Head1.id].status = "pending"
              /\ outbox[Head1.id].version = Head1.version
              /\ \E row \in Row : Rewritten(Head1.id, row) /\ row.status = "done"
<1>1. CASE UNCHANGED <<routines, outbox>>
  BY <1>1 DEF Untouched, DesiredOf
<1>2. CASE HttpEdit
  BY <1>2, EditShape DEF HttpEdit
<1>3. CASE RowBecomesDue
  <2>1. PICK i \in 1..Len(outbox) : BackoffElapses(i)
    BY <1>3 DEF RowBecomesDue
  <2> DEFINE row == [outbox[i] EXCEPT !.waiting = FALSE]
  <2>2. outbox[i] \in Row
    BY DEF StoreInv, StoreTypeOK
  <2>3. row \in Row /\ row.key = outbox[i].key /\ row.version = outbox[i].version
        /\ row.desired = outbox[i].desired /\ row.status = outbox[i].status
    BY <2>2 DEF Row
  <2>4. outbox' = [outbox EXCEPT ![i] = row] /\ routines' = routines /\ acks' = acks
    BY <1>3, <2>1 DEF BackoffElapses, RowBecomesDue
  <2> HIDE DEF row
  <2>. QED  BY <2>3, <2>4 DEF Rewritten
<1>4. CASE RowLands
  BY <1>4, DoneShape DEF RowLands
<1>5. CASE PostponeUnknownKind \/ RowFailsForGood \/ RowBacksOff \/ RowRetriesOrExhausts
  <2>1. /\ acks' = acks /\ pc' = "drain"
        /\ \/ outbox_mark_failed(Head1.id, Head1.version)
           \/ \E bump \in BOOLEAN : outbox_mark_retry(Head1.id, Head1.version, bump)
    BY <1>5 DEF PostponeUnknownKind, RowFailsForGood, RowBacksOff, RowRetriesOrExhausts,
                NextRow, StopBatch
  <2>2. CASE outbox_mark_failed(Head1.id, Head1.version)
    BY <2>1, <2>2, FailedShape
  <2>3. CASE \E bump \in BOOLEAN : outbox_mark_retry(Head1.id, Head1.version, bump)
    BY <2>1, <2>3, RetryShape
  <2>. QED  BY <2>1, <2>2, <2>3
<1>6. ASSUME NEW k \in ScheduleIds, Correct(k)
      PROVE  Untouched \/ (acks' = acks /\ \E key \in Keys, d \in Desired : Asked(key, d))
  <2>1. \/ UNCHANGED storeVars
        \/ k \in RoutineIds /\ outbox_enqueue_upsert_for_routine(k)
        \/ outbox_enqueue_delete_for_orphan(k)
    BY <1>6 DEF Correct, IsLocal
  <2>2. k \in Keys /\ acks' = acks
    BY <1>6 DEF Keys, ScheduleIds, Correct
  <2>3. CASE UNCHANGED storeVars
    BY <2>3 DEF storeVars, Untouched, DesiredOf
  <2>4. CASE ~UNCHANGED storeVars
    <3>1. Untouched \/ \E d \in Desired : Asked(k, d)
      BY <1>6, <2>1, <2>4, EnqueueShape
    <3>. QED  BY <2>2, <3>1
  <2>. QED  BY <2>3, <2>4
<1>7. CASE \/ FullBecomesDue \/ KernelDrifts \/ LateCallExecuted \/ Crash \/ GenerationEnds
           \/ StartGeneration \/ Wake \/ SkipStaleRow \/ SkipUnserved \/ SendRow \/ RowRevoked
           \/ RowConnectionLost \/ DrainEnds \/ SyncSuspended \/ DrainStoreFails \/ ListFails
           \/ FullStoreFails
  BY <1>1, <1>7
  DEF FullBecomesDue, KernelDrifts, LateCallExecuted, Crash, GenerationEnds,
      StartGeneration, Wake, SkipStaleRow, SkipUnserved, SendRow, RowRevoked,
      RowConnectionLost, DrainEnds, SyncSuspended, DrainStoreFails, ListFails,
      FullStoreFails, storeVars, sync_kernel_suspended_routines
<1>8. CASE KernelAnswers
  BY <1>1, <1>8
  DEF KernelAnswers, SchedulerAnswers, RecallAnswers, RememberAnswers, ListAnswers,
      CallFails, Answered, storeVars
<1>9. CASE UNCHANGED vars
  BY <1>1, <1>9 DEF vars, storeVars
<1>. QED
  BY <1>2, <1>3, <1>4, <1>5, <1>6, <1>7, <1>8, <1>9 DEF Next, PumpStep

\* The row a new intent wrote is its key's last and only live one; the rows of
\* the other keys are as they were.
LEMMA AskedRows ==
    ASSUME StoreInv, StoreInv', NEW key \in Keys, NEW d \in Desired, Asked(key, d)
    PROVE  /\ \E i \in RowsOf(key)' :
                /\ outbox'[i].desired = d /\ outbox'[i].status = "pending"
                /\ \/ i = Len(outbox) + 1
                   \/ i \in 1..Len(outbox) /\ outbox'[i].version = outbox[i].version + 1
                /\ \A j \in RowsOf(key)' : j <= i
                /\ LiveRows(outbox', key) = {i}
                /\ \A j \in 1..Len(outbox) : j # i => outbox'[j] = outbox[j]
           /\ \A k : k # key => /\ RowsOf(k)' = RowsOf(k)
                                /\ LiveRows(outbox', k) = LiveRows(outbox, k)
                                /\ \A j \in RowsOf(k) : outbox'[j] = outbox[j]
<1> DEFINE o2 == upsert_outbox(outbox, key, d)
<1>1. outbox \in Seq(Row) /\ LiveIsLast(outbox) /\ outbox' = o2 /\ o2 \in Seq(Row) /\ LiveIsLast(o2)
  BY DEF StoreInv, StoreTypeOK, Asked
<1>2. PICK i \in 1..Len(o2) :
        /\ o2[i].key = key /\ o2[i].desired = d /\ o2[i].status = "pending"
        /\ \/ i = Len(outbox) + 1 /\ Len(o2) = Len(outbox) + 1 /\ LiveRows(outbox, key) = {}
           \/ /\ i \in 1..Len(outbox) /\ Len(o2) = Len(outbox) /\ IsLive(outbox[i], key)
              /\ o2[i].version = outbox[i].version + 1
        /\ \A j \in 1..Len(outbox) : j # i => o2[j] = outbox[j]
  <2>1. key \in Keys /\ d \in Desired /\ outbox \in Seq(Row) /\ LiveIsLast(outbox)
    BY <1>1
  <2>. QED  BY <2>1, UpsertShape
<1>3. /\ \A j \in 1..Len(o2) : o2[j].key # key => j \in 1..Len(outbox) /\ o2[j] = outbox[j]
      /\ \A j \in 1..Len(outbox) : outbox[j].key # key => j \in 1..Len(o2) /\ o2[j] = outbox[j]
  BY <1>1, UpsertKeeps
<1> HIDE DEF o2
<1>4. IsLive(o2[i], key) /\ i \in RowsOf(key)'
  BY <1>1, <1>2 DEF IsLive, RowsOf
<1>5. \A j \in 1..Len(o2) : o2[j].key = key => j <= i
  BY <1>2, <1>4, <1>1 DEF LiveIsLast
<1>6. \A j \in LiveRows(o2, key) : j = i
  <2> SUFFICES ASSUME NEW j \in LiveRows(o2, key) PROVE j = i
    OBVIOUS
  <2>1. j \in 1..Len(o2) /\ o2[j].key = key /\ IsLive(o2[j], o2[j].key)
    BY DEF LiveRows, IsLive
  <2>2. j <= i /\ i <= j
    BY <1>1, <1>2, <1>5, <2>1 DEF LiveIsLast
  <2>. QED  BY <1>2, <2>1, <2>2
<1>7. LiveRows(o2, key) = {i}
  BY <1>2, <1>4, <1>6 DEF LiveRows
<1>8. \A j \in RowsOf(key)' : j <= i
  BY <1>1, <1>5 DEF RowsOf
<1>9. ASSUME NEW k, k # key
      PROVE  /\ RowsOf(k)' = RowsOf(k)
             /\ LiveRows(outbox', k) = LiveRows(outbox, k)
             /\ \A j \in RowsOf(k) : outbox'[j] = outbox[j]
  <2>1. RowsOf(k)' = RowsOf(k) /\ \A j \in RowsOf(k) : outbox'[j] = outbox[j]
    BY <1>1, <1>3, <1>9 DEF RowsOf
  <2>2. LiveRows(outbox', k) = LiveRows(outbox, k)
    BY <1>1, <1>3, <1>9 DEF LiveRows, IsLive
  <2>. QED  BY <2>1, <2>2
<1>. QED  BY <1>1, <1>2, <1>4, <1>7, <1>8, <1>9

\* A rewritten row stays where it was, under its key.
LEMMA RewrittenRows ==
    ASSUME StoreInv, NEW i \in 1..Len(outbox), NEW row \in Row, Rewritten(i, row)
    PROVE  /\ Len(outbox') = Len(outbox) /\ outbox'[i] = row
           /\ \A j \in 1..Len(outbox) : j # i => outbox'[j] = outbox[j]
           /\ \A k : RowsOf(k)' = RowsOf(k)
           /\ \A k : k # row.key => LiveRows(outbox', k) = LiveRows(outbox, k)
           /\ \A r \in RoutineIds : DesiredOf(r)' = DesiredOf(r)
<1>1. outbox \in Seq(Row) /\ outbox' = [outbox EXCEPT ![i] = row] /\ row.key = outbox[i].key
  BY DEF StoreInv, StoreTypeOK, Rewritten
<1>2. /\ Len(outbox') = Len(outbox) /\ outbox'[i] = row
      /\ \A j \in 1..Len(outbox) : j # i => outbox'[j] = outbox[j]
  BY <1>1
<1>3. \A k : RowsOf(k)' = RowsOf(k)
  BY <1>1, <1>2 DEF RowsOf
<1>4. \A k : k # row.key => LiveRows(outbox', k) = LiveRows(outbox, k)
  BY <1>1, <1>2 DEF LiveRows, IsLive
<1>5. \A r \in RoutineIds : DesiredOf(r)' = DesiredOf(r)
  BY DEF Rewritten, DesiredOf
<1>. QED  BY <1>2, <1>3, <1>4, <1>5

\* Every step lets the outbox evolve.
LEMMA StepEvolves ==
    ASSUME StoreInv, [Next]_vars
    PROVE  Evolves(outbox, outbox')
<1>1. outbox \in Seq(Row) /\ LiveIsLast(outbox)
  BY DEF StoreInv, StoreTypeOK
<1>2. CASE Untouched
  BY <1>2, SameEvolves DEF Untouched
<1>3. ASSUME NEW key \in Keys, NEW d \in Desired, Asked(key, d) PROVE Evolves(outbox, outbox')
  BY <1>1, <1>3, UpsertEvolves DEF Asked
<1>4. ASSUME NEW i \in 1..Len(outbox), NEW row \in Row, Rewritten(i, row)
      PROVE  Evolves(outbox, outbox')
  BY <1>4, RowRewritten DEF Rewritten
<1>. QED  BY <1>2, <1>3, <1>4, StepShape

\* Only an answer to the row at hand confirms anything.
LEMMA AckStep ==
    ASSUME [Next]_vars
    PROVE  \/ acks' = acks
           \/ Confirmed(Head1) /\ pc \in {"sent", "recalled"} /\ UNCHANGED storeVars
<1>1. CASE KernelAnswers
  BY <1>1 DEF KernelAnswers, SchedulerAnswers, RecallAnswers, RememberAnswers, ListAnswers,
              CallFails, Answered
<1>2. CASE PumpStep
  BY <1>2 DEF PumpStep, Wake, SkipStaleRow, SkipUnserved, PostponeUnknownKind, SendRow, RowLands,
         RowRevoked, RowConnectionLost, RowFailsForGood, RowBacksOff, RowRetriesOrExhausts,
         DrainEnds, Correct, SyncSuspended
<1>3. CASE UNCHANGED vars
  BY <1>3 DEF vars
<1>4. CASE ~KernelAnswers /\ ~PumpStep /\ Next
  BY <1>4 DEF Next, HttpEdit, RowBecomesDue, FullBecomesDue, KernelDrifts, LateCallExecuted, Crash,
         GenerationEnds, StartGeneration, DrainStoreFails, ListFails, FullStoreFails
<1>. QED  BY <1>1, <1>2, <1>3, <1>4

-----------------------------------------------------------------------------
(* What the refinement and the kernel's state rest on *)

\* The row of a call in flight waits for its answer: only the pump ends a row,
\* and an edit leaves it pending under another version.
InFlight ==
    pc \in {"sent", "recalled", "reply"} => outbox[Head1.id].status = "pending"

\* The kernel has confirmed no version a row has yet to reach.
AcksNotAhead ==
    \A a \in acks : a.id \in 1..Len(outbox) /\ a.version <= outbox[a.id].version

\* A key with rows has a newest one.
HasNewest ==
    \A k \in Keys : RowsOf(k) # {} => \E i \in RowsOf(k) : \A j \in RowsOf(k) : j <= i

\* The live row of a Routine, created or not, asks for its present state.
LiveAsks ==
    \A r \in RoutineIds : \A i \in LiveRows(outbox, r) : outbox[i].desired = DesiredOf(r)

\* The inductive invariant.
IntentInv == PumpInv /\ InFlight /\ AcksNotAhead /\ HasNewest /\ LiveAsks

\* The row at hand is in the outbox, under its key.
LEMMA HeadFaithful ==
    ASSUME PumpInv, pc \in {"sent", "recalled", "reply"} \/ AtRow
    PROVE  Head1 \in OutboxRow /\ Faithful(outbox, Head1) /\ batch # <<>>
<1>1. Head1 = batch[1] /\ 1 \in 1..Len(batch) /\ Head1 \in OutboxRow /\ batch # <<>>
  BY HeadTypes DEF PumpInv, Typed
<1>. QED  BY <1>1 DEF PumpInv, BatchFaithful

\* A call is in flight because it was just sent, or still is.
LEMMA InFlightCases ==
    ASSUME [Next]_vars, pc' \in {"sent", "recalled", "reply"}
    PROVE  SendRow \/ (pc \in {"sent", "recalled", "reply"} /\ batch' = batch)
<1>1. CASE KernelAnswers
  BY <1>1 DEF KernelAnswers, SchedulerAnswers, RecallAnswers, RememberAnswers, ListAnswers,
              CallFails, Answered
<1>2. CASE PumpStep
  BY <1>2 DEF PumpStep, Wake, SkipStaleRow, SkipUnserved, PostponeUnknownKind, RowLands,
         RowRevoked, RowConnectionLost, RowFailsForGood, RowBacksOff, RowRetriesOrExhausts,
         DrainEnds, Correct, SyncSuspended, NextRow, StopBatch, PumpStops, FullEnds
<1>3. CASE UNCHANGED vars
  BY <1>3 DEF vars, pumpVars
<1>4. CASE ~KernelAnswers /\ ~PumpStep /\ Next
  BY <1>4 DEF Next, HttpEdit, RowBecomesDue, FullBecomesDue, KernelDrifts, LateCallExecuted, Crash,
         GenerationEnds, StartGeneration, DrainStoreFails, ListFails, FullStoreFails, pumpVars,
         StopBatch, PumpStops, FullEnds
<1>. QED  BY <1>1, <1>2, <1>3, <1>4

\* The row of a call in flight stays pending.
LEMMA InFlightKept ==
    ASSUME PumpInv, InFlight, StoreInv', [Next]_vars
    PROVE  InFlight'
<1> SUFFICES ASSUME pc' \in {"sent", "recalled", "reply"}
             PROVE  outbox'[Head1'.id].status = "pending"
  BY DEF InFlight
<1>1. CASE SendRow
  <2>1. outbox' = outbox /\ Head1' = Head1
    BY <1>1 DEF SendRow, storeVars, Head1
  <2>. QED  BY <1>1, <2>1 DEF SendRow, outbox_row_is_current
<1>2. CASE pc \in {"sent", "recalled", "reply"} /\ batch' = batch
  <2>1. /\ Head1' = Head1 /\ Head1.id \in 1..Len(outbox)
        /\ outbox[Head1.id].status = "pending"
    BY <1>2, HeadFaithful DEF Head1, Faithful, InFlight
  <2>2. CASE Untouched
    BY <2>1, <2>2 DEF Untouched
  <2>3. ASSUME NEW key \in Keys, NEW d \in Desired, Asked(key, d)
        PROVE  outbox'[Head1.id].status = "pending"
    BY <2>1, <2>3, AskedRows DEF PumpInv
  <2>4. ASSUME NEW i \in 1..Len(outbox), NEW row \in Row, Rewritten(i, row),
               row.status = outbox[i].status
        PROVE  outbox'[Head1.id].status = "pending"
    BY <2>1, <2>4, RewrittenRows DEF PumpInv
  <2>5. ~RowLands
    BY DEF RowLands, NextRow
  <2>. QED  BY <2>1, <2>2, <2>3, <2>4, <2>5, StepShape DEF PumpInv
<1>. QED  BY <1>1, <1>2, InFlightCases

\* Confirmations stay behind the versions they confirm.
LEMMA AcksNotAheadKept ==
    ASSUME PumpInv, AcksNotAhead, StoreInv', Typed', [Next]_vars
    PROVE  AcksNotAhead'
<1>1. Evolves(outbox, outbox') /\ outbox \in Seq(Row) /\ outbox' \in Seq(Row)
  BY StepEvolves DEF PumpInv, StoreInv, StoreTypeOK
<1>2. ASSUME NEW a \in acks
      PROVE  a.id \in 1..Len(outbox') /\ a.version <= outbox'[a.id].version
  <2>1. a.version \in Nat /\ a.id \in 1..Len(outbox) /\ a.version <= outbox[a.id].version
    BY DEF AcksNotAhead, PumpInv, Typed, AckTypes
  <2>2. a.id \in 1..Len(outbox') /\ outbox[a.id].version <= outbox'[a.id].version
    BY <1>1, <2>1 DEF Evolves
  <2>3. outbox[a.id].version \in Nat /\ outbox'[a.id].version \in Nat
    BY <1>1, <2>1, <2>2, VersionsAreNat
  <2>. QED  BY <2>1, <2>2, <2>3
<1>3. CASE acks' = acks
  BY <1>2, <1>3 DEF AcksNotAhead
<1>4. CASE Confirmed(Head1) /\ pc \in {"sent", "recalled"} /\ UNCHANGED storeVars
  <2>1. Head1.id \in 1..Len(outbox) /\ Head1.version <= outbox[Head1.id].version /\ outbox' = outbox
    BY <1>4, HeadFaithful DEF Faithful, storeVars
  <2>. QED  BY <1>2, <1>4, <2>1 DEF AcksNotAhead, Confirmed
<1>. QED  BY <1>3, <1>4, AckStep

\* A key's rows keep a greatest one.
LEMMA HasNewestKept ==
    ASSUME PumpInv, HasNewest, StoreInv', [Next]_vars
    PROVE  HasNewest'
<1>1. CASE Untouched
  BY <1>1 DEF Untouched, HasNewest, RowsOf
<1>2. ASSUME NEW key \in Keys, NEW d \in Desired, Asked(key, d) PROVE HasNewest'
  <2> SUFFICES ASSUME NEW k \in Keys, RowsOf(k)' # {}
               PROVE  \E i \in RowsOf(k)' : \A j \in RowsOf(k)' : j <= i
    BY DEF HasNewest
  <2>1. CASE k = key
    BY <1>2, <2>1, AskedRows DEF PumpInv
  <2>2. CASE k # key
    <3>1. RowsOf(k)' = RowsOf(k)
      BY <1>2, <2>2, AskedRows DEF PumpInv
    <3>. QED  BY <3>1 DEF HasNewest
  <2>. QED  BY <2>1, <2>2
<1>3. ASSUME NEW i \in 1..Len(outbox), NEW row \in Row, Rewritten(i, row) PROVE HasNewest'
  <2>1. \A k : RowsOf(k)' = RowsOf(k)
    BY <1>3, RewrittenRows DEF PumpInv
  <2>. QED  BY <2>1 DEF HasNewest
<1>. QED  BY <1>1, <1>2, <1>3, StepShape DEF PumpInv

\* A live row keeps asking for its Routine's present state.
LEMMA LiveAsksKept ==
    ASSUME PumpInv, LiveAsks, StoreInv', [Next]_vars
    PROVE  LiveAsks'
<1> SUFFICES ASSUME NEW r \in RoutineIds, NEW i \in LiveRows(outbox', r)
             PROVE  outbox'[i].desired = DesiredOf(r)'
  BY DEF LiveAsks
<1>1. CASE Untouched
  BY <1>1 DEF Untouched, LiveAsks
<1>2. ASSUME NEW key \in Keys, NEW d \in Desired, Asked(key, d)
      PROVE  outbox'[i].desired = DesiredOf(r)'
  <2>1. CASE r = key
    <3>1. outbox'[i].desired = d
      BY <1>2, <2>1, AskedRows DEF PumpInv
    <3>. QED  BY <1>2, <2>1, <3>1 DEF Asked
  <2>2. CASE r # key
    <3>1. LiveRows(outbox', r) = LiveRows(outbox, r) /\ \A j \in RowsOf(r) : outbox'[j] = outbox[j]
      BY <1>2, <2>2, AskedRows DEF PumpInv
    <3>2. i \in RowsOf(r)
      BY <3>1 DEF LiveRows, IsLive, RowsOf
    <3>. QED  BY <1>2, <2>2, <3>1, <3>2 DEF LiveAsks, Asked
  <2>. QED  BY <2>1, <2>2
<1>3. ASSUME NEW n \in 1..Len(outbox), NEW row \in Row, Rewritten(n, row),
             row.status \in {"pending", "failed"} => outbox[n].status \in {"pending", "failed"}
      PROVE  outbox'[i].desired = DesiredOf(r)'
  <2>1. /\ Len(outbox') = Len(outbox) /\ outbox'[n] = row
        /\ \A j \in 1..Len(outbox) : j # n => outbox'[j] = outbox[j]
        /\ DesiredOf(r)' = DesiredOf(r)
    BY <1>3, RewrittenRows DEF PumpInv
  <2>2. i \in LiveRows(outbox, r) /\ outbox'[i].desired = outbox[i].desired
    BY <1>3, <2>1 DEF LiveRows, IsLive, Rewritten
  <2>. QED  BY <2>1, <2>2 DEF LiveAsks
<1>4. ASSUME NEW n \in 1..Len(outbox), NEW row \in Row, Rewritten(n, row),
             row.status = outbox[n].status \/ outbox[n].status = "pending"
      PROVE  outbox'[i].desired = DesiredOf(r)'
  BY <1>3, <1>4
<1>. QED  BY <1>1, <1>2, <1>4, StepShape DEF PumpInv

\* Every step keeps IntentInv.
LEMMA IntentInvStep == IntentInv /\ [Next]_vars => IntentInv'
<1> SUFFICES ASSUME IntentInv, [Next]_vars PROVE IntentInv'
  OBVIOUS
<1>1. PumpInv' /\ StoreInv' /\ Typed'
  BY PumpInvStep DEF IntentInv, PumpInv
<1>. QED  BY <1>1, InFlightKept, AcksNotAheadKept, HasNewestKept, LiveAsksKept DEF IntentInv

\* It holds initially.
LEMMA InitIntentInv == Init => IntentInv
<1> SUFFICES ASSUME Init PROVE IntentInv
  OBVIOUS
<1>1. Len(outbox) = 0 /\ pc = "down" /\ acks = {}
  BY DEF Init, StoreInit
<1>2. InFlight /\ AcksNotAhead
  BY <1>1 DEF InFlight, AcksNotAhead
<1>3. HasNewest
  BY <1>1 DEF HasNewest, RowsOf
<1>4. LiveAsks
  BY <1>1 DEF LiveAsks, LiveRows
<1>. QED  BY <1>2, <1>3, <1>4, InitPumpInv DEF IntentInv

\* The invariant the refinement and the kernel's state rest on.
THEOREM IntentInvariant == Spec => []IntentInv
BY InitIntentInv, IntentInvStep, PTL DEF Spec

-----------------------------------------------------------------------------
(* The refinement *)

\* A key as KernelIntent sees it.
IntentAt(k) == IF RowsOf(k) = {} THEN NoDesired ELSE outbox[NewestRow(k)].desired
PhaseAt(k) == IF RowsOf(k) = {} THEN "none" ELSE outbox[NewestRow(k)].status
ConfirmedAt(k) ==
    /\ RowsOf(k) # {}
    /\ [id |-> NewestRow(k), version |-> outbox[NewestRow(k)].version,
        desired |-> outbox[NewestRow(k)].desired] \in acks

\* The key looks as before.
SameView(k) ==
    IntentAt(k)' = IntentAt(k) /\ PhaseAt(k)' = PhaseAt(k) /\ ConfirmedAt(k)' = ConfirmedAt(k)

\* Newest finds a greatest element that is there.
LEMMA NewestOf ==
    ASSUME NEW S \in SUBSET Nat, NEW i \in S, \A j \in S : j <= i
    PROVE  Newest(S) = i
<1>1. Newest(S) \in S /\ \A j \in S : j <= Newest(S)
  BY DEF Newest
<1>2. Newest(S) \in Nat /\ i \in Nat /\ Newest(S) <= i /\ i <= Newest(S)
  BY <1>1
<1>. QED  BY <1>2

\* The newest row of a key that has rows is one of them.
LEMMA NewestIsThere ==
    ASSUME HasNewest, NEW k \in Keys, RowsOf(k) # {}
    PROVE  /\ NewestRow(k) \in RowsOf(k) /\ \A j \in RowsOf(k) : j <= NewestRow(k)
           /\ NewestRow(k) \in 1..Len(outbox) /\ outbox[NewestRow(k)].key = k
<1>1. RowsOf(k) \in SUBSET Nat
  BY DEF RowsOf
<1>2. PICK i \in RowsOf(k) : \A j \in RowsOf(k) : j <= i
  BY DEF HasNewest
<1>3. NewestRow(k) = i
  BY <1>1, <1>2, NewestOf DEF NewestRow
<1>. QED  BY <1>2, <1>3 DEF RowsOf

\* A key whose rows and confirmations are untouched looks as before.
LEMMA ViewKept ==
    ASSUME HasNewest, NEW k \in Keys, RowsOf(k)' = RowsOf(k),
           RowsOf(k) # {} =>
                /\ outbox'[NewestRow(k)].desired = outbox[NewestRow(k)].desired
                /\ outbox'[NewestRow(k)].status = outbox[NewestRow(k)].status
                /\ outbox'[NewestRow(k)].version = outbox[NewestRow(k)].version,
           RowsOf(k) # {} => \A a \in acks' \ acks : a.id # NewestRow(k),
           acks \subseteq acks'
    PROVE  SameView(k)
<1>1. NewestRow(k)' = NewestRow(k)
  BY DEF NewestRow
<1>2. CASE RowsOf(k) = {}
  BY <1>2 DEF SameView, IntentAt, PhaseAt, ConfirmedAt
<1>3. CASE RowsOf(k) # {}
  <2> DEFINE a == [id |-> NewestRow(k), version |-> outbox[NewestRow(k)].version,
                   desired |-> outbox[NewestRow(k)].desired]
  <2>1. a' = a /\ a.id = NewestRow(k)
    BY <1>1, <1>3
  <2>2. a \in acks' <=> a \in acks
    <3> HIDE DEF a
    <3>. QED  BY <1>3, <2>1
  <2>3. ConfirmedAt(k) <=> a \in acks
    BY <1>3 DEF ConfirmedAt
  <2>4. ConfirmedAt(k)' <=> a' \in acks'
    BY <1>3 DEF ConfirmedAt
  <2> HIDE DEF a
  <2>5. ConfirmedAt(k)' <=> ConfirmedAt(k)
    BY <2>1, <2>2, <2>3, <2>4
  <2>6. ConfirmedAt(k)' = ConfirmedAt(k)
    BY <2>5 DEF ConfirmedAt
  <2>7. IntentAt(k)' = IntentAt(k) /\ PhaseAt(k)' = PhaseAt(k)
    BY <1>1, <1>3 DEF IntentAt, PhaseAt
  <2>. QED  BY <2>6, <2>7 DEF SameView
<1>. QED  BY <1>2, <1>3

\* A step that changes the view of no key is a stutter.
LEMMA StutterView ==
    ASSUME \A k \in Keys : SameView(k)
    PROVE  UNCHANGED Intent!intentVars
<1>1. [k \in Keys |-> IntentAt(k)]' = [k \in Keys |-> IntentAt(k)]
  BY DEF SameView
<1>2. [k \in Keys |-> PhaseAt(k)]' = [k \in Keys |-> PhaseAt(k)]
  BY DEF SameView
<1>3. [k \in Keys |-> ConfirmedAt(k)]' = [k \in Keys |-> ConfirmedAt(k)]
  BY DEF SameView
<1>. QED  BY <1>1, <1>2, <1>3 DEF Intent!intentVars, IntentAt, PhaseAt, ConfirmedAt

\* A step that changes the view of one key maps to a step for it.
LEMMA OneView ==
    ASSUME NEW q \in Keys, \A k \in Keys \ {q} : SameView(k)
    PROVE  /\ [k \in Keys |-> IntentAt(k)]' = [[k \in Keys |-> IntentAt(k)] EXCEPT ![q] = IntentAt(q)']
           /\ [k \in Keys |-> PhaseAt(k)]' = [[k \in Keys |-> PhaseAt(k)] EXCEPT ![q] = PhaseAt(q)']
           /\ [k \in Keys |-> ConfirmedAt(k)]'
                = [[k \in Keys |-> ConfirmedAt(k)] EXCEPT ![q] = ConfirmedAt(q)']
BY DEF SameView

\* A new intent is unconfirmed: no version of a fresh row, and no next version
\* of an overwritten one, is among the confirmations.
LEMMA AskedMaps ==
    ASSUME IntentInv, IntentInv', NEW key \in Keys, NEW d \in Desired, Asked(key, d), acks' = acks
    PROVE  Intent!Ask(key, d)
<1>1. outbox \in Seq(Row) /\ outbox' \in Seq(Row) /\ StoreInv /\ StoreInv'
  BY DEF IntentInv, PumpInv, StoreInv, StoreTypeOK
<1>2. PICK i \in RowsOf(key)' :
        /\ outbox'[i].desired = d /\ outbox'[i].status = "pending"
        /\ \/ i = Len(outbox) + 1
           \/ i \in 1..Len(outbox) /\ outbox'[i].version = outbox[i].version + 1
        /\ \A j \in RowsOf(key)' : j <= i
  BY <1>1, AskedRows
<1>3. NewestRow(key)' = i
  <2>1. RowsOf(key)' \in SUBSET Nat
    BY DEF RowsOf
  <2>. QED  BY <1>2, <2>1, NewestOf DEF NewestRow
<1>4. [id |-> i, version |-> outbox'[i].version, desired |-> outbox'[i].desired] \notin acks
  <2> SUFFICES ASSUME NEW a \in acks, a.id = i, a.version = outbox'[i].version PROVE FALSE
    OBVIOUS
  <2>1. a.id \in 1..Len(outbox) /\ a.version <= outbox[a.id].version
    BY DEF IntentInv, AcksNotAhead
  <2>2. outbox[i].version \in Nat
    BY <1>1, <2>1, VersionsAreNat
  <2>. QED  BY <1>1, <1>2, <2>1, <2>2
<1>5. IntentAt(key)' = d /\ PhaseAt(key)' = "pending" /\ ~ConfirmedAt(key)'
  BY <1>2, <1>3, <1>4 DEF IntentAt, PhaseAt, ConfirmedAt
<1>6. \A k \in Keys \ {key} : SameView(k)
  <2> SUFFICES ASSUME NEW k \in Keys, k # key PROVE SameView(k)
    OBVIOUS
  <2>1. RowsOf(k)' = RowsOf(k) /\ \A j \in RowsOf(k) : outbox'[j] = outbox[j]
    BY <1>1, AskedRows
  <2>2. HasNewest /\ (RowsOf(k) # {} => outbox'[NewestRow(k)] = outbox[NewestRow(k)])
    BY <2>1, NewestIsThere DEF IntentInv
  <2>. QED  BY <2>1, <2>2, ViewKept
<1>7. ConfirmedAt(key)' = FALSE
  BY <1>5 DEF ConfirmedAt
<1>8. /\ [k \in Keys |-> IntentAt(k)]' = [[k \in Keys |-> IntentAt(k)] EXCEPT ![key] = d]
      /\ [k \in Keys |-> PhaseAt(k)]' = [[k \in Keys |-> PhaseAt(k)] EXCEPT ![key] = "pending"]
      /\ [k \in Keys |-> ConfirmedAt(k)]' = [[k \in Keys |-> ConfirmedAt(k)] EXCEPT ![key] = FALSE]
  BY <1>5, <1>6, <1>7, OneView
<1>. QED  BY <1>8 DEF Intent!Ask, IntentAt, PhaseAt, ConfirmedAt

\* The status of the newest row of a key changes and nothing else does.
LEMMA StatusMaps ==
    ASSUME IntentInv, IntentInv', NEW i \in 1..Len(outbox), NEW row \in Row, Rewritten(i, row),
           outbox[i].status = "pending", acks' = acks, NEW q, q = outbox[i].key
    PROVE  /\ q \in Keys /\ PhaseAt(q) = "pending" /\ NewestRow(q) = i /\ RowsOf(q) # {}
           /\ [k \in Keys |-> IntentAt(k)]' = [k \in Keys |-> IntentAt(k)]
           /\ [k \in Keys |-> PhaseAt(k)]' = [[k \in Keys |-> PhaseAt(k)] EXCEPT ![q] = row.status]
           /\ [k \in Keys |-> ConfirmedAt(k)]' = [k \in Keys |-> ConfirmedAt(k)]
<1>1. outbox \in Seq(Row) /\ outbox[i] \in Row /\ StoreInv /\ LiveIsLast(outbox) /\ HasNewest
  BY DEF IntentInv, PumpInv, StoreInv, StoreTypeOK
<1>2. q \in Keys
  BY <1>1 DEF Row
<1>3. i \in RowsOf(q) /\ \A j \in RowsOf(q) : j <= i
  BY <1>1 DEF RowsOf, LiveIsLast, IsLive
<1>4. NewestRow(q) = i
  <2>1. RowsOf(q) \in SUBSET Nat
    BY DEF RowsOf
  <2>. QED  BY <1>3, <2>1, NewestOf DEF NewestRow
<1>5. /\ outbox'[i] = row /\ \A j \in 1..Len(outbox) : j # i => outbox'[j] = outbox[j]
      /\ \A k : RowsOf(k)' = RowsOf(k)
  BY <1>1, RewrittenRows
<1>6. row.version = outbox[i].version /\ row.desired = outbox[i].desired
  BY DEF Rewritten
<1>7. \A k \in Keys \ {q} : SameView(k)
  <2> SUFFICES ASSUME NEW k \in Keys, k # q PROVE SameView(k)
    OBVIOUS
  <2>1. RowsOf(k) # {} => outbox'[NewestRow(k)] = outbox[NewestRow(k)]
    BY <1>1, <1>5, NewestIsThere
  <2>. QED  BY <1>1, <1>5, <2>1, ViewKept
<1>8. NewestRow(q)' = i
  BY <1>4, <1>5 DEF NewestRow
<1>9. PhaseAt(q) = "pending" /\ RowsOf(q) # {} /\ PhaseAt(q)' = row.status
      /\ IntentAt(q)' = IntentAt(q)
  BY <1>3, <1>4, <1>5, <1>6, <1>8 DEF PhaseAt, IntentAt
<1>10. ConfirmedAt(q)' = ConfirmedAt(q)
  BY <1>3, <1>4, <1>5, <1>6, <1>8 DEF ConfirmedAt
<1>11. /\ [k \in Keys |-> IntentAt(k)]' = [k \in Keys |-> IntentAt(k)]
       /\ [k \in Keys |-> ConfirmedAt(k)]' = [k \in Keys |-> ConfirmedAt(k)]
  BY <1>2, <1>7, <1>9, <1>10, OneView
<1>12. [k \in Keys |-> PhaseAt(k)]' = [[k \in Keys |-> PhaseAt(k)] EXCEPT ![q] = row.status]
  BY <1>2, <1>7, <1>9, OneView
<1>. QED  BY <1>2, <1>3, <1>4, <1>9, <1>11, <1>12

\* A confirmation concerns the key of the row at hand: the intent it holds now,
\* which is then pending, or none it holds any more.
LEMMA ConfirmMaps ==
    ASSUME IntentInv, Confirmed(Head1), pc \in {"sent", "recalled"}, UNCHANGED storeVars
    PROVE  [Intent!Next]_Intent!intentVars
<1> SUFFICES ASSUME NEW q, NEW i, q = Head1.key, i = Head1.id
             PROVE  [Intent!Next]_Intent!intentVars
  OBVIOUS
<1>1. /\ Head1 \in OutboxRow /\ q \in Keys /\ i \in 1..Len(outbox) /\ outbox[i].key = q
      /\ outbox[i].status = "pending"
  BY HeadFaithful DEF IntentInv, InFlight, Faithful, OutboxRow
<1>2. HasNewest /\ outbox' = outbox /\ \A k : RowsOf(k)' = RowsOf(k) /\ NewestRow(k)' = NewestRow(k)
  BY DEF IntentInv, storeVars, RowsOf, NewestRow
<1>3. acks \subseteq acks' /\ \A a \in acks' \ acks : a.id = i
  BY DEF Confirmed
<1>4. \A k \in Keys \ {q} : SameView(k)
  <2> SUFFICES ASSUME NEW k \in Keys, k # q PROVE SameView(k)
    OBVIOUS
  <2>1. RowsOf(k) # {} => NewestRow(k) # i
    BY <1>1, <1>2, NewestIsThere
  <2>. QED  BY <1>2, <1>3, <2>1, ViewKept
<1>5. IntentAt(q)' = IntentAt(q) /\ PhaseAt(q)' = PhaseAt(q)
  BY <1>2 DEF IntentAt, PhaseAt
<1>6. CASE ConfirmedAt(q)' = ConfirmedAt(q)
  <2>1. \A k \in Keys : SameView(k)
    BY <1>4, <1>5, <1>6 DEF SameView
  <2>. QED  BY <2>1, StutterView
<1>7. CASE ConfirmedAt(q)' # ConfirmedAt(q)
  <2>1. ConfirmedAt(q) => ConfirmedAt(q)'
    BY <1>2, <1>3 DEF ConfirmedAt
  <2>2. ConfirmedAt(q)' /\ ~ConfirmedAt(q)
    BY <1>7, <2>1 DEF ConfirmedAt
  <2>3. ConfirmedAt(q)' = TRUE
    BY <2>2 DEF ConfirmedAt
  <2>4. RowsOf(q) # {} /\ NewestRow(q) = i
    BY <1>2, <1>3, <2>2 DEF ConfirmedAt
  <2>5. PhaseAt(q) = "pending"
    BY <1>1, <2>4 DEF PhaseAt
  <2>6. /\ [k \in Keys |-> IntentAt(k)]' = [k \in Keys |-> IntentAt(k)]
        /\ [k \in Keys |-> PhaseAt(k)]' = [k \in Keys |-> PhaseAt(k)]
    BY <1>1, <1>4, <1>5, OneView
  <2>7. [k \in Keys |-> ConfirmedAt(k)]' = [[k \in Keys |-> ConfirmedAt(k)] EXCEPT ![q] = TRUE]
    BY <1>1, <1>4, <2>3, OneView
  <2>8. [k \in Keys |-> PhaseAt(k)][q] = "pending"
    BY <1>1, <2>5
  <2>9. Intent!Confirm(q)
    BY <2>6, <2>7, <2>8 DEF Intent!Confirm, IntentAt, PhaseAt, ConfirmedAt
  <2>. QED  BY <1>1, <2>9 DEF Intent!Next
<1>. QED  BY <1>6, <1>7

\* Every step of the pump, a handler, the kernel or a crash is a step of
\* KernelIntent or invisible there.
LEMMA StepMaps ==
    ASSUME IntentInv, IntentInv', [Next]_vars
    PROVE  [Intent!Next]_Intent!intentVars
<1>1. StoreInv /\ HasNewest
  BY DEF IntentInv, PumpInv
<1>2. CASE Untouched
  <2>1. CASE acks' = acks
    <3>1. \A k : RowsOf(k)' = RowsOf(k)
      BY <1>2 DEF Untouched, RowsOf
    <3>2. \A k \in Keys : SameView(k)
      BY <1>1, <1>2, <2>1, <3>1, ViewKept DEF Untouched
    <3>. QED  BY <3>2, StutterView
  <2>. QED  BY <2>1, AckStep, ConfirmMaps
<1>3. ASSUME NEW key \in Keys, NEW d \in Desired, Asked(key, d), acks' = acks
      PROVE  [Intent!Next]_Intent!intentVars
  BY <1>3, AskedMaps DEF Intent!Next
<1>4. ASSUME NEW i \in 1..Len(outbox), NEW row \in Row, Rewritten(i, row), acks' = acks,
             row.status = outbox[i].status
      PROVE  [Intent!Next]_Intent!intentVars
  <2>1. /\ outbox'[i] = row /\ \A j \in 1..Len(outbox) : j # i => outbox'[j] = outbox[j]
        /\ \A k : RowsOf(k)' = RowsOf(k)
    BY <1>1, <1>4, RewrittenRows
  <2>2. \A j \in 1..Len(outbox) :
            /\ outbox'[j].desired = outbox[j].desired /\ outbox'[j].status = outbox[j].status
            /\ outbox'[j].version = outbox[j].version
    BY <1>4, <2>1 DEF Rewritten
  <2>3. \A k \in Keys : RowsOf(k) # {} => NewestRow(k) \in 1..Len(outbox)
    BY <1>1, NewestIsThere
  <2>4. \A k \in Keys : SameView(k)
    BY <1>1, <1>4, <2>1, <2>2, <2>3, ViewKept
  <2>. QED  BY <2>4, StutterView
<1>5. ASSUME NEW i \in 1..Len(outbox), NEW row \in Row, Rewritten(i, row), acks' = acks,
             outbox[i].status = "pending", row.status = "failed"
      PROVE  [Intent!Next]_Intent!intentVars
  <2> SUFFICES ASSUME NEW q, q = outbox[i].key PROVE [Intent!Next]_Intent!intentVars
    OBVIOUS
  <2>1. /\ q \in Keys /\ PhaseAt(q) = "pending"
        /\ [k \in Keys |-> IntentAt(k)]' = [k \in Keys |-> IntentAt(k)]
        /\ [k \in Keys |-> PhaseAt(k)]' = [[k \in Keys |-> PhaseAt(k)] EXCEPT ![q] = "failed"]
        /\ [k \in Keys |-> ConfirmedAt(k)]' = [k \in Keys |-> ConfirmedAt(k)]
    BY <1>5, StatusMaps
  <2>2. [k \in Keys |-> PhaseAt(k)][q] = "pending"
    BY <2>1
  <2>3. Intent!GiveUp(q)
    BY <2>1, <2>2 DEF Intent!GiveUp, IntentAt, PhaseAt, ConfirmedAt
  <2>. QED  BY <2>1, <2>3 DEF Intent!Next
\* A landed row is current, so what the kernel confirmed is what the row holds.
<1>6. ASSUME RowLands, acks' = acks, Head1.id \in 1..Len(outbox),
             outbox[Head1.id].status = "pending", outbox[Head1.id].version = Head1.version,
             NEW row \in Row, Rewritten(Head1.id, row), row.status = "done"
      PROVE  [Intent!Next]_Intent!intentVars
  <2> SUFFICES ASSUME NEW i, i = Head1.id, NEW q, q = outbox[i].key
               PROVE  [Intent!Next]_Intent!intentVars
    OBVIOUS
  <2>0. i \in 1..Len(outbox) /\ outbox[i].status = "pending" /\ Rewritten(i, row)
    BY <1>6
  <2>1. /\ q \in Keys /\ PhaseAt(q) = "pending" /\ NewestRow(q) = i /\ RowsOf(q) # {}
        /\ [k \in Keys |-> IntentAt(k)]' = [k \in Keys |-> IntentAt(k)]
        /\ [k \in Keys |-> PhaseAt(k)]' = [[k \in Keys |-> PhaseAt(k)] EXCEPT ![q] = "done"]
        /\ [k \in Keys |-> ConfirmedAt(k)]' = [k \in Keys |-> ConfirmedAt(k)]
    BY <1>6, <2>0, StatusMaps
  <2>2. pc = "reply" /\ Faithful(outbox, Head1) /\ AckOf(Head1) \in acks
    BY <1>6, HeadFaithful DEF IntentInv, PumpInv, ReplyAcked, RowLands
  <2>3. AckOf(Head1) = [id |-> i, version |-> outbox[i].version, desired |-> outbox[i].desired]
    BY <1>6, <2>2 DEF AckOf, Faithful
  <2>4. ConfirmedAt(q)
    BY <2>1, <2>2, <2>3 DEF ConfirmedAt
  <2>5. [k \in Keys |-> PhaseAt(k)][q] = "pending" /\ [k \in Keys |-> ConfirmedAt(k)][q]
    BY <2>1, <2>4
  <2>6. Intent!Land(q)
    BY <2>1, <2>5 DEF Intent!Land, IntentAt, PhaseAt, ConfirmedAt
  <2>. QED  BY <2>1, <2>6 DEF Intent!Next
<1>. QED  BY <1>1, <1>2, <1>3, <1>4, <1>5, <1>6, StepShape

\* Nothing is asked for at first.
LEMMA InitMaps == Init => Intent!Init
<1> SUFFICES ASSUME Init PROVE Intent!Init
  OBVIOUS
<1>1. \A k : RowsOf(k) = {}
  BY DEF Init, StoreInit, RowsOf
<1>. QED  BY <1>1 DEF Intent!Init

\* ImplementsIntent: the pump over the store implements KernelIntent, for any
\* Routines, Reviews, generations, faults and kernel-side changes.
THEOREM PumpImplementsIntent == Spec => ImplementsIntent
<1>1. IntentInv /\ IntentInv' /\ [Next]_vars => [Intent!Next]_Intent!intentVars
  BY StepMaps
<1>. QED  BY <1>1, InitMaps, IntentInvariant, PTL DEF Spec, ImplementsIntent, Intent!Spec

-----------------------------------------------------------------------------
(* What the kernel holds *)

\* The schedule is the one the desired state asks for.
Holds(schedule, desired) ==
    /\ desired.kind = "scheduler.upsert" =>
        /\ schedule.present /\ ~schedule.disabled
        /\ schedule.spec = desired.payload /\ schedule.enabled = desired.enabled
    /\ desired.kind = "scheduler.delete" => ~schedule.present

\* A kernel that executes nothing late has nothing late to execute.
NoLate == ~LateEffects => late = {}

\* Between the recall and the remember call the Review has no memory.
RecalledFresh ==
    pc = "recalled" => /\ Head1.desired.kind = "memory.remember"
                       /\ ~LateEffects => memories[Head1.key] = 0

\* From its confirmation until it is written back, the row at hand is held.
ReplyMirrored ==
    /\ ~LateEffects /\ drifts = 0
    /\ pc = "reply" /\ reply \in {"ok", "not_found"} /\ Head1.key \in RoutineIds
    => Holds(schedules[Head1.key], Head1.desired)

\* The inductive invariant about the kernel, next to IntentInv.
KernelInv ==
    NoLate /\ RecalledFresh /\ RememberedAtMostOnce /\ ReplyMirrored /\ SettledMeansMirrored

\* Without late effects the kernel's tables change by drift, or by the call in
\* flight while its row waits.
LEMMA KernelStep ==
    ASSUME NoLate, ~LateEffects, [Next]_vars
    PROVE  /\ late' = {}
           /\ drifts' = drifts \/ (KernelDrifts /\ UNCHANGED <<storeVars, pumpVars, memories>>)
           /\ \/ KernelDrifts
              \/ UNCHANGED <<schedules, memories>>
              \/ /\ Executed(CallOf(Head1)) /\ UNCHANGED storeVars
                 /\ pc' # "recalled"
                 /\ pc = "recalled" \/ (pc = "sent" /\ Head1.desired.kind # "memory.remember")
<1>0. late = {}
  BY DEF NoLate
<1>1. CASE KernelAnswers
  BY <1>0, <1>1 DEF KernelAnswers, SchedulerAnswers, RecallAnswers, RememberAnswers, ListAnswers,
              CallFails, Answered, Uncertain, NotExecuted, kernelVars, bounds
<1>2. CASE PumpStep
  BY <1>0, <1>2 DEF PumpStep, Wake, SkipStaleRow, SkipUnserved, PostponeUnknownKind, SendRow, RowLands,
         RowRevoked, RowConnectionLost, RowFailsForGood, RowBacksOff, RowRetriesOrExhausts,
         DrainEnds, Correct, SyncSuspended, kernelVars, bounds
<1>3. CASE UNCHANGED vars
  BY <1>0, <1>3 DEF vars, kernelVars, bounds
<1>4. CASE Crash
  BY <1>0, <1>4 DEF Crash, Uncertain, NotExecuted, kernelVars
<1>5. CASE KernelDrifts
  BY <1>0, <1>5 DEF KernelDrifts
<1>6. CASE HttpEdit \/ RowBecomesDue \/ FullBecomesDue \/ LateCallExecuted
           \/ GenerationEnds \/ StartGeneration \/ DrainStoreFails \/ ListFails \/ FullStoreFails
  BY <1>0, <1>6 DEF HttpEdit, RowBecomesDue, FullBecomesDue, LateCallExecuted,
         GenerationEnds, StartGeneration, DrainStoreFails, ListFails, FullStoreFails, kernelVars, bounds
<1>. QED  BY <1>1, <1>2, <1>3, <1>4, <1>5, <1>6 DEF Next

\* After a scheduler call the kernel holds what it asked for, and no other
\* schedule has changed.
LEMMA ExecutedHolds ==
    ASSUME KernelTypes, NEW call \in Call, Executed(call)
    PROVE  /\ call.key \in ScheduleIds => Holds(schedules'[call.key], call.desired)
           /\ \A k \in ScheduleIds : k # call.key => schedules'[k] = schedules[k]
           /\ call.desired.kind # "memory.remember" => memories' = memories
           /\ \A v \in ReviewIds : memories'[v] = memories[v] \/
                (v = call.key /\ memories'[v] = memories[v] + 1)
<1>1. /\ call.desired.kind # "memory.remember" => memories' = memories
      /\ \A v \in ReviewIds : memories'[v] = memories[v] \/
                (v = call.key /\ memories'[v] = memories[v] + 1)
  BY DEF Executed, MemoriesAfter, KernelTypes
<1>2. CASE call.desired.kind = "scheduler.upsert"
  <2> DEFINE x == [present |-> TRUE, spec |-> call.desired.payload, enabled |-> call.desired.enabled,
                   suspended |-> schedules[call.key].suspended, disabled |-> FALSE]
  <2>1. schedules' = [schedules EXCEPT ![call.key] = x]
    BY <1>2 DEF Executed, ScheduleAfter
  <2>2. Holds(x, call.desired)
    BY <1>2 DEF Holds
  <2> HIDE DEF x
  <2>. QED  BY <1>1, <2>1, <2>2 DEF KernelTypes
<1>3. CASE call.desired.kind = "scheduler.delete"
  <2>1. schedules' = [schedules EXCEPT ![call.key] = NoSchedule]
    BY <1>3 DEF Executed, ScheduleAfter
  <2>2. Holds(NoSchedule, call.desired)
    BY <1>3 DEF Holds, NoSchedule
  <2>. QED  BY <1>1, <2>1, <2>2 DEF KernelTypes
<1>4. CASE call.desired.kind \notin {"scheduler.upsert", "scheduler.delete"}
  BY <1>1, <1>4 DEF Executed, ScheduleAfter, Holds
<1>. QED  BY <1>2, <1>3, <1>4

\* Nobody else mints a memory between recall and remember.
LEMMA RecalledFreshKept ==
    ASSUME PumpInv, NoLate, RecalledFresh, [Next]_vars
    PROVE  RecalledFresh'
<1> SUFFICES ASSUME pc' = "recalled"
             PROVE  /\ Head1'.desired.kind = "memory.remember"
                    /\ ~LateEffects => memories'[Head1'.key] = 0
  BY DEF RecalledFresh
<1>1. pc \in {"sent", "recalled", "reply"} /\ batch' = batch /\ Head1' = Head1
  BY InFlightCases DEF SendRow, Head1
<1>2. CASE RecallAnswers
  BY <1>1, <1>2 DEF RecallAnswers, Answered, kernelVars
<1>3. CASE ~RecallAnswers
  <2>1. pc = "recalled"
    <3>1. CASE KernelAnswers
      BY <1>3, <3>1 DEF KernelAnswers, SchedulerAnswers, RememberAnswers, ListAnswers, CallFails, Answered
    <3>2. CASE PumpStep
      BY <3>2 DEF PumpStep, Wake, SkipStaleRow, SkipUnserved, PostponeUnknownKind, SendRow, RowLands,
         RowRevoked, RowConnectionLost, RowFailsForGood, RowBacksOff, RowRetriesOrExhausts,
         DrainEnds, Correct, SyncSuspended, NextRow, StopBatch, PumpStops, FullEnds
    <3>3. CASE UNCHANGED vars
      BY <3>3 DEF vars, pumpVars
    <3>4. CASE ~KernelAnswers /\ ~PumpStep /\ Next
      BY <3>4 DEF Next, HttpEdit, RowBecomesDue, FullBecomesDue, KernelDrifts, LateCallExecuted, Crash,
         GenerationEnds, StartGeneration, DrainStoreFails, ListFails, FullStoreFails, pumpVars,
         StopBatch, PumpStops, FullEnds
    <3>. QED  BY <3>1, <3>2, <3>3, <3>4
  <2>2. ~LateEffects => memories' = memories
    BY KernelStep DEF KernelDrifts
  <2>. QED  BY <1>1, <2>1, <2>2 DEF RecalledFresh
<1>. QED  BY <1>2, <1>3

\* So remember mints at most one.
LEMMA RememberedKept ==
    ASSUME PumpInv, NoLate, RecalledFresh, RememberedAtMostOnce, [Next]_vars
    PROVE  RememberedAtMostOnce'
<1> SUFFICES ASSUME ~LateEffects, NEW v \in ReviewIds PROVE memories'[v] <= 1
  BY DEF RememberedAtMostOnce
<1>1. memories[v] <= 1
  BY DEF RememberedAtMostOnce
<1>2. CASE memories' = memories
  BY <1>1, <1>2
<1>3. CASE /\ Executed(CallOf(Head1))
           /\ pc = "recalled" \/ (pc = "sent" /\ Head1.desired.kind # "memory.remember")
  <2>1. CallOf(Head1) \in Call /\ KernelTypes
    BY <1>3, HeadTypes DEF PumpInv, Typed
  <2>2. /\ CallOf(Head1).key = Head1.key /\ CallOf(Head1).desired = Head1.desired
    BY DEF CallOf
  <2>3. CASE pc = "recalled"
    <3>1. memories[Head1.key] = 0
      BY <2>3 DEF RecalledFresh
    <3>2. memories'[v] = memories[v] \/ (v = Head1.key /\ memories'[v] = memories[v] + 1)
      BY <1>3, <2>1, <2>2, ExecutedHolds
    <3>. QED  BY <1>1, <3>1, <3>2
  <2>4. CASE pc # "recalled"
    <3>1. memories' = memories
      BY <1>3, <2>1, <2>2, <2>4, ExecutedHolds
    <3>. QED  BY <1>1, <3>1
  <2>. QED  BY <2>3, <2>4
<1>. QED  BY <1>2, <1>3, KernelStep DEF KernelDrifts

\* A confirmed call stays in force until it is written back.
LEMMA ReplyMirroredKept ==
    ASSUME PumpInv, NoLate, RecalledFresh, ReplyMirrored, [Next]_vars
    PROVE  ReplyMirrored'
<1> SUFFICES ASSUME ~LateEffects, drifts' = 0, pc' = "reply", reply' \in {"ok", "not_found"},
                    Head1'.key \in RoutineIds
             PROVE  Holds(schedules'[Head1'.key], Head1'.desired)
  BY DEF ReplyMirrored
<1>1. pc \in {"sent", "recalled", "reply"} /\ batch' = batch /\ Head1' = Head1
  BY InFlightCases DEF SendRow, Head1
<1>2. Head1 \in OutboxRow /\ CallOf(Head1) \in Call /\ KernelTypes
  BY <1>1, HeadTypes DEF PumpInv, Typed
<1>3. /\ CallOf(Head1).key = Head1.key /\ CallOf(Head1).desired = Head1.desired
      /\ Head1.key \in ScheduleIds
  BY <1>1 DEF CallOf, ScheduleIds
<1>4. CASE Executed(CallOf(Head1))
  BY <1>1, <1>2, <1>3, <1>4, ExecutedHolds
<1>5. CASE KernelAnswers /\ ~Executed(CallOf(Head1))
  <2>1. RecallAnswers
    BY <1>5 DEF KernelAnswers, SchedulerAnswers, RememberAnswers, ListAnswers, CallFails, Answered
  <2>2. Head1.desired.kind = "memory.remember"
    BY <2>1 DEF RecallAnswers
  <2>. QED  BY <1>1, <2>2 DEF Holds
<1>6. CASE ~KernelAnswers /\ ~Executed(CallOf(Head1))
  <2>1. pc = "reply" /\ reply' = reply
    <3>1. CASE PumpStep
      BY <3>1 DEF PumpStep, Wake, SkipStaleRow, SkipUnserved, PostponeUnknownKind, SendRow, RowLands,
         RowRevoked, RowConnectionLost, RowFailsForGood, RowBacksOff, RowRetriesOrExhausts,
         DrainEnds, Correct, SyncSuspended, NextRow, StopBatch, PumpStops, FullEnds
    <3>2. CASE UNCHANGED vars
      BY <3>2 DEF vars, pumpVars
    <3>3. CASE ~PumpStep /\ Next
      BY <1>6, <3>3 DEF Next, HttpEdit, RowBecomesDue, FullBecomesDue, KernelDrifts, LateCallExecuted, Crash,
         GenerationEnds, StartGeneration, DrainStoreFails, ListFails, FullStoreFails, pumpVars,
         StopBatch, PumpStops, FullEnds
    <3>. QED  BY <3>1, <3>2, <3>3
  <2>2. ~KernelDrifts
    <3>1. drifts \in Nat
      BY DEF PumpInv, Typed, BoundTypes
    <3>. QED  BY <3>1 DEF KernelDrifts
  <2>3. drifts = 0 /\ schedules' = schedules
    BY <1>6, <2>2, KernelStep
  <2>. QED  BY <1>1, <2>1, <2>3 DEF ReplyMirrored
<1>. QED  BY <1>4, <1>5, <1>6

\* A Routine without a live row had none before, and was not edited; or its row
\* has just landed.
LEMMA SettledCases ==
    ASSUME PumpInv, StoreInv', [Next]_vars, NEW r \in RoutineIds, LiveRows(outbox', r) = {}
    PROVE  /\ DesiredOf(r)' = DesiredOf(r)
           /\ \/ LiveRows(outbox, r) = {}
              \/ /\ RowLands /\ Head1.id \in LiveRows(outbox, r)
                 /\ outbox[Head1.id].version = Head1.version
<1>1. StoreInv
  BY DEF PumpInv
<1>2. CASE Untouched
  BY <1>2 DEF Untouched
<1>3. ASSUME NEW key \in Keys, NEW d \in Desired, Asked(key, d)
      PROVE  DesiredOf(r)' = DesiredOf(r) /\ LiveRows(outbox, r) = {}
  <2>1. r # key
    BY <1>1, <1>3, AskedRows
  <2>. QED  BY <1>1, <1>3, <2>1, AskedRows DEF Asked
<1>4. ASSUME NEW i \in 1..Len(outbox), NEW row \in Row, Rewritten(i, row), row.status # "done"
      PROVE  DesiredOf(r)' = DesiredOf(r) /\ LiveRows(outbox, r) = {}
  <2>1. /\ Len(outbox') = Len(outbox) /\ outbox'[i] = row
        /\ \A j \in 1..Len(outbox) : j # i => outbox'[j] = outbox[j]
        /\ DesiredOf(r)' = DesiredOf(r)
    BY <1>1, <1>4, RewrittenRows
  <2>2. row.key = outbox[i].key /\ row.status \in {"pending", "failed"}
    BY <1>4 DEF Rewritten, Row
  <2>3. LiveRows(outbox, r) \subseteq LiveRows(outbox', r)
    BY <2>1, <2>2 DEF LiveRows, IsLive
  <2>. QED  BY <2>1, <2>3
<1>5. ASSUME NEW i \in 1..Len(outbox), NEW row \in Row, Rewritten(i, row), row.status = outbox[i].status
      PROVE  DesiredOf(r)' = DesiredOf(r) /\ LiveRows(outbox, r) = {}
  <2>1. /\ Len(outbox') = Len(outbox) /\ outbox'[i] = row
        /\ \A j \in 1..Len(outbox) : j # i => outbox'[j] = outbox[j]
        /\ DesiredOf(r)' = DesiredOf(r)
    BY <1>1, <1>5, RewrittenRows
  <2>2. LiveRows(outbox, r) \subseteq LiveRows(outbox', r)
    BY <1>5, <2>1 DEF LiveRows, IsLive, Rewritten
  <2>. QED  BY <2>1, <2>2
<1>6. ASSUME RowLands, Head1.id \in 1..Len(outbox), outbox[Head1.id].status = "pending",
             outbox[Head1.id].version = Head1.version,
             NEW row \in Row, Rewritten(Head1.id, row)
      PROVE  /\ DesiredOf(r)' = DesiredOf(r)
             /\ \/ LiveRows(outbox, r) = {}
                \/ /\ RowLands /\ Head1.id \in LiveRows(outbox, r)
                   /\ outbox[Head1.id].version = Head1.version
  <2>1. DesiredOf(r)' = DesiredOf(r)
        /\ (r # row.key => LiveRows(outbox', r) = LiveRows(outbox, r))
    BY <1>1, <1>6, RewrittenRows
  <2>2. CASE r = row.key
    <3>1. Head1.id \in LiveRows(outbox, r)
      BY <1>6, <2>2 DEF LiveRows, IsLive, Rewritten
    <3>. QED  BY <1>6, <2>1, <3>1
  <2>. QED  BY <2>1, <2>2
<1>. QED  BY <1>1, <1>2, <1>3, <1>4, <1>5, <1>6, StepShape

\* A Routine whose last row landed is mirrored, and nothing reaches the kernel
\* for it without a live row.
LEMMA SettledKept ==
    ASSUME IntentInv, KernelInv, StoreInv', [Next]_vars
    PROVE  SettledMeansMirrored'
<1> SUFFICES ASSUME ~LateEffects, drifts' = 0, NEW r \in RoutineIds, LiveRows(outbox', r) = {}
             PROVE  Mirrored(r)'
  BY DEF SettledMeansMirrored
<1>1. PumpInv /\ KernelTypes /\ drifts \in Nat /\ r \in ScheduleIds
  BY DEF IntentInv, PumpInv, Typed, BoundTypes, ScheduleIds
<1>2. ~KernelDrifts
  BY <1>1 DEF KernelDrifts
<1>3. drifts = 0
  BY <1>2, KernelStep DEF KernelInv
<1>4. DesiredOf(r)' = DesiredOf(r)
  BY <1>1, SettledCases
<1>5. CASE LiveRows(outbox, r) = {}
  <2>1. Mirrored(r)
    BY <1>3, <1>5 DEF KernelInv, SettledMeansMirrored
  <2>2. schedules'[r] = schedules[r]
    <3>1. CASE /\ Executed(CallOf(Head1)) /\ UNCHANGED storeVars
               /\ pc = "recalled" \/ (pc = "sent" /\ Head1.desired.kind # "memory.remember")
      <4>1. CallOf(Head1) \in Call /\ CallOf(Head1).key = Head1.key
        BY <1>1, <3>1, HeadTypes DEF PumpInv, Typed, CallOf
      <4>2. Head1.id \in LiveRows(outbox, Head1.key)
        BY <1>1, <3>1, HeadFaithful DEF IntentInv, InFlight, Faithful, LiveRows, IsLive
      <4>3. r # Head1.key
        BY <1>5, <4>2
      <4>. QED  BY <1>1, <3>1, <4>1, <4>3, ExecutedHolds
    <3>. QED  BY <1>2, <3>1, KernelStep DEF KernelInv
  <2>. QED  BY <1>4, <2>1, <2>2 DEF Mirrored
<1>6. CASE /\ RowLands /\ Head1.id \in LiveRows(outbox, r)
           /\ outbox[Head1.id].version = Head1.version
  <2>1. schedules' = schedules /\ pc = "reply" /\ reply \in {"ok", "not_found"}
    BY <1>6 DEF RowLands, kernelVars
  <2>2. Faithful(outbox, Head1)
    BY <1>1, <2>1, HeadFaithful
  <2>3. Head1.key = r /\ Head1.desired = outbox[Head1.id].desired
    BY <1>6, <2>2 DEF Faithful, LiveRows, IsLive
  <2>4. Head1.desired = DesiredOf(r)
    BY <1>6, <2>3 DEF IntentInv, LiveAsks
  <2>5. Holds(schedules[r], DesiredOf(r))
    BY <1>3, <2>1, <2>3, <2>4 DEF KernelInv, ReplyMirrored
  <2>6. DesiredOf(r).kind \in {"scheduler.upsert", "scheduler.delete"}
    BY DEF DesiredOf, routine_outbox_upsert_desired, routine_outbox_delete_desired
  <2>. QED  BY <1>4, <2>1, <2>5, <2>6 DEF Holds, Mirrored
<1>. QED  BY <1>1, <1>5, <1>6, SettledCases

\* Every step keeps KernelInv.
LEMMA KernelInvStep == IntentInv /\ KernelInv /\ [Next]_vars => KernelInv'
<1> SUFFICES ASSUME IntentInv, KernelInv, [Next]_vars PROVE KernelInv'
  OBVIOUS
<1>1. PumpInv /\ StoreInv'
  BY StoreInvStep DEF IntentInv, PumpInv
<1>2. NoLate'
  BY KernelStep DEF KernelInv, NoLate
<1>. QED  BY <1>1, <1>2, RecalledFreshKept, RememberedKept, ReplyMirroredKept, SettledKept
          DEF KernelInv

\* It holds initially.
LEMMA InitKernelInv == Init => KernelInv
<1> SUFFICES ASSUME Init PROVE KernelInv
  OBVIOUS
<1>1. late = {} /\ pc = "down" /\ memories = [v \in ReviewIds |-> 0]
  BY DEF Init
<1>2. NoLate /\ RecalledFresh /\ ReplyMirrored /\ RememberedAtMostOnce
  BY <1>1 DEF NoLate, RecalledFresh, ReplyMirrored, RememberedAtMostOnce
<1>3. ASSUME NEW r \in RoutineIds PROVE Mirrored(r)
  <2>1. r \in ScheduleIds /\ r \notin OrphanIds
    BY OutboxAssumption DEF ScheduleIds
  <2>2. schedules[r] = NoSchedule
    BY <2>1 DEF Init
  <2>3. DesiredOf(r) = routine_outbox_delete_desired
    BY DEF Init, StoreInit, DesiredOf
  <2>. QED  BY <2>2, <2>3 DEF Mirrored, NoSchedule, routine_outbox_delete_desired
<1>. QED  BY <1>2, <1>3 DEF KernelInv, SettledMeansMirrored

\* What the kernel holds, next to what the outbox says.
THEOREM KernelInvariant == Spec => []KernelInv
<1>1. Init => IntentInv /\ KernelInv
  BY InitIntentInv, InitKernelInv
<1>2. (IntentInv /\ KernelInv) /\ [Next]_vars => (IntentInv /\ KernelInv)'
  BY IntentInvStep, KernelInvStep
<1>. QED  BY <1>1, <1>2, PTL DEF Spec

\* SettledMeansMirrored: with no row of a Routine left to land, the kernel holds
\* the Routine, for any number of edits, generations, faults and crashes.
THEOREM SettledRoutinesAreMirrored == Spec => []SettledMeansMirrored
<1>1. KernelInv => SettledMeansMirrored
  BY DEF KernelInv
<1>. QED  BY <1>1, KernelInvariant, PTL

\* RememberedAtMostOnce: recall before remember keeps a retried remember call
\* from minting a second memory, for any number of retries and generations.
THEOREM ReviewsRememberedAtMostOnce == Spec => []RememberedAtMostOnce
<1>1. KernelInv => RememberedAtMostOnce
  BY DEF KernelInv
<1>. QED  BY <1>1, KernelInvariant, PTL

-----------------------------------------------------------------------------
(* The theorems *)

\* drain_pending marks a row done only for the very version and desired state
\* the kernel confirmed, however edits, crashes and retries interleave.
THEOREM DoneRowsWereAcked == Spec => []DoneMeansAcked
<1>1. PumpInv => DoneMeansAcked
  BY DEF PumpInv
<1>. QED  BY <1>1, PumpInvariant, PTL

\* With the pump running, the newest row of a Routine is still its intent.
THEOREM ReconcilerKeepsIntent == Spec => []NewestRowIsCurrentIntent
BY PumpKeepsStore, StoreInvImplies, PTL

\* With the pump running, a key still has at most one live row, its last.
THEOREM ReconcilerLiveRowIsNewest == Spec => []LiveRowIsNewest
BY PumpKeepsStore, StoreInvImplies, PTL

\* With the pump running, a finalized Review stays exported as finalized.
THEOREM ReconcilerExportsReviews == Spec => []FinalizedReviewIsExported
BY PumpKeepsStore, StoreInvImplies, PTL
===============================================================================
