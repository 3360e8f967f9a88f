-------------------------------- MODULE Outbox --------------------------------
(***************************************************************************)
(* The store's half of "make the kernel match Sin90": the Routine and      *)
(* Review rows, the sin90_outbox table, and every transaction of           *)
(* store/repo.rs that writes them.  Each action is one BEGIN IMMEDIATE     *)
(* transaction (or one single-statement CAS), hence atomic.                *)
(*                                                                         *)
(* The write-backs outbox_mark_{done,retry,failed} take the row id and the *)
(* version their caller remembers.  Here the caller may remember anything: *)
(* what this module guarantees does not rest on how the pump behaves.      *)
(***************************************************************************)
EXTENDS Naturals, Sequences

CONSTANTS
    RoutineIds, \* the ids create_routine mints
    OrphanIds,  \* ids the kernel has a routine.<id> schedule for and the store has not
    ReviewIds,  \* the ids create_review mints
    Specs,      \* (cron, tz) pairs that pass validate_cron and validate_tz
    Bodies      \* Review bodies that are not blank

Blank == "blank"    \* the empty or whitespace-only body
Nothing == "none"   \* an absent payload, file or spec

ASSUME OutboxAssumption ==
    /\ RoutineIds \cap OrphanIds = {}
    /\ RoutineIds \cap ReviewIds = {}
    /\ OrphanIds \cap ReviewIds = {}
    /\ Blank \notin Bodies
    /\ Nothing \notin Bodies \cup Specs

\* dedup_key: routine:<id> or review:<id>.
Keys == RoutineIds \cup OrphanIds \cup ReviewIds

Kinds == {"scheduler.upsert", "scheduler.delete", "memory.remember"}

\* The kind and desired columns together: what the kernel is asked to hold.
Desired == [kind : Kinds, payload : Specs \cup Bodies \cup {Nothing}, enabled : BOOLEAN]

Row == [key : Keys, desired : Desired, status : {"pending", "done", "failed"},
        version : Nat \ {0}, otherBucket : Nat, waiting : BOOLEAN]

VARIABLES
    routines,   \* sin90_routines: status and spec of each id
    suspendedNotice, \* ids whose kernel_suspended_at is set
    reviews,    \* sin90_reviews: status and body of each id
    markdown,   \* the exported reviews/<kind>/<period>.md of each Review
    outbox      \* sin90_outbox, in rowid order; a row's id is its position

storeVars == <<routines, suspendedNotice, reviews, markdown, outbox>>

StoreTypeOK ==
    /\ routines \in [RoutineIds -> [status : {"absent", "active", "paused", "retired"},
                                    spec : Specs \cup {Nothing}]]
    /\ suspendedNotice \in SUBSET RoutineIds
    /\ reviews \in [ReviewIds -> [status : {"absent", "draft", "finalized"},
                                  body : Bodies \cup {Blank}]]
    /\ markdown \in [ReviewIds -> Bodies \cup {Blank, Nothing}]
    /\ outbox \in Seq(Row)

StoreInit ==
    /\ routines = [r \in RoutineIds |-> [status |-> "absent", spec |-> Nothing]]
    /\ suspendedNotice = {}
    /\ reviews = [v \in ReviewIds |-> [status |-> "absent", body |-> Blank]]
    /\ markdown = [v \in ReviewIds |-> Nothing]
    /\ outbox = <<>>

-----------------------------------------------------------------------------
(* Desired states *)

routine_outbox_upsert_desired(spec, enabled) ==
    [kind |-> "scheduler.upsert", payload |-> spec, enabled |-> enabled]

routine_outbox_delete_desired ==
    [kind |-> "scheduler.delete", payload |-> Nothing, enabled |-> FALSE]

review_remember_desired(body) ==
    [kind |-> "memory.remember", payload |-> body, enabled |-> FALSE]

(* upsert_outbox: the newest pending or failed row of the key is overwritten *)
(* in place under the next version; a done row is history, so without a live *)
(* row a fresh one is inserted at version 1.                                 *)

IsLive(row, key) == row.key = key /\ row.status \in {"pending", "failed"}

LiveRows(o, key) == {i \in 1..Len(o) : IsLive(o[i], key)}

Newest(S) == CHOOSE i \in S : \A j \in S : j <= i

\* A row that has yet to be sent: no attempt counted, no backoff running.
FreshRow(key, desired, version) ==
    [key |-> key, desired |-> desired, status |-> "pending", version |-> version,
     otherBucket |-> 0, waiting |-> FALSE]

\* Mutant: a failed row is history too.
upsert_outbox_pending_only(o, key, desired) ==
    LET pending == {i \in LiveRows(o, key) : o[i].status = "pending"}
    IN  IF pending = {}
        THEN Append(o, FreshRow(key, desired, 1))
        ELSE [o EXCEPT ![Newest(pending)] = FreshRow(key, desired, @.version + 1)]

\* Mutant: the row is overwritten under its old version.
upsert_outbox_same_version(o, key, desired) ==
    IF LiveRows(o, key) = {}
    THEN Append(o, FreshRow(key, desired, 1))
    ELSE [o EXCEPT ![Newest(LiveRows(o, key))] = FreshRow(key, desired, @.version)]

upsert_outbox(o, key, desired) ==
    IF LiveRows(o, key) = {}
    THEN Append(o, FreshRow(key, desired, 1))
    ELSE LET i == Newest(LiveRows(o, key))
         IN  [o EXCEPT ![i] = FreshRow(key, desired, o[i].version + 1)]

-----------------------------------------------------------------------------
(* Routines *)

create_routine(r, spec) ==
    /\ routines[r].status = "absent"
    /\ routines' = [routines EXCEPT ![r] = [status |-> "active", spec |-> spec]]
    /\ outbox' = upsert_outbox(outbox, r, routine_outbox_upsert_desired(spec, TRUE))
    /\ UNCHANGED <<suspendedNotice, reviews, markdown>>

\* A patch that moves cron or tz.  A retired or unknown Routine is refused and
\* a patch that restates the spec (or only moves the title or a target) leaves
\* everything modelled here alone.
update_routine(r, spec) ==
    /\ routines[r].status \in {"active", "paused"}
    /\ spec # routines[r].spec
    /\ routines' = [routines EXCEPT ![r].spec = spec]
    /\ outbox' = upsert_outbox(outbox, r,
                    routine_outbox_upsert_desired(spec, routines[r].status = "active"))
    /\ UNCHANGED <<suspendedNotice, reviews, markdown>>

routine_transition_allowed(from, to) ==
    <<from, to>> \in {<<"active", "paused">>, <<"paused", "active">>,
                      <<"active", "retired">>, <<"paused", "retired">>}

transition_routine(r, to) ==
    /\ routine_transition_allowed(routines[r].status, to)
    /\ routines' = [routines EXCEPT ![r].status = to]
    /\ outbox' = upsert_outbox(outbox, r,
                    IF to = "retired"
                    THEN routine_outbox_delete_desired
                    ELSE routine_outbox_upsert_desired(routines[r].spec, to = "active"))
    /\ UNCHANGED <<suspendedNotice, reviews, markdown>>

-----------------------------------------------------------------------------
(* Reviews *)

create_review(v) ==
    /\ reviews[v].status = "absent"
    /\ reviews' = [reviews EXCEPT ![v].status = "draft"]
    /\ UNCHANGED <<routines, suspendedNotice, markdown, outbox>>

update_review_body(v, body) ==
    /\ reviews[v].status = "draft"
    /\ body # reviews[v].body
    /\ reviews' = [reviews EXCEPT ![v].body = body]
    /\ UNCHANGED <<routines, suspendedNotice, markdown, outbox>>

\* The export replaces whatever file is there, or fails and leaves it.
write_markdown_atomic(v) == markdown' = [markdown EXCEPT ![v] = reviews[v].body]

\* Mutant: a file that is there already is kept.
finalize_review_keeps_file(v) ==
    /\ reviews[v].status = "draft"
    /\ markdown' = [markdown EXCEPT ![v] = IF @ = Nothing THEN reviews[v].body ELSE @]
    /\ reviews' = [reviews EXCEPT ![v].status = "finalized"]
    /\ outbox' = IF reviews[v].body = Blank
                 THEN outbox
                 ELSE upsert_outbox(outbox, v, review_remember_desired(reviews[v].body))
    /\ UNCHANGED <<routines, suspendedNotice>>

\* The file is written before the UPDATE, the event, the memory.remember row
\* (skipped for a blank body) and the commit.
finalize_review(v) ==
    /\ reviews[v].status = "draft"
    /\ write_markdown_atomic(v)
    /\ reviews' = [reviews EXCEPT ![v].status = "finalized"]
    /\ outbox' = IF reviews[v].body = Blank
                 THEN outbox
                 ELSE upsert_outbox(outbox, v, review_remember_desired(reviews[v].body))
    /\ UNCHANGED <<routines, suspendedNotice>>

\* finalize_review when the commit (or anything after the file) fails, or the
\* process dies there: SQLite rolls back, the file stays.
finalize_review_aborts(v) ==
    /\ reviews[v].status = "draft"
    /\ write_markdown_atomic(v)
    /\ UNCHANGED <<routines, suspendedNotice, reviews, outbox>>

-----------------------------------------------------------------------------
(* The reconciler's transactions *)

\* Mutant: the version is not compared.
outbox_row_is_pending(i, version) ==
    /\ i \in 1..Len(outbox)
    /\ outbox[i].status = "pending"

outbox_row_is_current(i, version) ==
    /\ i \in 1..Len(outbox)
    /\ outbox[i].status = "pending"
    /\ outbox[i].version = version

\* Mutant: UPDATE ... WHERE id = ?.
WriteBack_by_id(i, version, row) ==
    /\ outbox' = [outbox EXCEPT ![i] = row]
    /\ UNCHANGED <<routines, suspendedNotice, reviews, markdown>>

\* Every write-back is UPDATE ... WHERE id = ? AND status = 'pending' AND
\* version = ?, a silent no-op when the row has moved on.
WriteBack(i, version, row) ==
    /\ outbox' = IF outbox_row_is_current(i, version)
                 THEN [outbox EXCEPT ![i] = row]
                 ELSE outbox
    /\ UNCHANGED <<routines, suspendedNotice, reviews, markdown>>

outbox_mark_done(i, version) ==
    WriteBack(i, version, [outbox[i] EXCEPT !.status = "done"])

outbox_mark_retry(i, version, bump_other_bucket) ==
    WriteBack(i, version,
        [outbox[i] EXCEPT !.waiting = TRUE,
            !.otherBucket = IF bump_other_bucket THEN @ + 1 ELSE @])

outbox_mark_failed(i, version) ==
    WriteBack(i, version, [outbox[i] EXCEPT !.status = "failed", !.waiting = FALSE])

\* Mutant: a failed row counts as pending.
HasLive(key) == LiveRows(outbox, key) # {}

HasPending(key) ==
    \E i \in 1..Len(outbox) : outbox[i].key = key /\ outbox[i].status = "pending"

\* Mutant: what the caller saw is taken for the present state.
outbox_enqueue_upsert_unchecked(r) ==
    /\ outbox' = upsert_outbox(outbox, r,
                    routine_outbox_upsert_desired(routines[r].spec,
                                                  routines[r].status = "active"))
    /\ UNCHANGED <<routines, suspendedNotice, reviews, markdown>>

\* Full reconcile's correction: the Routine is read again under the write
\* lock; gone, retired or already pending means no write.
outbox_enqueue_upsert_for_routine(r) ==
    /\ outbox' = IF routines[r].status \in {"absent", "retired"} \/ HasPending(r)
                 THEN outbox
                 ELSE upsert_outbox(outbox, r,
                        routine_outbox_upsert_desired(routines[r].spec,
                                                      routines[r].status = "active"))
    /\ UNCHANGED <<routines, suspendedNotice, reviews, markdown>>

outbox_enqueue_delete_for_orphan(k) ==
    /\ outbox' = IF \/ k \in RoutineIds /\ routines[k].status \in {"active", "paused"}
                    \/ HasPending(k)
                 THEN outbox
                 ELSE upsert_outbox(outbox, k, routine_outbox_delete_desired)
    /\ UNCHANGED <<routines, suspendedNotice, reviews, markdown>>

\* Mutant: the column is not cleared first.
sync_kernel_suspended_adds(ids) ==
    /\ suspendedNotice' = suspendedNotice \cup ids
    /\ UNCHANGED <<routines, reviews, markdown, outbox>>

\* The whole column is cleared and set again for the ids observed.
sync_kernel_suspended_routines(ids) ==
    /\ suspendedNotice' = ids
    /\ UNCHANGED <<routines, reviews, markdown, outbox>>

\* next_attempt_at of a retried row passes.
BackoffElapses(i) ==
    /\ i \in 1..Len(outbox)
    /\ outbox[i].waiting
    /\ outbox' = [outbox EXCEPT ![i].waiting = FALSE]
    /\ UNCHANGED <<routines, suspendedNotice, reviews, markdown>>

-----------------------------------------------------------------------------
\* What the HTTP handlers do to the store.
Edit ==
    \/ \E r \in RoutineIds, s \in Specs : create_routine(r, s) \/ update_routine(r, s)
    \/ \E r \in RoutineIds, to \in {"active", "paused", "retired"} : transition_routine(r, to)
    \/ \E v \in ReviewIds : create_review(v) \/ finalize_review(v) \/ finalize_review_aborts(v)
    \/ \E v \in ReviewIds, b \in Bodies \cup {Blank} : update_review_body(v, b)

\* What the reconciler does to it, with any id and any version it may have read.
Reconcile ==
    \/ \E i \in 1..Len(outbox) : \E n \in 1..outbox[i].version :
        \/ outbox_mark_done(i, n)
        \/ \E bump \in BOOLEAN : outbox_mark_retry(i, n, bump)
        \/ outbox_mark_failed(i, n)
    \/ \E r \in RoutineIds : outbox_enqueue_upsert_for_routine(r)
    \/ \E k \in RoutineIds \cup OrphanIds : outbox_enqueue_delete_for_orphan(k)
    \/ \E ids \in SUBSET RoutineIds : sync_kernel_suspended_routines(ids)

StoreNext ==
    \/ Edit
    \/ Reconcile
    \/ \E i \in 1..Len(outbox) : BackoffElapses(i)

StoreSpec == StoreInit /\ [][StoreNext]_storeVars

-----------------------------------------------------------------------------
(* What the store guarantees *)

\* The desired state a Routine's row stands for (absent and retired: no schedule).
DesiredOf(r) ==
    IF routines[r].status \in {"absent", "retired"}
    THEN routine_outbox_delete_desired
    ELSE routine_outbox_upsert_desired(routines[r].spec, routines[r].status = "active")

RowsOf(key) == {i \in 1..Len(outbox) : outbox[i].key = key}

\* N changes collapse onto one row: upsert_outbox never leaves two pending or
\* failed rows of one dedup_key, nor a done row after a live one, so no older
\* intent can be sent after a newer.
LiveRowIsNewest ==
    \A i, j \in 1..Len(outbox) :
        /\ outbox[i].key = outbox[j].key
        /\ IsLive(outbox[i], outbox[i].key)
        => j <= i

\* The Routine table and the outbox never disagree about what the kernel should
\* hold: every Routine that was created has an outbox row, and the newest one
\* asks for exactly the Routine's present state, whatever the interleaving of
\* edits, write-backs and full-reconcile corrections.
NewestRowIsCurrentIntent ==
    \A r \in RoutineIds :
        routines[r].status # "absent" =>
            \E i \in RowsOf(r) :
                /\ \A j \in RowsOf(r) : j <= i
                /\ outbox[i].desired = DesiredOf(r)

\* A finalized Review's exported file holds the body that was finalized, also
\* when an earlier attempt left an orphaned file of another draft behind; and
\* its memory.remember row, there unless the body is blank, summarises that body.
FinalizedReviewIsExported ==
    \A v \in ReviewIds :
        reviews[v].status = "finalized" =>
            /\ markdown[v] = reviews[v].body
            /\ (reviews[v].body = Blank) <=> (RowsOf(v) = {})
            /\ \A i \in RowsOf(v) : outbox[i].desired = review_remember_desired(reviews[v].body)
===============================================================================
