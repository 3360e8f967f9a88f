-------------------------------- MODULE HttpApi --------------------------------
(***************************************************************************)
(* The routes of the planning surface over the store: who may call what,   *)
(* every write a request makes, and the steps of the transaction that      *)
(* applies or tries out a batch.  SQLite has one writer: no request gets   *)
(* the lock while a batch holds it.  A request is answered by a process     *)
(* that has found the actor keys and serves.                                *)
(***************************************************************************)
EXTENDS Proposals, ActorKeys

VARIABLES
    actor,  \* on whose behalf the latest step was made
    pack    \* an install_seed_pack under way: what it has still to create

vars == <<areas, directions, weeks, tasks, rhythms, bodies, world,
          proposals, rejections, tx, actor, pack, keyVars>>

Actors == {"human", "automation", "ai"}

\* One Area with one opening Direction, as each entry of five_life_systems has.
five_life_systems == <<"area", "direction">>

NoPack == [todo |-> <<>>, area |-> None]

TypeOK ==
    /\ ProposalsTypeOK
    /\ actor \in Actors
    /\ pack.todo \in Seq({"area", "direction"})
    /\ pack.area \in Nat \cup {None}

\* A world in which nothing starts or stops begins with one process that serves,
\* with the pair it published.
AlreadyServing ==
    /\ keyfile = Pair(1) /\ mode = "0600"
    /\ temp = [p \in Procs |-> NoKeys]
    /\ minted = 1
    /\ LET one == CHOOSE p \in Procs : TRUE
       IN  proc = [p \in Procs |-> IF p = one THEN Served(Pair(1)) ELSE Down]

Init ==
    /\ ProposalsInit
    /\ actor = "human"
    /\ pack = NoPack
    /\ IF world.starts THEN KeysInit ELSE AlreadyServing

-----------------------------------------------------------------------------
(* The two keys.  The AI capabilities run inside the module and use neither. *)

\* The pairs clients may have been given: the file's, or an environment's.
Known == (Environments \ {NoKeys}) \cup (IF keyfile = NoKeys THEN {} ELSE {keyfile})

\* The one who holds a key sends it to a process that serves, which takes the
\* request for one of roles.
Request(roles) ==
    /\ \E p \in Procs :
          /\ Serving(p)
          /\ \E pair \in Known, holder \in Roles :
                identify(p, pair[holder]) \in roles /\ actor' = holder
    /\ UNCHANGED keyVars

\* Mutant: the automation key passes for the human one.
require_human_any == Request({"human", "automation"})

require_human == Request({"human"})

require_any_actor == Request({"human", "automation"})

\* A direct write of the store is one transaction of its own.
Alone == tx = Idle /\ UNCHANGED <<proposals, rejections, tx, world>>

post_areas(base) == require_human /\ Alone /\ create_area(base) /\ UNCHANGED pack

patch_area(a, to) == require_human /\ Alone /\ transition_area(a, to) /\ UNCHANGED pack

post_directions(area) == require_human /\ Alone /\ create_direction(area) /\ UNCHANGED pack

post_tasks(d, p) == require_human /\ Alone /\ create_task(d, p) /\ UNCHANGED pack

patch_task(t, to) == require_human /\ Alone /\ transition_task(t, to) /\ UNCHANGED pack

post_weeks(w) == require_human /\ Alone /\ create_week(w) /\ UNCHANGED pack

patch_week(w, to) == require_human /\ Alone /\ transition_week(w, to) /\ UNCHANGED pack

post_rhythms(alloc) == require_human /\ Alone /\ create_rhythm(alloc) /\ UNCHANGED pack

post_reviews(v) == require_human /\ Alone /\ create_review(v) /\ UNCHANGED pack

patch_review(v, body) == require_human /\ Alone /\ update_review_body(v, body) /\ UNCHANGED pack

post_finalize(v) == require_human /\ Alone /\ finalize_review(v) /\ UNCHANGED pack

\* A raw note: the one direct write the automation key may make.
capture == require_any_actor /\ Alone /\ create_task(None, None) /\ UNCHANGED pack

post_proposals(p, ops) ==
    require_any_actor /\ submit_proposal(p, ops) /\ UNCHANGED <<world, pack>>

post_accept(p) == require_human /\ apply_proposal(p) /\ UNCHANGED <<world, pack>>

post_reject(p) == require_human /\ reject_proposal(p) /\ UNCHANGED <<world, pack>>

\* A run of /ai/classify, /ai/summarize or /ai/propose hands in its draft.
ai_submit(cap, p, ops) ==
    actor' = "ai" /\ submit(cap, p, ops) /\ UNCHANGED <<world, pack, keyVars>>

\* Installing the seed pack is a request of several transactions: others come
\* between them, and a failure half way leaves what was created.
install_pack ==
    /\ pack = NoPack
    /\ require_human
    /\ world.areas > 0
    /\ pack' = [NoPack EXCEPT !.todo = five_life_systems]
    /\ UNCHANGED <<areas, directions, weeks, tasks, rhythms, bodies, world, proposals,
                   rejections, tx>>

install_seed_pack ==
    /\ pack.todo # <<>>
    /\ actor' = "human" /\ Alone /\ UNCHANGED keyVars
    /\ IF Head(pack.todo) = "area"
       THEN create_area(<<0>>) /\ pack' = [todo |-> Tail(pack.todo), area |-> Len(areas) + 1]
       ELSE create_direction(pack.area) /\ pack' = [pack EXCEPT !.todo = Tail(@)]

\* A transaction of the request fails, or the process dies: the request ends.
abandon_pack ==
    /\ pack.todo # <<>>
    /\ pack' = NoPack
    /\ UNCHANGED <<areas, directions, weeks, tasks, rhythms, bodies, world, proposals,
                   rejections, tx, actor, keyVars>>

-----------------------------------------------------------------------------
DirectWrite ==
    \/ \E base \in world.slugs : post_areas(base)
    \/ \E a \in DOMAIN areas \cap world.moved, to \in AreaStatus : patch_area(a, to)
    \/ \E a \in DOMAIN areas \cup {None} : post_directions(a)
    \/ \E d \in DOMAIN directions \cup {None, Triage} : \E p \in DOMAIN tasks \cup {None} :
          post_tasks(d, p)
    \/ \E t \in DOMAIN tasks \cap world.moved, to \in TaskStatus : patch_task(t, to)
    \/ \E w \in WeekIds : post_weeks(w)
    \/ \E w \in WeekIds, to \in WeekStatus : patch_week(w, to)
    \/ \E alloc \in world.allocs : post_rhythms(alloc)
    \/ \E v \in ReviewIds : post_reviews(v)
    \/ \E v \in ReviewIds, body \in Bodies : patch_review(v, body)
    \/ \E v \in ReviewIds : post_finalize(v)
    \/ capture
    \/ install_pack
    \/ install_seed_pack
    \/ abandon_pack

Gate ==
    \/ \E p \in ProposalIds, b \in world.batches :
          b.source = "direct" /\ post_proposals(p, b.ops)
    \/ \E p \in ProposalIds, b \in world.batches :
          b.source \in Capabilities /\ ai_submit(b.source, p, b.ops)
    \/ \E p \in ProposalIds : post_accept(p)
    \/ \E p \in ProposalIds : post_reject(p)

Transaction ==
    /\ apply_op \/ RollBack \/ Crash \/ CommitAccept \/ CommitDryRun
    /\ UNCHANGED <<world, actor, pack, keyVars>>

\* Processes start and stop between requests; a Crash inside a transaction and an
\* abandoned pack are the ends they may meet within one.
Lifecycle ==
    /\ world.starts
    /\ KeysNext
    /\ UNCHANGED <<areas, directions, weeks, tasks, rhythms, bodies, world, proposals,
                   rejections, tx, actor, pack>>

Next == DirectWrite \/ Gate \/ Transaction \/ Lifecycle

Spec == Init /\ [][Next]_vars
-----------------------------------------------------------------------------
(* Properties *)

\* The tables as every other connection sees them.
committed == IF tx = Idle THEN currentTables ELSE tx.saved

\* What validate found of an operation, asked of the tables themselves.
HoldsNow(op) ==
    CASE op.op = "CreateTask" -> parent_allowed(op.parent)
      [] op.op = "TransitionTask" -> task_transition_allowed(tasks[op.task].status, op.to)
      [] op.op \in {"CreateTasks", "ReorderTasks"} -> week_is_open(weeks[op.week])
      [] op.op = "AdjustRhythm" -> rhythm_transition_allowed(rhythms[op.rhythm].status, "adjusted")
      [] op.op = "CarryOverTask" ->
            /\ task_transition_allowed(tasks[op.task].status, "carried_over")
            /\ week_is_open(weeks[op.to])
      [] op.op = "AssignTaskDirection" ->
            /\ ~task_is_terminal(tasks[op.task].status)
            /\ \/ tasks[op.task].direction = None
               \/ /\ tasks[op.task].direction = Triage
                  /\ op.direction # Triage
      [] op.op = "DraftReviewBody" ->
            bodies[op.review].status = "draft" /\ bodies[op.review].body = op.base
      [] OTHER -> TRUE

\* The batch validates "exactly as apply would behave": when the transaction
\* comes to an operation, everything validate checked of it against the overlay
\* of the earlier operations is true of the rows they really left.
OverlayMatchesApply == Applying => HoldsNow(tx.ops[tx.next])

\* A parent is an earlier task without a parent of its own.
OneLevelNesting ==
    \A t \in DOMAIN tasks : tasks[t].parent # None =>
        tasks[t].parent \in 1..t-1 /\ tasks[tasks[t].parent].parent = None

\* A successor names an earlier task, closed as carried over, of another week;
\* no task has two successors.
CarryChain ==
    \A t \in DOMAIN tasks : tasks[t].from # None =>
        LET s == tasks[t].from
        IN  /\ s \in 1..t-1
            /\ tasks[s].status = "carried_over"
            /\ tasks[s].week # tasks[t].week
            /\ \A u \in DOMAIN tasks : tasks[u].from = s => u = t

\* The links between tasks, across carry-overs and batches.
TaskLinksHold == OneLevelNesting /\ CarryChain

\* What is closed stays as it is: once a task is done, dropped or carried over,
\* or its week is under review or closed, no request and no proposal changes
\* its row; and no task appears in a week that is not open.
HistoryStaysPut ==
    [][/\ \A t \in DOMAIN committed.tasks :
             LET row == committed.tasks[t]
             IN  (task_is_terminal(row.status)
                    \/ (row.week # None /\ ~week_is_open(weeks[row.week])))
                 => committed'.tasks[t] = row
       /\ \A t \in DOMAIN committed'.tasks \ DOMAIN committed.tasks :
             committed'.tasks[t].week # None => week_is_open(weeks[committed'.tasks[t].week])]_vars

\* A Direction is given once.  A task leaves the inbox or Triage only; and what
\* the user put into Triage no proposal of classify takes out.
HumanPlacementWins ==
    [][\A t \in DOMAIN committed.tasks :
          LET row == committed.tasks[t]
          IN  committed'.tasks[t].direction # row.direction =>
                 /\ row.direction \in {None, Triage}
                 /\ row.via = "direct" => tx.source = "direct"]_vars

\* A proposal is decided at most once, by an accept or by a reject, and stays as
\* it was decided: its status moves along the lifecycle of core/transitions.rs,
\* and back to pending only when the accept that claimed it ends without a
\* commit; a rejection, and nothing else, adds one line to the log of
\* rejections, with the maker the proposal had.
DecidedOnce ==
    [][LET newly == {p \in ProposalIds : proposals[p].status # "rejected" /\ proposals'[p].status = "rejected"}
       IN  /\ \A p \in ProposalIds :
                 LET from == proposals[p].status  to == proposals'[p].status
                 IN  /\ proposal_is_terminal(from) => proposals'[p] = proposals[p]
                     /\ \/ from = to
                        \/ from = "absent" /\ to = "pending"
                        \/ proposal_transition_allowed(from, to)
                        \/ /\ tx # Idle /\ tx' = Idle /\ tx.proposal = p
                           /\ from = "applying" /\ to = "pending"
           /\ IF newly = {} THEN rejections' = rejections
              ELSE \E p \in newly : /\ newly = {p}
                                   /\ rejections' = Append(rejections, [proposal |-> p, source |-> proposals[p].source])
      ]_vars

\* Nothing but a human request commits anything: a step made for the automation
\* key or for an AI run leaves the committed tables alone, except that a note
\* may arrive in the inbox, and decides no proposal, only adds pending ones.
OnlyHumansCommit ==
    [][actor' # "human" =>
          /\ UNCHANGED weeks
          /\ \/ committed' = committed
             \/ committed' = [committed EXCEPT !.tasks =
                                 Append(@, NewTask("backlog", None, None, None, None, None))]
          /\ \A p \in ProposalIds : proposals'[p] # proposals[p] =>
                proposals[p].status = "absent" /\ proposals'[p].status = "pending"]_vars

\* Every row has its type, a task carries a triage_via stamp exactly while it sits
\* in Triage, slugs are unique and a Rhythm allots at most the whole, whichever of
\* the direct route, an operation of a batch, a carry-over and the seed pack wrote
\* the row last.
RowsWellFormed ==
    /\ TypeOK
    /\ \A t \in DOMAIN tasks : tasks[t].via # None <=> tasks[t].direction = Triage
    /\ \A a, b \in DOMAIN areas : areas[a].slug = areas[b].slug => a = b
    /\ \A r \in DOMAIN rhythms :
          FoldLeft(LAMBDA sum, a : sum + a.pct, 0, rhythms[r].alloc) <= 100
=============================================================================
