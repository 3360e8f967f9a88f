----------------------------- MODULE HttpApiProofs -----------------------------
(***************************************************************************)
(* What the runs of HttpApi check on small worlds, proved for any number   *)
(* of rows, processes, proposals and operations in a batch: the promise of *)
(* validate, the links between tasks, the shape of the rows, the lifecycle *)
(* of a proposal, and what a step may do to the rows others see.           *)
(*                                                                         *)
(* The heart of it is one fact about a batch: validate folds validate_op   *)
(* over its operations, apply_op takes them one step at a time, and at     *)
(* every step the overlay of the fold shows the rows the steps have left   *)
(* (Overlay).  The fold is taken apart by the lemmas of FoldLemmas.        *)
(***************************************************************************)
EXTENDS HttpApi, FiniteSetTheorems, TLAPS

-----------------------------------------------------------------------------
(* The actor keys, for any number of processes and of pairs.  The invariant    *)
(* says where a whole pair is at each step of start-up: a process about to     *)
(* publish has finished its temp file, and keys that no environment gave are   *)
(* in the key file before any process holds them.                              *)

\* The pairs that can ever be minted, or be given by an environment.
AllPairs == {Pair(n) : n \in Nat}

Places == {"down", "load", "file", "create", "write", "link", "won", "lost",
           "connect", "open", "serving"}

KeysTypeOK ==
    /\ keyfile \in AllPairs \cup {NoKeys}
    /\ temp \in [Procs -> AllPairs \cup {NoKeys, Partial}]
    /\ minted \in Nat
    /\ proc \in [Procs -> [pc : Places, keys : AllPairs \cup {NoKeys}]]

\* A temp file is whole when it is linked, and the winner's is the key file.
Published ==
    \A p \in Procs :
        /\ proc[p].pc \in {"link", "won"} => temp[p] \in AllPairs
        /\ proc[p].pc = "won" => temp[p] = keyfile
        /\ proc[p].pc = "lost" => keyfile # NoKeys

\* From the handshake on a process has keys, and not some of its own making.
Held ==
    \A p \in Procs : proc[p].pc \in {"connect", "open", "serving"} =>
        proc[p].keys \in AllPairs /\ proc[p].keys \in {Pair(0), keyfile}

\* The inductive invariant.
KeysInv == KeysTypeOK /\ Published /\ Held

-----------------------------------------------------------------------------

\* What ActorKeys::new says of the pairs there are.
LEMMA PairsAreNew ==
    /\ \A pair \in AllPairs : new(pair) /\ pair # NoKeys
    /\ \A env \in Environments \ {NoKeys} : new(env) => env = Pair(0)
<1>1. ASSUME NEW n \in Nat PROVE new(Pair(n)) /\ Pair(n) # NoKeys
  <2>1. Pair(n) \in [{"human", "automation"} -> Nat \X {"human", "automation"}]
    BY DEF Pair, Roles
  <2>2. Pair(n)["human"] = <<n, "human">> /\ Pair(n)["automation"] = <<n, "automation">>
    BY DEF Pair, Roles
  <2>3. new(Pair(n))
    BY <2>2 DEF new, Roles
  <2> QED BY <2>1, <2>3, ActorKeysAssumption
<1>2. ~new(Halved)
  BY DEF new, Halved, Roles
<1>3. ~new(Alike)
  BY DEF new, Alike, Roles
<1> QED BY <1>1, <1>2, <1>3 DEF AllPairs, Environments

\* A file system without keys satisfies it.
LEMMA KeysInvInit == KeysInit => KeysInv
BY DEF KeysInit, KeysInv, KeysTypeOK, Published, Held, Down, Places

\* The file is published once: no step takes it away or replaces it.
LEMMA PublishedOnce ==
    ASSUME KeysInv, [KeysNext]_keyVars, keyfile # NoKeys
    PROVE  keyfile' = keyfile
<1>1. ASSUME NEW p \in Procs, KeysStep(p) PROVE keyfile' = keyfile
  BY <1>1 DEF KeysStep, main, load, load_or_create_file, create_temp, write_temp, creation_fails,
     hard_link, remove_temp, connect, serve, stop
<1> QED BY <1>1 DEF KeysNext, chmod, keyVars

\* Every step of a start or stop keeps it.
LEMMA KeysInvNext ==
    ASSUME KeysInv, [KeysNext]_keyVars
    PROVE  KeysInv'
<1> USE DEF KeysInv
<1>1. ASSUME NEW p \in Procs, main(p) PROVE KeysInv'
  BY <1>1 DEF main, At, GoTo, KeysTypeOK, Published, Held, Places
<1>2. ASSUME NEW p \in Procs, NEW env \in Environments, load(p, env) PROVE KeysInv'
  <2>1. Pair(0) \in AllPairs
    BY DEF AllPairs
  <2>2. CASE GoTo(p, "file")
    BY <1>2, <2>2 DEF load, At, GoTo, KeysTypeOK, Published, Held, Places
  <2>3. CASE env = Pair(0) /\ HasKeys(p, env)
    BY <1>2, <2>1, <2>3 DEF load, At, HasKeys, KeysTypeOK, Published, Held, Places
  <2>4. CASE Exits(p)
    BY <1>2, <2>4 DEF load, At, Exits, Down, KeysTypeOK, Published, Held, Places
  <2> QED BY <1>2, <2>2, <2>3, <2>4, PairsAreNew DEF load
<1>3. ASSUME NEW p \in Procs, read_file(p), keyfile # NoKeys, UNCHANGED <<keyfile, minted>>,
             temp' = temp \/ temp' = [temp EXCEPT ![p] = NoKeys]
      PROVE KeysInv'
  <2>1. CASE HasKeys(p, keyfile)
    BY <1>3, <2>1 DEF HasKeys, KeysTypeOK, Published, Held, Places
  <2>2. CASE Exits(p)
    BY <1>3, <2>2 DEF Exits, Down, KeysTypeOK, Published, Held, Places
  <2> QED BY <1>3, <2>1, <2>2 DEF read_file
<1>4. ASSUME NEW p \in Procs, load_or_create_file(p) PROVE KeysInv'
  <2>1. CASE keyfile # NoKeys
    BY <1>3, <1>4, <2>1 DEF load_or_create_file
  <2>2. CASE GoTo(p, "create")
    BY <1>4, <2>2 DEF load_or_create_file, At, GoTo, KeysTypeOK, Published, Held, Places
  <2> QED BY <1>4, <2>1, <2>2 DEF load_or_create_file
<1>5. ASSUME NEW p \in Procs, create_temp(p) PROVE KeysInv'
  <2>1. CASE temp[p] = NoKeys
    BY <1>5, <2>1 DEF create_temp, At, GoTo, KeysTypeOK, Published, Held, Places
  <2>2. CASE temp[p] # NoKeys
    BY <1>5, <2>2 DEF create_temp, At, Exits, Down, KeysTypeOK, Published, Held, Places
  <2> QED BY <2>1, <2>2
<1>6. ASSUME NEW p \in Procs, write_temp(p) PROVE KeysInv'
  <2>1. Pair(minted') \in AllPairs /\ minted' \in Nat
    BY <1>6 DEF write_temp, AllPairs, KeysTypeOK
  <2> QED BY <1>6, <2>1 DEF write_temp, At, GoTo, KeysTypeOK, Published, Held, Places
<1>7. ASSUME NEW p \in Procs, creation_fails(p) PROVE KeysInv'
  BY <1>7 DEF creation_fails, At, Exits, Down, KeysTypeOK, Published, Held, Places
<1>8. ASSUME NEW p \in Procs, hard_link(p) PROVE KeysInv'
  <2>1. CASE keyfile = NoKeys
    <3>1. \A q \in Procs : proc[q].pc # "won"
      BY <2>1, PairsAreNew DEF Published
    <3>2. \A q \in Procs : proc[q].pc \in {"connect", "open", "serving"} =>
                               proc[q].keys = Pair(0)
      BY <2>1, PairsAreNew DEF Held
    <3> QED BY <1>8, <2>1, <3>1, <3>2 DEF hard_link, At, GoTo, KeysTypeOK, Published, Held, Places
  <2>2. CASE keyfile # NoKeys
    BY <1>8, <2>2 DEF hard_link, At, GoTo, KeysTypeOK, Published, Held, Places
  <2> QED BY <2>1, <2>2
<1>9. ASSUME NEW p \in Procs, remove_temp(p) PROVE KeysInv'
  <2>1. CASE At(p, "won")
    <3>1. temp[p] \in AllPairs /\ temp[p] = keyfile
      BY <2>1 DEF At, Published
    <3> QED BY <1>9, <2>1, <3>1 DEF remove_temp, At, HasKeys, KeysTypeOK, Published, Held, Places
  <2>2. CASE At(p, "lost")
    <3>1. keyfile # NoKeys
      BY <2>2 DEF At, Published
    <3> QED BY <1>3, <1>9, <2>2, <3>1 DEF remove_temp, At
  <2> QED BY <1>9, <2>1, <2>2 DEF remove_temp
<1>10. ASSUME NEW p \in Procs, connect(p) PROVE KeysInv'
  BY <1>10 DEF connect, At, GoTo, KeysTypeOK, Published, Held, Places
<1>11. ASSUME NEW p \in Procs, serve(p) PROVE KeysInv'
  BY <1>11 DEF serve, At, GoTo, KeysTypeOK, Published, Held, Places
<1>12. ASSUME NEW p \in Procs, stop(p) PROVE KeysInv'
  BY <1>12 DEF stop, At, Exits, Down, KeysTypeOK, Published, Held, Places
<1>13. CASE chmod
  BY <1>13 DEF chmod, KeysTypeOK, Published, Held
<1>14. CASE UNCHANGED keyVars
  BY <1>14 DEF keyVars, KeysTypeOK, Published, Held
<1> QED
  BY <1>1, <1>2, <1>4, <1>5, <1>6, <1>7, <1>8, <1>9, <1>10, <1>11, <1>12, <1>13, <1>14
     DEF KeysNext, KeysStep

\* A process that serves takes each of its two keys for the role it was made for.
LEMMA HeldKeysAgree ==
    ASSUME KeysInv
    PROVE  KeysAgree
<1> SUFFICES ASSUME NEW p \in Procs, Serving(p)
             PROVE  /\ proc[p].keys \in {Pair(0), keyfile}
                    /\ \A r \in Roles : identify(p, proc[p].keys[r]) = r
  BY DEF KeysAgree
<1>1. proc[p].keys \in AllPairs /\ proc[p].keys \in {Pair(0), keyfile}
  BY DEF KeysInv, Held, Serving, At
<1>2. PICK n \in Nat : proc[p].keys = Pair(n)
  BY <1>1 DEF AllPairs
<1>3. Pair(n)["human"] = <<n, "human">> /\ Pair(n)["automation"] = <<n, "automation">>
  BY DEF Pair, Roles
<1> QED BY <1>1, <1>2, <1>3 DEF identify, Roles

\* The invariant holds throughout.
THEOREM KeysInvariant == KeysSpec => []KeysInv
BY KeysInvInit, KeysInvNext, PTL DEF KeysSpec

\* Every process that serves without an environment's keys holds the key file's
\* pair, whole and distinct, however starts and stops of load_or_create_file
\* interleave.
THEOREM ServingKeysAgree == KeysSpec => []KeysAgree
<1>1. KeysInv => KeysAgree
  BY HeldKeysAgree
<1> QED BY <1>1, KeysInvariant, PTL

\* Once published, actor-keys.json is never replaced or taken away by a start:
\* the hard link lets exactly one of several racing processes through.
THEOREM KeyFileIsFinal == KeysSpec => [][keyfile # NoKeys => keyfile' = keyfile]_keyVars
<1>1. KeysInv /\ [KeysNext]_keyVars => [keyfile # NoKeys => keyfile' = keyfile]_keyVars
  BY PublishedOnce DEF keyVars
<1> QED BY <1>1, KeysInvariant, PTL DEF KeysSpec

-----------------------------------------------------------------------------
(* validate, operation by operation. *)

\* validate folds validate_op over the batch.
Fold == INSTANCE FoldLemmas WITH Step <- validate_op

\* The working view of a batch over a snapshot c.
View(c) ==
    [ok : BOOLEAN, ctx : {c},
     status : [DOMAIN c.tasks -> TaskStatus],
     direction : [DOMAIN c.task_directions -> Nat \cup {None, Triage}],
     body : [DOMAIN c.reviews -> Bodies \cup {Blank}]]

\* What validate asks of an operation, and asks of nothing else.
Passes(w, op, source) ==
    CASE op.op = "CreateTask" ->
            op.parent = None \/ (op.parent \in DOMAIN w.ctx.task_parents /\ w.ctx.task_parents[op.parent] = None)
      [] op.op = "TransitionTask" ->
            op.task \in DOMAIN w.status /\ task_transition_allowed(w.status[op.task], op.to)
      [] op.op = "CreateTasks" -> op.tasks # <<>> /\ require_open_week(w, op.week)
      [] op.op = "ReorderTasks" -> require_open_week(w, op.week)
      [] op.op = "AdjustRhythm" ->
            /\ op.rhythm \in DOMAIN w.ctx.rhythms_retired /\ ~w.ctx.rhythms_retired[op.rhythm]
            /\ check_alloc(op.alloc)
      [] op.op = "CarryOverTask" ->
            /\ op.task \in DOMAIN w.status /\ task_transition_allowed(w.status[op.task], "carried_over")
            /\ require_open_week(w, op.to)
      [] op.op = "AssignTaskDirection" ->
            /\ op.task \in DOMAIN w.direction
            /\ op.task \in DOMAIN w.status /\ ~task_is_terminal(w.status[op.task])
            /\ assignable(w, op, source)
      [] op.op = "DraftReviewBody" ->
            /\ op.review \in DOMAIN w.ctx.reviews /\ w.ctx.reviews[op.review].status = "draft"
            /\ w.body[op.review] = op.base
      [] OTHER -> TRUE

\* How the view goes on.
Row(ok, ctx, status, direction, body) ==
    [ok |-> ok, ctx |-> ctx, status |-> status, direction |-> direction, body |-> body]
Put(f, x, y) == [f EXCEPT ![x] = y]

StatusAfter(w, op) ==
    IF op.op = "TransitionTask" THEN Put(w.status, op.task, op.to)
    ELSE IF op.op = "CarryOverTask" THEN Put(w.status, op.task, "carried_over")
    ELSE w.status
DirectionAfter(w, op) ==
    IF op.op = "AssignTaskDirection" THEN Put(w.direction, op.task, op.direction) ELSE w.direction
BodyAfter(w, op) ==
    IF op.op = "DraftReviewBody" THEN Put(w.body, op.review, op.body) ELSE w.body

Overlaid(w, op) == Row(w.ok, w.ctx, StatusAfter(w, op), DirectionAfter(w, op), BodyAfter(w, op))

OpKinds == {"CreateArea", "CreateDirection", "CreateTask", "TransitionTask", "CreateTasks", "ReorderTasks",
            "AdjustRhythm", "CarryOverTask", "AssignTaskDirection", "DraftReviewBody"}

\* What the fields of an operation hold, kind by kind.
LEMMA OpFields ==
    ASSUME NEW o \in Sin90Op
    PROVE  /\ o.op \in OpKinds
           /\ o.op = "CreateArea" => o.base \in Seq(Nat)
           /\ o.op = "CreateTask" => o.direction \in Nat \cup {None, Triage} /\ o.parent \in Nat \cup {None}
           /\ o.op = "TransitionTask" => o.task \in Nat /\ o.to \in TaskStatus
           /\ o.op = "CreateTasks" => o.week \in WeekIds /\ o.tasks \in Seq(Nat \cup {None, Triage})
           /\ o.op = "ReorderTasks" => o.week \in WeekIds /\ o.order \in Seq(Nat)
           /\ o.op = "AdjustRhythm" => o.rhythm \in Nat /\ o.alloc \in Seq(Alloc)
           /\ o.op = "CarryOverTask" => o.task \in Nat /\ o.to \in WeekIds
           /\ o.op = "AssignTaskDirection" => o.task \in Nat /\ o.direction \in Nat \cup {Triage}
           /\ o.op = "DraftReviewBody" => o.review \in ReviewIds /\ o.base \in Bodies \cup {Blank}
                                          /\ o.body \in Bodies \cup {Blank}
BY DEF Sin90Op, OpKinds

\* Once refused, a batch stays refused.
LEMMA RefusedStays ==
    ASSUME NEW w, NEW o, NEW source, ~w.ok
    PROVE  validate_op(w, o, source) = w
BY DEF validate_op

\* A refusal changes nothing of the view but its verdict.
LEMMA RefusedIsNotOk ==
    ASSUME NEW c, NEW w \in View(c)
    PROVE  Refused(w) \in View(c) /\ Refused(w).ok = FALSE
BY DEF Refused, View

WithStatus(w, t, s) == [w EXCEPT !.status[t] = s]
WithDirection(w, t, d) == [w EXCEPT !.direction[t] = d]
WithBody(w, v, b) == [w EXCEPT !.body[v] = b]

\* The overlay of one field leaves the others as they were.
LEMMA ViewExcept ==
    ASSUME NEW c, NEW w \in View(c), NEW x, NEW y
    PROVE  /\ WithStatus(w, x, y) = Row(w.ok, w.ctx, Put(w.status, x, y), w.direction, w.body)
           /\ WithDirection(w, x, y) = Row(w.ok, w.ctx, w.status, Put(w.direction, x, y), w.body)
           /\ WithBody(w, x, y) = Row(w.ok, w.ctx, w.status, w.direction, Put(w.body, x, y))
BY DEF View, WithStatus, WithDirection, WithBody, Row, Put

\* One operation: refused, or checked and overlaid.
LEMMA OpValidated ==
    ASSUME NEW c, NEW w \in View(c), NEW o \in Sin90Op, NEW source, w.ok
    PROVE  \/ validate_op(w, o, source) = Refused(w)
           \/ Passes(w, o, source) /\ validate_op(w, o, source) = Overlaid(w, o)
<1>1. o.op \in OpKinds
  BY OpFields
<1>2. w = Row(w.ok, w.ctx, w.status, w.direction, w.body)
  BY DEF View, Row
<1>3. CASE o.op \in {"CreateArea", "CreateDirection"}
  <2>1. validate_op(w, o, source) = w
    BY <1>3 DEF validate_op
  <2>2. Overlaid(w, o) = w /\ Passes(w, o, source)
    BY <1>2, <1>3 DEF Overlaid, StatusAfter, DirectionAfter, BodyAfter, Passes
  <2> QED BY <2>1, <2>2
<1>4. CASE o.op = "CreateTask"
  <2>1. validate_op(w, o, source) = validate_CreateTask(w, o)
    BY <1>4 DEF validate_op
  <2>2. Overlaid(w, o) = w
    BY <1>2, <1>4 DEF Overlaid, StatusAfter, DirectionAfter, BodyAfter
  <2> QED BY <1>4, <2>1, <2>2 DEF validate_CreateTask, Passes
<1>5. CASE o.op = "TransitionTask"
  <2>1. validate_op(w, o, source) = validate_TransitionTask(w, o)
    BY <1>5 DEF validate_op
  <2>2. WithStatus(w, o.task, o.to) = Overlaid(w, o)
    BY <1>5, ViewExcept DEF Overlaid, StatusAfter, DirectionAfter, BodyAfter
  <2> QED BY <1>5, <2>1, <2>2 DEF validate_TransitionTask, task_status, Passes, WithStatus
<1>6. CASE o.op = "CreateTasks"
  <2>1. validate_op(w, o, source) = validate_CreateTasks(w, o)
    BY <1>6 DEF validate_op
  <2>2. Overlaid(w, o) = w
    BY <1>2, <1>6 DEF Overlaid, StatusAfter, DirectionAfter, BodyAfter
  <2> QED BY <1>6, <2>1, <2>2 DEF validate_CreateTasks, Passes
<1>7. CASE o.op = "ReorderTasks"
  <2>1. validate_op(w, o, source) = validate_ReorderTasks(w, o)
    BY <1>7 DEF validate_op
  <2>2. Overlaid(w, o) = w
    BY <1>2, <1>7 DEF Overlaid, StatusAfter, DirectionAfter, BodyAfter
  <2> QED BY <1>7, <2>1, <2>2 DEF validate_ReorderTasks, Passes
<1>8. CASE o.op = "AdjustRhythm"
  <2>1. validate_op(w, o, source) = validate_AdjustRhythm(w, o)
    BY <1>8 DEF validate_op
  <2>2. Overlaid(w, o) = w
    BY <1>2, <1>8 DEF Overlaid, StatusAfter, DirectionAfter, BodyAfter
  <2> QED BY <1>8, <2>1, <2>2 DEF validate_AdjustRhythm, Passes
<1>9. CASE o.op = "CarryOverTask"
  <2>1. validate_op(w, o, source) = validate_CarryOverTask(w, o)
    BY <1>9 DEF validate_op
  <2>2. WithStatus(w, o.task, "carried_over") = Overlaid(w, o)
    BY <1>9, ViewExcept DEF Overlaid, StatusAfter, DirectionAfter, BodyAfter
  <2> QED BY <1>9, <2>1, <2>2 DEF validate_CarryOverTask, task_status, Passes, WithStatus
<1>10. CASE o.op = "AssignTaskDirection"
  <2>1. validate_op(w, o, source) = validate_AssignTaskDirection(w, o, source)
    BY <1>10 DEF validate_op
  <2>2. WithDirection(w, o.task, o.direction) = Overlaid(w, o)
    BY <1>10, ViewExcept DEF Overlaid, StatusAfter, DirectionAfter, BodyAfter
  <2> QED BY <1>10, <2>1, <2>2 DEF validate_AssignTaskDirection, task_status, Passes, WithDirection
<1>11. CASE o.op = "DraftReviewBody"
  <2>1. validate_op(w, o, source) = validate_DraftReviewBody(w, o)
    BY <1>11 DEF validate_op
  <2>2. WithBody(w, o.review, o.body) = Overlaid(w, o)
    BY <1>11, ViewExcept DEF Overlaid, StatusAfter, DirectionAfter, BodyAfter
  <2> QED BY <1>11, <2>1, <2>2 DEF validate_DraftReviewBody, Passes, WithBody
<1> QED BY <1>1, <1>3, <1>4, <1>5, <1>6, <1>7, <1>8, <1>9, <1>10, <1>11 DEF OpKinds

\* What is overlaid is of the type of the rows.
LEMMA OverlaidIsView ==
    ASSUME NEW c, NEW w \in View(c), NEW o \in Sin90Op
    PROVE  Overlaid(w, o) \in View(c)
<1>1. o.op = "TransitionTask" => o.to \in TaskStatus
  BY OpFields
<1>2. o.op = "AssignTaskDirection" => o.direction \in Nat \cup {None, Triage}
  BY OpFields
<1>3. o.op = "DraftReviewBody" => o.body \in Bodies \cup {Blank}
  BY OpFields
<1>4. StatusAfter(w, o) \in [DOMAIN c.tasks -> TaskStatus]
  BY <1>1 DEF View, TaskStatus, StatusAfter, Put
<1>5. DirectionAfter(w, o) \in [DOMAIN c.task_directions -> Nat \cup {None, Triage}]
  BY <1>2 DEF View, DirectionAfter, Put
<1>6. BodyAfter(w, o) \in [DOMAIN c.reviews -> Bodies \cup {Blank}]
  BY <1>3 DEF View, BodyAfter, Put
<1>7. w.ctx = c /\ w.ok \in BOOLEAN
  BY DEF View
<1> QED BY <1>4, <1>5, <1>6, <1>7 DEF View, Overlaid, Row

-----------------------------------------------------------------------------
\* The view a batch has come to after k of its operations.
Viewed(ops, k, c, source) == Fold!Folded(SubSeq(ops, 1, k), Working(c), source)

\* Before its first operation a batch has the snapshot itself.
LEMMA ViewedFirst ==
    ASSUME NEW c, NEW ops \in Seq(Sin90Op), NEW source
    PROVE  Viewed(ops, 0, c, source) = Working(c)
<1>1. SubSeq(ops, 1, 0) = <<>>
  OBVIOUS
<1> QED BY <1>1, Fold!FoldNil DEF Viewed

\* The view after one more operation is that operation validated over the view before.
LEMMA ViewedNext ==
    ASSUME NEW c, NEW ops \in Seq(Sin90Op), NEW source, NEW k \in Nat, k + 1 <= Len(ops)
    PROVE  Viewed(ops, k + 1, c, source) = validate_op(Viewed(ops, k, c, source), ops[k + 1], source)
BY Fold!FoldPrefix DEF Viewed

\* At every point of a batch the view is one of its snapshot.
LEMMA ViewedIsView ==
    ASSUME NEW c, Working(c) \in View(c), NEW ops \in Seq(Sin90Op), NEW source
    PROVE  \A k \in Nat : k <= Len(ops) => Viewed(ops, k, c, source) \in View(c)
<1> DEFINE T == {k \in Nat : k <= Len(ops) => Viewed(ops, k, c, source) \in View(c)}
<1>1. 0 \in T
  BY ViewedFirst
<1>2. ASSUME NEW k \in Nat, k \in T PROVE k + 1 \in T
  <2> SUFFICES ASSUME k + 1 <= Len(ops) PROVE Viewed(ops, k + 1, c, source) \in View(c)
    OBVIOUS
  <2> DEFINE w == Viewed(ops, k, c, source)
  <2> DEFINE o == ops[k + 1]
  <2>1. w \in View(c) /\ o \in Sin90Op
    BY <1>2
  <2>2. Viewed(ops, k + 1, c, source) = validate_op(w, o, source)
    BY ViewedNext
  <2> HIDE DEF w, o
  <2>3. CASE ~w.ok
    BY <2>1, <2>2, <2>3, RefusedStays
  <2>4. CASE w.ok
    <3>1. \/ validate_op(w, o, source) = Refused(w)
          \/ validate_op(w, o, source) = Overlaid(w, o)
      BY <2>1, <2>4, OpValidated
    <3> QED BY <2>1, <2>2, <3>1, RefusedIsNotOk, OverlaidIsView
  <2> QED BY <2>3, <2>4
<1> HIDE DEF T
<1>3. Nat \subseteq T
  BY <1>1, <1>2, Fold!NatSetInduction
<1> QED BY <1>3 DEF T

\* A batch that is accepted as a whole was never refused on the way.
LEMMA ViewedIsOk ==
    ASSUME NEW c, NEW ops \in Seq(Sin90Op), NEW source, Viewed(ops, Len(ops), c, source).ok
    PROVE  \A k \in Nat : k <= Len(ops) => Viewed(ops, k, c, source).ok
<1> DEFINE L == Len(ops)
<1>0. L \in Nat
  OBVIOUS
<1> HIDE DEF L
<1> DEFINE T == {j \in Nat : j <= L => Viewed(ops, L - j, c, source).ok}
<1>1. 0 \in T
  BY <1>0 DEF L
<1>2. ASSUME NEW j \in Nat, j \in T PROVE j + 1 \in T
  <2> SUFFICES ASSUME j + 1 <= L, ~Viewed(ops, L - (j + 1), c, source).ok PROVE FALSE
    OBVIOUS
  <2> DEFINE k == L - (j + 1)
  <2>1. k \in Nat /\ k + 1 <= L /\ k + 1 = L - j
    BY <1>0
  <2>2. Viewed(ops, L - j, c, source).ok
    BY <1>0, <1>2
  <2> HIDE DEF k
  <2>3. Viewed(ops, k + 1, c, source) = validate_op(Viewed(ops, k, c, source), ops[k + 1], source)
    BY <2>1, ViewedNext DEF L
  <2>4. ~Viewed(ops, k, c, source).ok
    BY DEF k
  <2>5. Viewed(ops, k + 1, c, source) = Viewed(ops, k, c, source)
    BY <2>3, <2>4, RefusedStays
  <2> QED BY <2>1, <2>2, <2>4, <2>5
<1> HIDE DEF T
<1>3. Nat \subseteq T
  BY <1>1, <1>2, Fold!NatSetInduction
<1>4. ASSUME NEW k \in Nat, k <= L PROVE Viewed(ops, k, c, source).ok
  <2>1. L - k \in T /\ L - k <= L /\ L - (L - k) = k
    BY <1>0, <1>3, <1>4
  <2> QED BY <2>1 DEF T
<1> QED BY <1>4 DEF L

\* Every operation of an accepted batch passes against the view the earlier
\* ones leave, and is overlaid on it.
LEMMA EachPasses ==
    ASSUME NEW c, Working(c) \in View(c), NEW ops \in Seq(Sin90Op), NEW source,
           Viewed(ops, Len(ops), c, source).ok,
           NEW k \in Nat, k + 1 <= Len(ops)
    PROVE  /\ Viewed(ops, k, c, source) \in View(c)
           /\ Passes(Viewed(ops, k, c, source), ops[k + 1], source)
           /\ Viewed(ops, k + 1, c, source) = Overlaid(Viewed(ops, k, c, source), ops[k + 1])
<1> DEFINE w == Viewed(ops, k, c, source)
<1> DEFINE o == ops[k + 1]
<1>1. w \in View(c) /\ o \in Sin90Op
  BY ViewedIsView
<1>2. Viewed(ops, k + 1, c, source) = validate_op(w, o, source)
  BY ViewedNext
<1>3. w.ok
  BY ViewedIsOk
<1>4. Viewed(ops, k + 1, c, source).ok
  BY ViewedIsOk
<1> HIDE DEF w, o
<1>5. Refused(w).ok = FALSE
  BY <1>1, RefusedIsNotOk
<1>6. Passes(w, o, source) /\ validate_op(w, o, source) = Overlaid(w, o)
  BY <1>1, <1>2, <1>3, <1>4, <1>5, OpValidated
<1> QED BY <1>1, <1>2, <1>6 DEF w, o

\* validate is the fold that has come to its end.
LEMMA ValidateIsViewed ==
    ASSUME NEW ops \in Seq(Sin90Op), NEW source, validate(ops, source)
    PROVE  Viewed(ops, Len(ops), build_snapshot(ops), source).ok /\ ops # <<>>
<1>1. SubSeq(ops, 1, Len(ops)) = ops
  OBVIOUS
<1>2. Fold!Folded(ops, Working(build_snapshot(ops)), source).ok
  BY DEF validate, Fold!Folded, Fold!FoldLeft, Fold!MapThenFoldSet, Fold!Max, FoldLeft, MapThenFoldSet, Max
<1> QED BY <1>1, <1>2 DEF Viewed, validate

-----------------------------------------------------------------------------
(* Slugs. *)

\* The slugs allocate_area_slug tries, in turn.
Slugs(base) == <<base>> \o [n \in 1..Len(areas) |-> Append(base, n + 1)]

\* The slugs tried are all different, so one of them is not taken.
LEMMA TriesDiffer ==
    ASSUME areas \in Seq(AreaRow), NEW base \in Seq(Nat)
    PROVE  /\ DOMAIN Slugs(base) = 1..Len(areas)+1
           /\ \A n \in 1..Len(areas)+1 : Slugs(base)[n] \in Seq(Nat)
           /\ \A m, n \in 1..Len(areas)+1 : Slugs(base)[m] = Slugs(base)[n] => m = n
<1> DEFINE L == Len(areas)
<1> DEFINE more == [n \in 1..L |-> Append(base, n + 1)]
<1>0. L \in Nat
  OBVIOUS
<1>1. more \in Seq(Seq(Nat)) /\ Len(more) = L
  <2>1. \A n \in 1..L : Append(base, n + 1) \in Seq(Nat)
    OBVIOUS
  <2> QED BY <1>0, <2>1
<1>2. <<base>> \in Seq(Seq(Nat)) /\ Len(<<base>>) = 1
  OBVIOUS
<1>3. Slugs(base) \in Seq(Seq(Nat)) /\ Len(Slugs(base)) = L + 1
  BY <1>0, <1>1, <1>2 DEF Slugs
<1>4. Slugs(base)[1] = base
  BY <1>0, <1>1, <1>2 DEF Slugs
<1>5. \A n \in 2..L+1 : Slugs(base)[n] = Append(base, n)
  <2> SUFFICES ASSUME NEW n \in 2..L+1 PROVE Slugs(base)[n] = Append(base, n)
    OBVIOUS
  <2>1. Slugs(base)[n] = more[n - 1]
    BY <1>0, <1>1, <1>2 DEF Slugs
  <2>2. n - 1 \in 1..L /\ (n - 1) + 1 = n
    BY <1>0
  <2> QED BY <2>1, <2>2
<1>6. \A n \in 2..L+1 : Len(Slugs(base)[n]) = Len(base) + 1 /\ Slugs(base)[n][Len(base) + 1] = n
  BY <1>0, <1>5
<1>7. \A n \in 2..L+1 : Slugs(base)[n] # base
  BY <1>6
<1>8. ASSUME NEW m \in 1..L+1, NEW n \in 1..L+1, Slugs(base)[m] = Slugs(base)[n] PROVE m = n
  <2>1. m = 1 \/ m \in 2..L+1
    BY <1>0
  <2>2. n = 1 \/ n \in 2..L+1
    BY <1>0
  <2> QED BY <2>1, <2>2, <1>4, <1>6, <1>7, <1>8
<1> QED BY <1>3, <1>8

\* The interval the slugs are numbered by, counted.
LEMMA IntervalCard ==
    ASSUME NEW n \in Nat
    PROVE  IsFiniteSet(1..n) /\ Cardinality(1..n) = n
<1>1. IsFiniteSet(1..n) /\ Cardinality(1..n) = IF 1 > n THEN 0 ELSE n - 1 + 1
  BY FS_Interval
<1> QED BY <1>1

\* allocate_area_slug always finds a slug no Area has: one more is tried than there
\* are Areas.
LEMMA SlugIsFree ==
    ASSUME areas \in Seq(AreaRow), NEW base \in Seq(Nat)
    PROVE  /\ allocate_area_slug(base) \in Seq(Nat)
           /\ \A a \in DOMAIN areas : areas[a].slug # allocate_area_slug(base)
<1> DEFINE L == Len(areas)
<1> DEFINE taken == {areas[a].slug : a \in DOMAIN areas}
<1> DEFINE tries == Slugs(base)
<1>0. L \in Nat /\ DOMAIN areas = 1..L
  OBVIOUS
<1>1. /\ DOMAIN tries = 1..L+1
      /\ \A n \in 1..L+1 : tries[n] \in Seq(Nat)
      /\ \A m, n \in 1..L+1 : tries[m] = tries[n] => m = n
  BY TriesDiffer
<1> HIDE DEF tries
<1>2. IsFiniteSet(taken) /\ Cardinality(taken) <= L
  <2> DEFINE f == [a \in 1..L |-> areas[a].slug]
  <2>1. f \in Surjection(1..L, taken)
    BY <1>0 DEF Surjection
  <2>2. IsFiniteSet(1..L) /\ Cardinality(1..L) = L
    BY <1>0, IntervalCard
  <2> HIDE DEF f, taken
  <2> QED BY <2>1, <2>2, FS_Surjection
<1>3. \E n \in 1..L+1 : tries[n] \notin taken
  <2> SUFFICES ASSUME \A n \in 1..L+1 : tries[n] \in taken PROVE FALSE
    OBVIOUS
  <2> DEFINE g == [n \in 1..L+1 |-> tries[n]]
  <2> HIDE DEF taken
  <2>1. g \in Injection(1..L+1, taken)
    BY <1>1 DEF Injection, IsInjective
  <2>2. IsFiniteSet(1..L+1) /\ Cardinality(1..L+1) = L + 1
    BY <1>0, IntervalCard
  <2>3. Cardinality(1..L+1) <= Cardinality(taken)
    BY <2>1, <1>2, FS_Injection
  <2>4. Cardinality(taken) \in Nat
    BY <1>2, FS_CardinalityType
  <2> QED BY <1>0, <1>2, <2>2, <2>3, <2>4
<1> DEFINE F == {n \in 1..L+1 : tries[n] \notin taken}
<1>4. PICK n \in F : \A m \in F : n <= m
  <2>1. F # {} /\ F \subseteq Nat
    BY <1>3, <1>0
  <2> HIDE DEF F
  <2> QED BY <2>1, Fold!Least
<1>5. n \in DOMAIN tries /\ tries[n] \notin taken /\ \A m \in 1..n-1 : tries[m] \in taken
  BY <1>0, <1>1, <1>4
<1>6. PICK k \in DOMAIN tries : /\ tries[k] \notin taken
                                /\ allocate_area_slug(base) = tries[k]
  BY <1>5 DEF allocate_area_slug, tries, Slugs
<1> QED BY <1>1, <1>6

-----------------------------------------------------------------------------
(* What the rows of the tasks table are to each other, and how each kind of  *)
(* write keeps it.                                                            *)

Nested(ts) ==
    \A t \in DOMAIN ts : ts[t].parent # None =>
        ts[t].parent \in 1..t-1 /\ ts[ts[t].parent].parent = None

Chained(ts) ==
    \A t \in DOMAIN ts : ts[t].from # None =>
        /\ ts[t].from \in 1..t-1
        /\ ts[ts[t].from].status = "carried_over"
        /\ ts[ts[t].from].week # ts[t].week
        /\ \A u \in DOMAIN ts : ts[u].from = ts[t].from => u = t

Stamped(ts) == \A t \in DOMAIN ts : ts[t].via # None <=> ts[t].direction = Triage

TasksHold(ts) == ts \in Seq(TaskRow) /\ Nested(ts) /\ Chained(ts) /\ Stamped(ts)

\* A row that belongs to a project at most, and is nobody's successor.
Fresh(ts, row) ==
    /\ row \in TaskRow
    /\ row.parent # None => row.parent \in DOMAIN ts /\ ts[row.parent].parent = None
    /\ row.from = None
    /\ row.via # None <=> row.direction = Triage

\* What Append does, position by position.
LEMMA AppendFacts ==
    ASSUME NEW S, NEW s \in Seq(S), NEW e \in S
    PROVE  /\ Append(s, e) \in Seq(S)
           /\ Len(s) \in Nat
           /\ DOMAIN s = 1..Len(s)
           /\ DOMAIN Append(s, e) = 1..Len(s)+1
           /\ Append(s, e)[Len(s) + 1] = e
           /\ \A i \in 1..Len(s) : Append(s, e)[i] = s[i]
OBVIOUS

\* A sequence rewritten position by position has the length it had.
LEMMA Rewritten ==
    ASSUME NEW S, NEW s \in Seq(S), NEW u, u = [i \in DOMAIN s |-> u[i]], \A i \in DOMAIN s : u[i] \in S
    PROVE  u \in Seq(S) /\ Len(u) = Len(s) /\ DOMAIN u = DOMAIN s
<1> DEFINE n == Len(s)
<1>1. n \in Nat /\ DOMAIN s = 1..n
  OBVIOUS
<1> HIDE DEF n
<1>2. u \in [1..n -> S]
  BY <1>1
<1>3. u \in Seq(S) /\ Len(u) = n
  BY <1>1, <1>2
<1> QED BY <1>1, <1>2, <1>3 DEF n

\* A row stays a row when its status, or its Direction and stamp, are set.
LEMMA RowExcept ==
    ASSUME NEW row \in TaskRow
    PROVE  /\ \A s \in TaskStatus : [row EXCEPT !.status = s] \in TaskRow
           /\ \A d \in Nat \cup {None, Triage}, via \in {None, "direct", "classify"} :
                 [row EXCEPT !.direction = d, !.via = via] \in TaskRow
BY DEF TaskRow

\* Inserting a row that nothing follows from keeps what is said of the tasks.
LEMMA FreshKeeps ==
    ASSUME NEW ts, TasksHold(ts), NEW row, Fresh(ts, row)
    PROVE  TasksHold(Append(ts, row))
<1> DEFINE n == Len(ts)
<1> DEFINE us == Append(ts, row)
<1>1. /\ ts \in Seq(TaskRow) /\ us \in Seq(TaskRow) /\ n \in Nat /\ DOMAIN ts = 1..n /\ DOMAIN us = 1..n+1
      /\ us[n+1] = row /\ \A i \in 1..n : us[i] = ts[i]
  BY AppendFacts DEF TasksHold, Fresh
<1> HIDE DEF n, us
<1>2. Nested(us)
  BY <1>1 DEF TasksHold, Fresh, Nested
<1>3. Chained(us)
  BY <1>1 DEF TasksHold, Fresh, Chained
<1>4. Stamped(us)
  BY <1>1 DEF TasksHold, Fresh, Stamped
<1> QED BY <1>1, <1>2, <1>3, <1>4 DEF TasksHold, us

\* So does inserting several rows without parent or predecessor (CreateTasks).
LEMMA FreshRowsKeep ==
    ASSUME NEW ts, TasksHold(ts), NEW rows \in Seq(TaskRow),
           \A i \in DOMAIN rows : /\ rows[i].parent = None /\ rows[i].from = None
                                  /\ rows[i].via # None <=> rows[i].direction = Triage
    PROVE  TasksHold(ts \o rows)
<1> DEFINE n == Len(ts)
<1> DEFINE m == Len(rows)
<1> DEFINE us == ts \o rows
<1>1. /\ ts \in Seq(TaskRow) /\ us \in Seq(TaskRow) /\ n \in Nat /\ m \in Nat /\ DOMAIN ts = 1..n
      /\ DOMAIN rows = 1..m /\ DOMAIN us = 1..n+m
      /\ (\A i \in 1..n : us[i] = ts[i]) /\ \A i \in n+1..n+m : us[i] = rows[i - n]
  BY DEF TasksHold
<1>2. \A i \in n+1..n+m : us[i].parent = None /\ us[i].from = None /\ (us[i].via # None <=> us[i].direction = Triage)
  <2> SUFFICES ASSUME NEW i \in n+1..n+m
               PROVE us[i].parent = None /\ us[i].from = None /\ (us[i].via # None <=> us[i].direction = Triage)
    OBVIOUS
  <2>1. i - n \in DOMAIN rows /\ us[i] = rows[i - n]
    BY <1>1
  <2> QED BY <2>1
<1> HIDE DEF n, m, us
<1>3. \A i \in 1..n+m : i \in 1..n \/ i \in n+1..n+m
  BY <1>1
<1>4. Nested(us)
  BY <1>1, <1>2, <1>3 DEF TasksHold, Nested
<1>5. Chained(us)
  BY <1>1, <1>2, <1>3 DEF TasksHold, Chained
<1>6. Stamped(us)
  BY <1>1, <1>2, <1>3 DEF TasksHold, Stamped
<1> QED BY <1>1, <1>4, <1>5, <1>6 DEF TasksHold, us

\* A transition keeps it: only what is carried over is pointed at for its status.
LEMMA StatusKeeps ==
    ASSUME NEW ts, TasksHold(ts), NEW t \in Nat, NEW s \in TaskStatus, ts[t].status # "carried_over"
    PROVE  TasksHold([ts EXCEPT ![t].status = s])
<1> DEFINE us == [ts EXCEPT ![t].status = s]
<1>1. us \in Seq(TaskRow) /\ DOMAIN us = DOMAIN ts /\ DOMAIN ts \subseteq Nat
  <2>1. ts \in Seq(TaskRow) /\ DOMAIN ts \subseteq Nat
    BY DEF TasksHold
  <2>2. us = [i \in DOMAIN ts |-> us[i]]
    BY <2>1
  <2>3. \A i \in DOMAIN ts : us[i] \in TaskRow
    <3>1. \A i \in DOMAIN ts : ts[i] \in TaskRow
      BY <2>1
    <3>2. \A i \in DOMAIN ts : us[i] = IF i = t THEN [ts[i] EXCEPT !.status = s] ELSE ts[i]
      BY <2>1
    <3> QED BY <3>1, <3>2, RowExcept
  <2> HIDE DEF us
  <2> QED BY <2>1, <2>2, <2>3, Rewritten
<1>2. \A i \in DOMAIN ts : /\ us[i].parent = ts[i].parent /\ us[i].from = ts[i].from /\ us[i].via = ts[i].via
                           /\ us[i].direction = ts[i].direction /\ us[i].week = ts[i].week
                           /\ i # t => us[i].status = ts[i].status
  BY DEF TasksHold, TaskRow
<1> HIDE DEF us
<1>3. \A i \in DOMAIN ts : 1..i-1 \subseteq DOMAIN ts
  BY DEF TasksHold
<1>4. Nested(us)
  BY <1>1, <1>2, <1>3 DEF TasksHold, Nested
<1>5. Chained(us)
  BY <1>1, <1>2, <1>3 DEF TasksHold, Chained
<1>6. Stamped(us)
  BY <1>1, <1>2 DEF TasksHold, Stamped
<1> QED BY <1>1, <1>4, <1>5, <1>6 DEF TasksHold, us

\* Placing a task keeps it, when the stamp goes with the placement.
LEMMA DirectionKeeps ==
    ASSUME NEW ts, TasksHold(ts), NEW t \in Nat, NEW d \in Nat \cup {None, Triage},
           NEW via \in {None, "direct", "classify"}, via # None <=> d = Triage
    PROVE  TasksHold([ts EXCEPT ![t].direction = d, ![t].via = via])
<1> DEFINE us == [ts EXCEPT ![t].direction = d, ![t].via = via]
<1>1. us \in Seq(TaskRow) /\ DOMAIN us = DOMAIN ts /\ DOMAIN ts \subseteq Nat
  <2>1. ts \in Seq(TaskRow) /\ DOMAIN ts \subseteq Nat
    BY DEF TasksHold
  <2>2. us = [i \in DOMAIN ts |-> us[i]]
    BY <2>1
  <2>3. \A i \in DOMAIN ts : us[i] \in TaskRow
    <3>1. \A i \in DOMAIN ts : ts[i] \in TaskRow
      BY <2>1
    <3>2. \A i \in DOMAIN ts : us[i] = IF i = t THEN [ts[i] EXCEPT !.direction = d, !.via = via] ELSE ts[i]
      BY <2>1
    <3> QED BY <3>1, <3>2, RowExcept
  <2> HIDE DEF us
  <2> QED BY <2>1, <2>2, <2>3, Rewritten
<1>2. \A i \in DOMAIN ts : /\ us[i].parent = ts[i].parent /\ us[i].from = ts[i].from
                           /\ us[i].status = ts[i].status /\ us[i].week = ts[i].week
                           /\ i # t => us[i] = ts[i]
                           /\ i = t => us[i].direction = d /\ us[i].via = via
  BY DEF TasksHold, TaskRow
<1> HIDE DEF us
<1>3. \A i \in DOMAIN ts : 1..i-1 \subseteq DOMAIN ts
  BY DEF TasksHold
<1>4. Nested(us)
  BY <1>1, <1>2, <1>3 DEF TasksHold, Nested
<1>5. Chained(us)
  BY <1>1, <1>2, <1>3 DEF TasksHold, Chained
<1>6. Stamped(us)
  BY <1>1, <1>2 DEF TasksHold, Stamped
<1> QED BY <1>1, <1>4, <1>5, <1>6 DEF TasksHold, us

\* A carry-over keeps it: the source is closed and its one successor is new, in another
\* week.
LEMMA CarryKeeps ==
    ASSUME NEW ts, TasksHold(ts), NEW t \in DOMAIN ts, ts[t].status # "carried_over",
           NEW w \in WeekIds, ts[t].week # w
    PROVE  TasksHold(Append([ts EXCEPT ![t].status = "carried_over"],
                            NewTask("planned", ts[t].direction, w, ts[t].parent, ts[t].via, t)))
<1> DEFINE us == [ts EXCEPT ![t].status = "carried_over"]
<1> DEFINE row == NewTask("planned", ts[t].direction, w, ts[t].parent, ts[t].via, t)
<1> DEFINE n == Len(ts)
<1> DEFINE vs == Append(us, row)
<1>1. us \in Seq(TaskRow) /\ DOMAIN us = DOMAIN ts /\ Len(us) = n /\ n \in Nat /\ DOMAIN ts = 1..n
      /\ ts \in Seq(TaskRow)
  <2>1. ts \in Seq(TaskRow) /\ DOMAIN ts = 1..n /\ n \in Nat
    BY DEF TasksHold
  <2>2. us = [i \in DOMAIN ts |-> us[i]]
    BY <2>1
  <2>3. \A i \in DOMAIN ts : us[i] \in TaskRow
    <3>1. \A i \in DOMAIN ts : ts[i] \in TaskRow
      BY <2>1
    <3>2. \A i \in DOMAIN ts : us[i] = IF i = t THEN [ts[i] EXCEPT !.status = "carried_over"] ELSE ts[i]
      BY <2>1
    <3>3. "carried_over" \in TaskStatus
      BY DEF TaskStatus
    <3> QED BY <3>1, <3>2, <3>3, RowExcept
  <2> HIDE DEF us
  <2> QED BY <2>1, <2>2, <2>3, Rewritten
<1>2. \A i \in DOMAIN ts : /\ us[i].parent = ts[i].parent /\ us[i].from = ts[i].from /\ us[i].via = ts[i].via
                           /\ us[i].direction = ts[i].direction /\ us[i].week = ts[i].week
                           /\ i # t => us[i].status = ts[i].status
                           /\ i = t => us[i].status = "carried_over"
  BY DEF TasksHold, TaskRow
<1>3. /\ row.status = "planned" /\ row.direction = ts[t].direction /\ row.week = w /\ row.parent = ts[t].parent
      /\ row.via = ts[t].via /\ row.from = t
  BY DEF NewTask
<1>4. row \in TaskRow
  BY <1>1 DEF NewTask, TaskRow, TaskStatus
<1> HIDE DEF us, row
<1>5. vs \in Seq(TaskRow) /\ DOMAIN vs = 1..n+1 /\ vs[n+1] = row /\ \A i \in 1..n : vs[i] = us[i]
  BY <1>1, <1>4, AppendFacts
<1> HIDE DEF n, vs
<1>6. t \in 1..n /\ t # None /\ None \notin Nat
  BY <1>1, PlanningAssumption
<1>7. Nested(vs)
  <2> SUFFICES ASSUME NEW i \in 1..n+1, vs[i].parent # None
               PROVE  vs[i].parent \in 1..i-1 /\ vs[vs[i].parent].parent = None
    BY <1>5 DEF Nested
  <2>1. PICK k \in 1..n : k <= i /\ vs[i].parent = ts[k].parent
    <3>1. CASE i = n + 1
      <4>1. t <= i /\ vs[i].parent = ts[t].parent
        BY <1>1, <1>3, <1>5, <1>6, <3>1
      <4> QED BY <1>6, <4>1
    <3>2. CASE i # n + 1
      <4>1. i \in 1..n /\ vs[i].parent = ts[i].parent
        BY <1>1, <1>2, <1>5, <3>2
      <4> QED BY <4>1
    <3> QED BY <3>1, <3>2
  <2>2. ts[k].parent \in 1..k-1 /\ ts[ts[k].parent].parent = None
    BY <1>1, <2>1 DEF TasksHold, Nested
  <2>3. ts[k].parent \in 1..n /\ vs[ts[k].parent].parent = None
    BY <1>1, <1>2, <1>5, <2>2
  <2> QED BY <2>1, <2>2, <2>3
<1>8. Chained(vs)
  <2> SUFFICES ASSUME NEW i \in 1..n+1, vs[i].from # None
               PROVE  /\ vs[i].from \in 1..i-1
                      /\ vs[vs[i].from].status = "carried_over"
                      /\ vs[vs[i].from].week # vs[i].week
                      /\ \A u \in 1..n+1 : vs[u].from = vs[i].from => u = i
    BY <1>5 DEF Chained
  <2>0. \A u \in 1..n : ts[u].from # t
    BY <1>1, <1>6 DEF TasksHold, Chained
  <2>9. \A u \in 1..n : vs[u].from = ts[u].from
    BY <1>1, <1>2, <1>5
  <2>1. CASE i = n + 1
    <3>1. vs[i].from = t /\ vs[i].week = w
      BY <1>3, <1>5, <2>1
    <3>2. vs[t].status = "carried_over" /\ vs[t].week = ts[t].week
      BY <1>1, <1>2, <1>5, <1>6
    <3>3. \A u \in 1..n+1 : vs[u].from = t => u = i
      BY <1>1, <2>0, <2>1, <2>9
    <3> QED BY <1>6, <1>1, <2>1, <3>1, <3>2, <3>3
  <2>2. CASE i # n + 1
    <3>1. i \in 1..n /\ vs[i].from = ts[i].from
      BY <1>1, <1>2, <1>5, <2>2
    <3>2. /\ ts[i].from \in 1..i-1 /\ ts[ts[i].from].status = "carried_over"
          /\ ts[ts[i].from].week # ts[i].week
          /\ \A u \in 1..n : ts[u].from = ts[i].from => u = i
      BY <1>1, <3>1 DEF TasksHold, Chained
    <3>3. ts[i].from \in 1..n /\ ts[i].from # t
      BY <1>1, <3>1, <3>2
    <3>4. \A u \in 1..n+1 : vs[u].from = vs[i].from => u = i
      <4>1. \A u \in 1..n+1 : u \in 1..n \/ u = n + 1
        BY <1>1
      <4> QED BY <1>3, <1>5, <2>9, <3>1, <3>2, <3>3, <4>1
    <3> QED BY <1>1, <1>2, <1>5, <3>1, <3>2, <3>3, <3>4
  <2> QED BY <2>1, <2>2
<1>9. Stamped(vs)
  BY <1>1, <1>2, <1>3, <1>5, <1>6 DEF TasksHold, Stamped
<1> QED BY <1>5, <1>7, <1>8, <1>9 DEF TasksHold, us, row, vs

-----------------------------------------------------------------------------
(* The inductive invariant.  The properties speak of the rows now; what keeps  *)
(* them is what the open transaction knows: where it began, how far the rows   *)
(* may have come from there, and that the overlay validate worked on is what   *)
(* the earlier operations really left.                                         *)

SlugsDiffer(as) == \A a, b \in DOMAIN as : as[a].slug = as[b].slug => a = b

Shares(alloc) == FoldLeft(LAMBDA sum, a : sum + a.pct, 0, alloc)

RhythmsHold(rs) == rs \in Seq(RhythmRow) /\ \A r \in DOMAIN rs : Shares(rs[r].alloc) <= 100

AreasHold(as) == as \in Seq(AreaRow) /\ SlugsDiffer(as)

\* What is true of the tables, whichever request or batch wrote them last.
TablesHold(T) ==
    /\ AreasHold(T.areas)
    /\ T.directions \in Seq(DirectionRow)
    /\ TasksHold(T.tasks)
    /\ RhythmsHold(T.rhythms)
    /\ T.bodies \in [ReviewIds -> ReviewRow]

\* The same of the tables as they are.
NowHolds ==
    /\ AreasHold(areas)
    /\ directions \in Seq(DirectionRow)
    /\ TasksHold(tasks)
    /\ RhythmsHold(rhythms)
    /\ bodies \in [ReviewIds -> ReviewRow]

AnyTables == [areas : Seq(AreaRow), directions : Seq(DirectionRow), tasks : Seq(TaskRow),
              rhythms : Seq(RhythmRow), bodies : [ReviewIds -> ReviewRow]]

ProposalRow == [status : ProposalStatus \cup {"absent"}, ops : Seq(Sin90Op), source : Sources]

OpenTx == [mode : {"accept", "dry"}, proposal : ProposalIds, ops : Seq(Sin90Op), source : Sources,
           next : Nat, saved : AnyTables]

GateTyped ==
    /\ world \in Worlds
    /\ weeks \in [WeekIds -> WeekStatus]
    /\ actor \in Actors
    /\ pack \in [todo : Seq({"area", "direction"}), area : Nat \cup {None}]
    /\ proposals \in [ProposalIds -> ProposalRow]
    /\ rejections \in Seq([proposal : ProposalIds, source : Sources])
    /\ tx = Idle \/ (tx \in OpenTx /\ tx.next \in 1..Len(tx.ops) + 1)

\* What a capability hands in is made of its own operations only.
Allowed(source, ops) == source # "direct" => allowed_ops(source, ops)

Lawful ==
    /\ \A p \in ProposalIds : proposals[p].status # "absent" =>
          proposals[p].ops # <<>> /\ Allowed(proposals[p].source, proposals[p].ops)
    /\ tx # Idle => Allowed(tx.source, tx.ops) /\ tx.ops # <<>>

\* A claim is held by the open transaction that accepts the proposal, and by
\* nothing else; a batch is tried out before its proposal exists.
Claimed ==
    /\ \A p \in ProposalIds : proposals[p].status = "applying" =>
          tx # Idle /\ tx.mode = "accept" /\ tx.proposal = p
    /\ tx # Idle => proposals[tx.proposal].status = IF tx.mode = "accept" THEN "applying" ELSE "absent"

\* Whatever else happens meanwhile, only a human has a batch applied.
AcceptIsHuman == tx # Idle /\ tx.mode = "accept" => actor = "human"

\* Rows that requests and batches must leave alone.
Settled(row, ws) == task_is_terminal(row.status) \/ (row.week # None /\ ~week_is_open(ws[row.week]))

\* How far the rows may have come from the ones the transaction found.
Grown(was, now, ws, source) ==
    /\ Len(was) <= Len(now)
    /\ \A t \in DOMAIN was :
          /\ now[t].parent = was[t].parent /\ now[t].week = was[t].week
          /\ Settled(was[t], ws) => now[t] = was[t]
          /\ now[t].direction = None => was[t].direction = None
          /\ now[t].direction # was[t].direction =>
                was[t].direction \in {None, Triage} /\ (was[t].via = "direct" => source = "direct")
    /\ \A t \in DOMAIN now \ DOMAIN was : now[t].week # None => week_is_open(ws[now[t].week])

Moved ==
    /\ Grown(tx.saved.tasks, tasks, weeks, tx.source)
    /\ DOMAIN rhythms = DOMAIN tx.saved.rhythms
    /\ \A r \in DOMAIN rhythms : rhythms[r].status = "retired" => tx.saved.rhythms[r].status = "retired"
    /\ \A v \in ReviewIds : bodies[v].status = tx.saved.bodies[v].status

\* A snapshot tells the truth about the rows the transaction found, and of the weeks.
Truthful(c) ==
    /\ Working(c) \in View(c)
    /\ DOMAIN c.tasks \cup DOMAIN c.task_directions \subseteq DOMAIN tx.saved.tasks
    /\ \A t \in DOMAIN c.task_parents :
          t \in DOMAIN tx.saved.tasks /\ c.task_parents[t] = tx.saved.tasks[t].parent
    /\ \A w \in DOMAIN c.weeks : c.weeks[w] = weeks[w]
    /\ \A r \in DOMAIN c.rhythms_retired :
          r \in DOMAIN tx.saved.rhythms /\ (~c.rhythms_retired[r] => tx.saved.rhythms[r].status # "retired")
    /\ \A v \in DOMAIN c.reviews : v \in ReviewIds /\ c.reviews[v].status = tx.saved.bodies[v].status
    /\ \A t \in c.triage_via_classify : t \in DOMAIN tx.saved.tasks /\ tx.saved.tasks[t].via = "classify"

\* The working view shows the rows as they are.
Mirrors(w) ==
    /\ \A t \in DOMAIN w.status : w.status[t] = tasks[t].status
    /\ \A t \in DOMAIN w.direction : w.direction[t] = tasks[t].direction
    /\ \A v \in DOMAIN w.body : w.body[v] = bodies[v].body

\* The batch was validated as a whole, over a truthful snapshot, and the view
\* validate had at this point of the batch is what apply_op finds.
Overlay ==
    \E c : /\ Truthful(c)
           /\ Viewed(tx.ops, Len(tx.ops), c, tx.source).ok
           /\ Mirrors(Viewed(tx.ops, tx.next - 1, c, tx.source))

TxInv == tx # Idle => TablesHold(tx.saved) /\ Moved /\ Overlay

GateInv ==
    /\ KeysInv /\ GateTyped /\ Lawful /\ Claimed /\ AcceptIsHuman
    /\ NowHolds
    /\ TxInv
-----------------------------------------------------------------------------
\* Seen from the actor keys, every step is one of the start-up protocol, or nothing.
LEMMA KeysAlong ==
    ASSUME Next
    PROVE  [KeysNext]_keyVars
<1>1. ASSUME DirectWrite PROVE UNCHANGED keyVars
  BY <1>1 DEF DirectWrite, post_areas, patch_area, post_directions, post_tasks, patch_task, post_weeks,
     patch_week, post_rhythms, post_reviews, patch_review, post_finalize, capture, install_pack,
     install_seed_pack, abandon_pack, require_human, require_any_actor, Request
<1>2. ASSUME Gate PROVE UNCHANGED keyVars
  BY <1>2 DEF Gate, post_proposals, ai_submit, post_accept, post_reject, require_human, require_any_actor, Request
<1>3. ASSUME Transaction PROVE UNCHANGED keyVars
  BY <1>3 DEF Transaction
<1>4. ASSUME Lifecycle PROVE KeysNext
  BY <1>4 DEF Lifecycle
<1> QED BY <1>1, <1>2, <1>3, <1>4 DEF Next

\* A key is taken for the role it was made for: no request of the automation
\* key passes for the human's.
LEMMA HumanRequest ==
    ASSUME KeysInv, require_human
    PROVE  actor' = "human"
<1>1. PICK p \in Procs, pair \in Known, holder \in Roles :
         Serving(p) /\ identify(p, pair[holder]) = "human" /\ actor' = holder
  BY DEF require_human, Request
<1>2. proc[p].keys \in AllPairs
  BY <1>1 DEF KeysInv, Held, Serving, At
<1>3. PICK n \in Nat : proc[p].keys = Pair(n)
  BY <1>2 DEF AllPairs
<1>4. pair[holder] = <<n, "human">>
  <2>1. Pair(n)["human"] = <<n, "human">> /\ Pair(n)["automation"] = <<n, "automation">>
    BY DEF Pair, Roles
  <2> QED BY <1>1, <1>3, <2>1 DEF identify
<1>5. pair \in AllPairs \cup {Halved, Alike}
  <2>1. Pair(0) \in AllPairs
    BY DEF AllPairs
  <2> QED BY <1>1, <2>1 DEF Known, Environments, KeysInv, KeysTypeOK
<1>6. CASE pair \in AllPairs
  BY <1>1, <1>4, <1>6 DEF AllPairs, Pair, Roles
<1>7. CASE pair = Halved
  BY <1>1, <1>4, <1>7 DEF Halved, Roles
<1>8. CASE pair = Alike
  BY <1>1, <1>4, <1>8 DEF Alike, Roles
<1> QED BY <1>5, <1>6, <1>7, <1>8

\* A request is made by the holder of one of the two keys.
LEMMA AnyRequest ==
    ASSUME require_human \/ require_any_actor
    PROVE  actor' \in Roles
BY DEF require_human, require_any_actor, Request

-----------------------------------------------------------------------------
(* Direct writes keep the tables. *)

\* A new Area has a slug of its own.
LEMMA AreaAppended ==
    ASSUME AreasHold(areas), NEW base \in Seq(Nat)
    PROVE  AreasHold(Append(areas, [slug |-> allocate_area_slug(base), status |-> "active"]))
<1> DEFINE row == [slug |-> allocate_area_slug(base), status |-> "active"]
<1>1. areas \in Seq(AreaRow) /\ SlugsDiffer(areas)
  BY DEF AreasHold
<1>2. allocate_area_slug(base) \in Seq(Nat) /\ \A a \in DOMAIN areas : areas[a].slug # allocate_area_slug(base)
  BY <1>1, SlugIsFree
<1>3. row \in AreaRow /\ row.slug = allocate_area_slug(base)
  BY <1>2 DEF AreaRow, AreaStatus
<1> HIDE DEF row
<1> DEFINE us == Append(areas, row)
<1>4. us \in Seq(AreaRow) /\ Len(areas) \in Nat /\ DOMAIN areas = 1..Len(areas) /\ DOMAIN us = 1..Len(areas)+1
      /\ us[Len(areas)+1] = row /\ \A i \in 1..Len(areas) : us[i] = areas[i]
  BY <1>1, <1>3, AppendFacts
<1> HIDE DEF us
<1>5. SlugsDiffer(us)
  <2> SUFFICES ASSUME NEW a \in 1..Len(areas)+1, NEW b \in 1..Len(areas)+1, us[a].slug = us[b].slug
               PROVE  a = b
    BY <1>4 DEF SlugsDiffer
  <2>1. \A i \in 1..Len(areas)+1 : i \in 1..Len(areas) \/ i = Len(areas)+1
    BY <1>4
  <2>2. \A i \in 1..Len(areas) : us[i].slug # us[Len(areas)+1].slug
    BY <1>2, <1>3, <1>4
  <2>3. \A i, j \in 1..Len(areas) : us[i].slug = us[j].slug => i = j
    BY <1>1, <1>4 DEF SlugsDiffer
  <2> QED BY <2>1, <2>2, <2>3
<1> QED BY <1>4, <1>5 DEF AreasHold, us, row

\* Archiving an Area, or bringing it back, leaves the slugs alone.
LEMMA AreaMoved ==
    ASSUME AreasHold(areas), NEW a \in DOMAIN areas, NEW to \in AreaStatus
    PROVE  AreasHold([areas EXCEPT ![a].status = to])
<1> DEFINE us == [areas EXCEPT ![a].status = to]
<1>1. areas \in Seq(AreaRow) /\ SlugsDiffer(areas)
  BY DEF AreasHold
<1>2. us = [i \in DOMAIN areas |-> us[i]]
  BY <1>1
<1>3. \A i \in DOMAIN areas : us[i] \in AreaRow /\ us[i].slug = areas[i].slug
  <2>1. \A row \in AreaRow : [row EXCEPT !.status = to] \in AreaRow /\ [row EXCEPT !.status = to].slug = row.slug
    BY DEF AreaRow
  <2>2. \A i \in DOMAIN areas : areas[i] \in AreaRow
    BY <1>1
  <2>3. \A i \in DOMAIN areas : us[i] = IF i = a THEN [areas[i] EXCEPT !.status = to] ELSE areas[i]
    BY <1>1
  <2> HIDE DEF us
  <2> QED BY <2>1, <2>2, <2>3
<1> HIDE DEF us
<1>4. us \in Seq(AreaRow) /\ DOMAIN us = DOMAIN areas
  BY <1>1, <1>2, <1>3, Rewritten
<1>5. SlugsDiffer(us)
  BY <1>1, <1>3, <1>4 DEF SlugsDiffer
<1> QED BY <1>4, <1>5 DEF AreasHold, us

\* A Rhythm that passes check_alloc allots no more than the whole.
LEMMA RhythmAppended ==
    ASSUME RhythmsHold(rhythms), NEW alloc \in Seq(Alloc), check_alloc(alloc)
    PROVE  RhythmsHold(Append(rhythms, [status |-> "active", alloc |-> alloc]))
<1> DEFINE row == [status |-> "active", alloc |-> alloc]
<1>1. row \in RhythmRow /\ row.alloc = alloc
  BY DEF RhythmRow, RhythmStatus
<1>2. Shares(alloc) <= 100
  BY DEF check_alloc, Shares
<1> HIDE DEF row
<1> DEFINE us == Append(rhythms, row)
<1>3. us \in Seq(RhythmRow) /\ Len(rhythms) \in Nat /\ DOMAIN rhythms = 1..Len(rhythms)
      /\ DOMAIN us = 1..Len(rhythms)+1
      /\ us[Len(rhythms)+1] = row /\ \A i \in 1..Len(rhythms) : us[i] = rhythms[i]
  BY <1>1, AppendFacts DEF RhythmsHold
<1> HIDE DEF us
<1> QED BY <1>1, <1>2, <1>3 DEF RhythmsHold, us, row

\* So does one that is adjusted.
LEMMA RhythmAdjusted ==
    ASSUME RhythmsHold(rhythms), NEW r \in DOMAIN rhythms, NEW alloc \in Seq(Alloc), check_alloc(alloc)
    PROVE  /\ RhythmsHold([rhythms EXCEPT ![r] = [status |-> "adjusted", alloc |-> alloc]])
           /\ DOMAIN [rhythms EXCEPT ![r] = [status |-> "adjusted", alloc |-> alloc]] = DOMAIN rhythms
<1> DEFINE row == [status |-> "adjusted", alloc |-> alloc]
<1> DEFINE us == [rhythms EXCEPT ![r] = row]
<1>1. row \in RhythmRow /\ row.alloc = alloc
  BY DEF RhythmRow, RhythmStatus
<1>2. Shares(alloc) <= 100
  BY DEF check_alloc, Shares
<1> HIDE DEF row
<1>3. rhythms \in Seq(RhythmRow)
  BY DEF RhythmsHold
<1>4. us = [i \in DOMAIN rhythms |-> us[i]] /\ \A i \in DOMAIN rhythms : us[i] = IF i = r THEN row ELSE rhythms[i]
  BY <1>3
<1> HIDE DEF us
<1>5. us \in Seq(RhythmRow) /\ DOMAIN us = DOMAIN rhythms
  BY <1>1, <1>3, <1>4, Rewritten
<1> QED BY <1>1, <1>2, <1>4, <1>5 DEF RhythmsHold, us, row

\* The kinds of write a request makes to the tasks by itself.
TaskWrite ==
    \/ UNCHANGED tasks
    \/ \E row : /\ Fresh(tasks, row) /\ row.week = None
                /\ tasks' = Append(tasks, row)
    \/ \E t \in DOMAIN tasks, to \in TaskStatus :
          /\ ~Settled(tasks[t], weeks)
          /\ tasks' = [tasks EXCEPT ![t].status = to]

\* A direct write keeps what is said of the tasks.
LEMMA TaskWriteHolds ==
    ASSUME TasksHold(tasks), TaskWrite
    PROVE  TasksHold(tasks')
<1>1. CASE UNCHANGED tasks
  BY <1>1
<1>2. ASSUME NEW row, Fresh(tasks, row), tasks' = Append(tasks, row) PROVE TasksHold(tasks')
  BY <1>2, FreshKeeps
<1>3. ASSUME NEW t \in DOMAIN tasks, NEW to \in TaskStatus, ~Settled(tasks[t], weeks),
             tasks' = [tasks EXCEPT ![t].status = to]
      PROVE  TasksHold(tasks')
  <2>1. t \in Nat
    BY DEF TasksHold
  <2>2. tasks[t].status # "carried_over"
    BY <1>3 DEF Settled, task_is_terminal
  <2> QED BY <1>3, <2>1, <2>2, StatusKeeps
<1> QED BY <1>1, <1>2, <1>3 DEF TaskWrite

\* create_task inserts a fresh row, outside any week.
LEMMA CreateIsTaskWrite ==
    ASSUME TasksHold(tasks), directions \in Seq(DirectionRow),
           NEW d \in DOMAIN directions \cup {None, Triage}, NEW p \in DOMAIN tasks \cup {None}, create_task(d, p)
    PROVE  TaskWrite
<1> DEFINE row == NewTask("backlog", d, None, p, triage_stamp(d), None)
<1>1. p # None => p \in DOMAIN tasks /\ tasks[p].parent = None
  BY DEF create_task, parent_allowed, TaskExists
<1>2. DOMAIN directions \subseteq Nat /\ DOMAIN tasks \subseteq Nat
  BY DEF TasksHold
<1>3. row \in TaskRow
  BY <1>2 DEF NewTask, TaskRow, TaskStatus, triage_stamp
<1>4. row.parent = p /\ row.from = None /\ row.week = None /\ row.via = triage_stamp(d) /\ row.direction = d
  BY DEF NewTask
<1>5. tasks' = Append(tasks, row)
  BY DEF create_task
<1> HIDE DEF row
<1>6. triage_stamp(d) # None <=> d = Triage
  BY PlanningAssumption DEF triage_stamp
<1>7. Fresh(tasks, row)
  BY <1>1, <1>3, <1>4, <1>6 DEF Fresh
<1> QED BY <1>4, <1>5, <1>7 DEF TaskWrite

\* transition_task moves a row that is not settled.
LEMMA TransitionIsTaskWrite ==
    ASSUME NEW t \in DOMAIN tasks, NEW to \in TaskStatus, transition_task(t, to)
    PROVE  TaskWrite
<1>1. ~Settled(tasks[t], weeks)
  BY DEF transition_task, require_task_week_open, task_transition_allowed, Settled, task_is_terminal
<1> QED BY <1>1 DEF transition_task, TaskWrite

\* A note taken for either key.
Noted ==
    /\ tasks' = Append(tasks, NewTask("backlog", None, None, None, None, None))
    /\ UNCHANGED <<areas, directions, weeks, rhythms, bodies>>

\* What a direct write, a whole transaction of its own, may be.
DirectShape ==
    /\ NowHolds'
    /\ weeks' \in [WeekIds -> WeekStatus]
    /\ pack' \in [todo : Seq({"area", "direction"}), area : Nat \cup {None}]
    /\ UNCHANGED <<world, proposals, rejections, tx>>
    /\ TaskWrite
    /\ tx = Idle \/ UNCHANGED <<areas, directions, weeks, tasks, rhythms, bodies>>
    /\ \/ actor' = "human"
       \/ actor' \in Roles /\ Noted
       \/ actor' = actor /\ UNCHANGED <<areas, directions, weeks, tasks, rhythms, bodies>>

\* A request other than the seed pack leaves its list alone.
LEMMA PackKept ==
    ASSUME GateInv, UNCHANGED pack
    PROVE  pack' \in [todo : Seq({"area", "direction"}), area : Nat \cup {None}]
BY DEF GateInv, GateTyped

\* Most writes leave the weeks alone.
LEMMA WeeksKept ==
    ASSUME GateInv, UNCHANGED weeks
    PROVE  weeks' \in [WeekIds -> WeekStatus]
BY DEF GateInv, GateTyped

\* A write to the Areas only.
LEMMA AreaWrite ==
    ASSUME GateInv, Alone, actor' = "human", AreasHold(areas)',
           UNCHANGED <<directions, weeks, tasks, rhythms, bodies>>,
           pack' \in [todo : Seq({"area", "direction"}), area : Nat \cup {None}]
    PROVE  DirectShape
<1>1. NowHolds'
  BY DEF GateInv, NowHolds
<1> QED BY <1>1, WeeksKept DEF DirectShape, Alone, TaskWrite

\* A write to the Directions only.
LEMMA DirectionWrite ==
    ASSUME GateInv, Alone, actor' = "human", NEW area \in Nat \cup {None}, create_direction(area),
           pack' \in [todo : Seq({"area", "direction"}), area : Nat \cup {None}]
    PROVE  DirectShape
<1>1. UNCHANGED <<areas, weeks, tasks, rhythms, bodies>> /\ directions' = Append(directions, [area |-> area])
  BY DEF create_direction
<1>2. directions' \in Seq(DirectionRow)
  BY <1>1 DEF GateInv, NowHolds, DirectionRow
<1>3. NowHolds'
  BY <1>1, <1>2 DEF GateInv, NowHolds
<1> QED BY <1>1, <1>3, WeeksKept DEF DirectShape, Alone, TaskWrite

\* A write to the tasks only.
LEMMA TasksWrite ==
    ASSUME GateInv, Alone, TaskWrite, UNCHANGED <<areas, directions, weeks, rhythms, bodies>>, UNCHANGED pack,
           actor' = "human" \/ (actor' \in Roles /\ Noted)
    PROVE  DirectShape
<1>1. TasksHold(tasks)'
  BY TaskWriteHolds DEF GateInv, NowHolds
<1>2. NowHolds'
  BY <1>1 DEF GateInv, NowHolds
<1> QED BY <1>2, WeeksKept, PackKept DEF DirectShape, Alone

\* A write to the weeks only.
LEMMA WeekWrite ==
    ASSUME GateInv, Alone, actor' = "human", NEW w \in WeekIds, NEW to \in WeekStatus,
           weeks' = [weeks EXCEPT ![w] = to], UNCHANGED tables, UNCHANGED pack
    PROVE  DirectShape
<1>1. weeks' \in [WeekIds -> WeekStatus]
  BY DEF GateInv, GateTyped
<1>2. NowHolds'
  BY DEF GateInv, NowHolds, tables
<1> QED BY <1>1, <1>2, PackKept DEF DirectShape, Alone, TaskWrite, tables

\* A write to the Reviews only.
LEMMA BodyWrite ==
    ASSUME GateInv, Alone, actor' = "human", bodies' \in [ReviewIds -> ReviewRow],
           UNCHANGED <<areas, directions, weeks, tasks, rhythms>>, UNCHANGED pack
    PROVE  DirectShape
<1>1. NowHolds'
  BY DEF GateInv, NowHolds
<1> QED BY <1>1, WeeksKept, PackKept DEF DirectShape, Alone, TaskWrite

\* Each of the direct routes, with the seed pack, is such a write.
LEMMA DirectStep ==
    ASSUME GateInv, DirectWrite
    PROVE  DirectShape
<1>0. KeysInv /\ world \in Worlds /\ areas \in Seq(AreaRow) /\ AreasHold(areas) /\ directions \in Seq(DirectionRow)
      /\ TasksHold(tasks) /\ RhythmsHold(rhythms) /\ bodies \in [ReviewIds -> ReviewRow]
      /\ pack \in [todo : Seq({"area", "direction"}), area : Nat \cup {None}]
  BY DEF GateInv, NowHolds, GateTyped, AreasHold
<1>1. ASSUME NEW base \in world.slugs, post_areas(base) PROVE DirectShape
  <2>1. base \in Seq(Nat)
    BY <1>0, BatchesAssumption
  <2>2. actor' = "human" /\ Alone /\ UNCHANGED pack /\ create_area(base)
    BY <1>0, <1>1, HumanRequest DEF post_areas
  <2>3. AreasHold(areas)'
    BY <1>0, <2>1, <2>2, AreaAppended DEF create_area
  <2> QED BY <2>2, <2>3, PackKept, AreaWrite DEF create_area
<1>2. ASSUME NEW a \in DOMAIN areas, NEW to \in AreaStatus, patch_area(a, to) PROVE DirectShape
  <2>1. actor' = "human" /\ Alone /\ UNCHANGED pack /\ transition_area(a, to)
    BY <1>0, <1>2, HumanRequest DEF patch_area
  <2>2. AreasHold(areas)'
    BY <1>0, <1>2, <2>1, AreaMoved DEF transition_area
  <2> QED BY <2>1, <2>2, PackKept, AreaWrite DEF transition_area
<1>3. ASSUME NEW a \in DOMAIN areas \cup {None}, post_directions(a) PROVE DirectShape
  <2>1. actor' = "human" /\ Alone /\ UNCHANGED pack /\ create_direction(a)
    BY <1>0, <1>3, HumanRequest DEF post_directions
  <2>2. a \in Nat \cup {None}
    BY <1>0
  <2> QED BY <2>1, <2>2, PackKept, DirectionWrite
<1>4. ASSUME NEW d \in DOMAIN directions \cup {None, Triage}, NEW p \in DOMAIN tasks \cup {None}, post_tasks(d, p)
      PROVE  DirectShape
  <2>1. actor' = "human" /\ Alone /\ UNCHANGED pack /\ create_task(d, p)
    BY <1>0, <1>4, HumanRequest DEF post_tasks
  <2>2. TaskWrite
    BY <1>0, <1>4, <2>1, CreateIsTaskWrite
  <2> QED BY <2>1, <2>2, TasksWrite DEF create_task
<1>5. ASSUME NEW t \in DOMAIN tasks, NEW to \in TaskStatus, patch_task(t, to) PROVE DirectShape
  <2>1. actor' = "human" /\ Alone /\ UNCHANGED pack /\ transition_task(t, to)
    BY <1>0, <1>5, HumanRequest DEF patch_task
  <2>2. TaskWrite
    BY <1>5, <2>1, TransitionIsTaskWrite
  <2> QED BY <2>1, <2>2, TasksWrite DEF transition_task
<1>6. ASSUME NEW w \in WeekIds, post_weeks(w) PROVE DirectShape
  <2>1. actor' = "human" /\ Alone /\ UNCHANGED pack /\ create_week(w)
    BY <1>0, <1>6, HumanRequest DEF post_weeks
  <2>2. "planning" \in WeekStatus
    BY DEF WeekStatus
  <2> QED BY <1>6, <2>1, <2>2, WeekWrite DEF create_week
<1>7. ASSUME NEW w \in WeekIds, NEW to \in WeekStatus, patch_week(w, to) PROVE DirectShape
  <2>1. actor' = "human" /\ Alone /\ UNCHANGED pack /\ transition_week(w, to)
    BY <1>0, <1>7, HumanRequest DEF patch_week
  <2> QED BY <1>7, <2>1, WeekWrite DEF transition_week
<1>8. ASSUME NEW alloc \in world.allocs, post_rhythms(alloc) PROVE DirectShape
  <2>1. actor' = "human" /\ Alone /\ UNCHANGED pack /\ create_rhythm(alloc)
    BY <1>0, <1>8, HumanRequest DEF post_rhythms
  <2>2. alloc \in Seq(Alloc)
    BY <1>0, BatchesAssumption
  <2>3. RhythmsHold(rhythms)'
    BY <1>0, <2>1, <2>2, RhythmAppended DEF create_rhythm
  <2>4. UNCHANGED <<areas, directions, weeks, tasks, bodies>>
    BY <2>1 DEF create_rhythm
  <2>5. NowHolds'
    BY <1>0, <2>3, <2>4 DEF NowHolds
  <2> QED BY <2>1, <2>4, <2>5, WeeksKept, PackKept DEF DirectShape, Alone, TaskWrite
<1>9. ASSUME NEW v \in ReviewIds, post_reviews(v) PROVE DirectShape
  <2>1. actor' = "human" /\ Alone /\ UNCHANGED pack /\ create_review(v)
    BY <1>0, <1>9, HumanRequest DEF post_reviews
  <2>2. bodies' \in [ReviewIds -> ReviewRow]
    BY <1>0, <2>1 DEF create_review, ReviewRow, ReviewStatus
  <2> QED BY <2>1, <2>2, BodyWrite DEF create_review
<1>10. ASSUME NEW v \in ReviewIds, NEW body \in Bodies, patch_review(v, body) PROVE DirectShape
  <2>1. actor' = "human" /\ Alone /\ UNCHANGED pack /\ update_review_body(v, body)
    BY <1>0, <1>10, HumanRequest DEF patch_review
  <2>2. bodies' \in [ReviewIds -> ReviewRow]
    BY <1>0, <1>10, <2>1 DEF update_review_body, ReviewRow
  <2> QED BY <2>1, <2>2, BodyWrite DEF update_review_body
<1>11. ASSUME NEW v \in ReviewIds, post_finalize(v) PROVE DirectShape
  <2>1. actor' = "human" /\ Alone /\ UNCHANGED pack /\ finalize_review(v)
    BY <1>0, <1>11, HumanRequest DEF post_finalize
  <2>2. bodies' \in [ReviewIds -> ReviewRow]
    BY <1>0, <1>11, <2>1 DEF finalize_review, ReviewRow, ReviewStatus
  <2> QED BY <2>1, <2>2, BodyWrite DEF finalize_review
<1>12. ASSUME capture PROVE DirectShape
  <2>1. actor' \in Roles /\ Alone /\ UNCHANGED pack /\ create_task(None, None)
    BY <1>12, AnyRequest DEF capture
  <2>2. TaskWrite
    BY <1>0, <2>1, CreateIsTaskWrite
  <2>3. triage_stamp(None) = None
    BY PlanningAssumption DEF triage_stamp
  <2>4. Noted
    BY <2>1, <2>3 DEF create_task, Noted
  <2> QED BY <2>1, <2>2, <2>4, TasksWrite DEF Noted
<1>13. ASSUME install_pack PROVE DirectShape
  <2>1. actor' = "human"
    BY <1>0, <1>13, HumanRequest DEF install_pack
  <2>2. pack' \in [todo : Seq({"area", "direction"}), area : Nat \cup {None}]
    <3>1. <<"area", "direction">> \in Seq({"area", "direction"})
      OBVIOUS
    <3> QED BY <1>13, <3>1 DEF install_pack, NoPack, five_life_systems
  <2>3. UNCHANGED <<areas, directions, weeks, tasks, rhythms, bodies, world, proposals, rejections, tx>>
    BY <1>13 DEF install_pack
  <2>4. NowHolds'
    BY <1>0, <2>3 DEF NowHolds
  <2> QED BY <2>1, <2>2, <2>3, <2>4, WeeksKept DEF DirectShape, TaskWrite
<1>14. ASSUME install_seed_pack PROVE DirectShape
  <2>1. actor' = "human" /\ Alone /\ pack.todo # <<>>
    BY <1>14 DEF install_seed_pack
  <2>2. Tail(pack.todo) \in Seq({"area", "direction"}) /\ Len(areas) + 1 \in Nat
    BY <1>0, <2>1
  <2>3. CASE Head(pack.todo) = "area"
    <3>1. create_area(<<0>>) /\ pack' = [todo |-> Tail(pack.todo), area |-> Len(areas) + 1]
      BY <1>14, <2>3 DEF install_seed_pack
    <3>2. pack' \in [todo : Seq({"area", "direction"}), area : Nat \cup {None}]
      BY <2>2, <3>1
    <3>3. <<0>> \in Seq(Nat)
      OBVIOUS
    <3>4. AreasHold(areas)'
      BY <1>0, <3>1, <3>3, AreaAppended DEF create_area
    <3> QED BY <2>1, <3>1, <3>2, <3>4, AreaWrite DEF create_area
  <2>4. CASE Head(pack.todo) # "area"
    <3>1. create_direction(pack.area) /\ pack' = [pack EXCEPT !.todo = Tail(@)]
      BY <1>14, <2>4 DEF install_seed_pack
    <3>2. pack' \in [todo : Seq({"area", "direction"}), area : Nat \cup {None}]
      BY <1>0, <2>2, <3>1
    <3>3. pack.area \in Nat \cup {None}
      BY <1>0
    <3> QED BY <2>1, <3>1, <3>2, <3>3, DirectionWrite
  <2> QED BY <2>3, <2>4
<1>15. ASSUME abandon_pack PROVE DirectShape
  <2>2. pack' \in [todo : Seq({"area", "direction"}), area : Nat \cup {None}]
    <3>1. <<>> \in Seq({"area", "direction"})
      OBVIOUS
    <3> QED BY <1>15, <3>1 DEF abandon_pack, NoPack
  <2>3. UNCHANGED <<areas, directions, weeks, tasks, rhythms, bodies, world, proposals, rejections, tx, actor>>
    BY <1>15 DEF abandon_pack
  <2>4. NowHolds'
    BY <1>0, <2>3 DEF NowHolds
  <2> QED BY <2>2, <2>3, <2>4, WeeksKept DEF DirectShape, TaskWrite
<1> QED
  BY <1>1, <1>2, <1>3, <1>4, <1>5, <1>6, <1>7, <1>8, <1>9, <1>10, <1>11, <1>12, <1>13, <1>14, <1>15 DEF DirectWrite

-----------------------------------------------------------------------------
(* A transaction begins. *)

\* What build_snapshot says of the rows is so.
LEMMA SnapshotHolds ==
    ASSUME NowHolds, weeks \in [WeekIds -> WeekStatus], NEW ops \in Seq(Sin90Op), NEW c, c = build_snapshot(ops)
    PROVE  /\ Working(c) \in View(c)
           /\ DOMAIN c.tasks \cup DOMAIN c.task_directions \subseteq DOMAIN tasks
           /\ \A t \in DOMAIN c.task_parents : t \in DOMAIN tasks /\ c.task_parents[t] = tasks[t].parent
           /\ \A w \in DOMAIN c.weeks : c.weeks[w] = weeks[w]
           /\ \A r \in DOMAIN c.rhythms_retired :
                 r \in DOMAIN rhythms /\ (~c.rhythms_retired[r] => rhythms[r].status # "retired")
           /\ \A v \in DOMAIN c.reviews : v \in ReviewIds /\ c.reviews[v].status = bodies[v].status
           /\ \A t \in c.triage_via_classify : t \in DOMAIN tasks /\ tasks[t].via = "classify"
           /\ \A t \in DOMAIN c.tasks : c.tasks[t] = tasks[t].status
           /\ \A t \in DOMAIN c.task_directions : c.task_directions[t] = tasks[t].direction
           /\ \A v \in DOMAIN c.reviews : c.reviews[v].body = bodies[v].body
<1>0. /\ tasks \in Seq(TaskRow) /\ bodies \in [ReviewIds -> ReviewRow]
      /\ \A t \in DOMAIN tasks : tasks[t].status \in TaskStatus /\ tasks[t].direction \in Nat \cup {None, Triage}
      /\ \A v \in ReviewIds : bodies[v].body \in Bodies \cup {Blank}
  <2>1. tasks \in Seq(TaskRow) /\ bodies \in [ReviewIds -> ReviewRow]
    BY DEF NowHolds, TasksHold
  <2>2. \A t \in DOMAIN tasks : tasks[t] \in TaskRow
    BY <2>1
  <2>3. \A row \in TaskRow : row.status \in TaskStatus /\ row.direction \in Nat \cup {None, Triage}
    BY DEF TaskRow
  <2>4. \A v \in ReviewIds : bodies[v].body \in Bodies \cup {Blank}
    BY <2>1 DEF ReviewRow
  <2> QED BY <2>1, <2>2, <2>3, <2>4
<1>1. PICK T1, T2, P, W, R, D, V, K :
         /\ c = [tasks |-> load_task(T1), task_parents |-> load_task_parent(P), weeks |-> load_week(W),
                 rhythms_retired |-> load_rhythm(R), direction_statuses |-> load_direction_status(D),
                 task_directions |-> load_task_direction(T2), reviews |-> load_review_snap(V),
                 triage_via_classify |-> load_task_triage_via_classify(K)]
         /\ V \subseteq ReviewIds
  <2>1. {op.review : op \in OpsOf({"DraftReviewBody"}, ops)} \subseteq ReviewIds
    BY OpFields DEF OpsOf
  <2> QED BY <2>1 DEF build_snapshot
<1>2. /\ c.tasks = load_task(T1) /\ c.task_parents = load_task_parent(P) /\ c.weeks = load_week(W)
      /\ c.rhythms_retired = load_rhythm(R) /\ c.task_directions = load_task_direction(T2)
      /\ c.reviews = load_review_snap(V) /\ c.triage_via_classify = load_task_triage_via_classify(K)
  BY <1>1
<1>3. DOMAIN c.tasks \subseteq DOMAIN tasks /\ \A t \in DOMAIN c.tasks : c.tasks[t] = tasks[t].status
  BY <1>2 DEF load_task
<1>4. DOMAIN c.task_directions \subseteq DOMAIN tasks
      /\ \A t \in DOMAIN c.task_directions : c.task_directions[t] = tasks[t].direction
  BY <1>2 DEF load_task_direction
<1>5. \A t \in DOMAIN c.task_parents : t \in DOMAIN tasks /\ c.task_parents[t] = tasks[t].parent
  BY <1>2 DEF load_task_parent
<1>6. \A w \in DOMAIN c.weeks : c.weeks[w] = weeks[w]
  BY <1>2 DEF load_week
<1>7. \A r \in DOMAIN c.rhythms_retired :
         r \in DOMAIN rhythms /\ (~c.rhythms_retired[r] => rhythms[r].status # "retired")
  BY <1>2 DEF load_rhythm
<1>8. \A v \in DOMAIN c.reviews : v \in ReviewIds /\ c.reviews[v] = bodies[v]
  BY <1>1, <1>2 DEF load_review_snap
<1>9. \A t \in c.triage_via_classify : t \in DOMAIN tasks /\ tasks[t].via = "classify"
  BY <1>2 DEF load_task_triage_via_classify
<1>10. c.tasks \in [DOMAIN c.tasks -> TaskStatus]
  <2>1. c.tasks = [t \in DOMAIN c.tasks |-> c.tasks[t]]
    BY <1>2 DEF load_task
  <2> QED BY <1>0, <1>3, <2>1
<1>11. c.task_directions \in [DOMAIN c.task_directions -> Nat \cup {None, Triage}]
  <2>1. c.task_directions = [t \in DOMAIN c.task_directions |-> c.task_directions[t]]
    BY <1>2 DEF load_task_direction
  <2> QED BY <1>0, <1>4, <2>1
<1>12. [v \in DOMAIN c.reviews |-> c.reviews[v].body] \in [DOMAIN c.reviews -> Bodies \cup {Blank}]
  BY <1>0, <1>8
<1>13. Working(c) \in View(c)
  BY <1>10, <1>11, <1>12 DEF Working, View
<1> QED BY <1>3, <1>4, <1>5, <1>6, <1>7, <1>8, <1>9, <1>13

\* Nothing has moved when the transaction begins.
LEMMA GrownFirst ==
    ASSUME NEW ts \in Seq(TaskRow), NEW ws, NEW source
    PROVE  Grown(ts, ts, ws, source)
BY DEF Grown

\* A batch that passes validate opens a transaction whose overlay shows the rows as they
\* are.
LEMMA BeginHolds ==
    ASSUME NowHolds, weeks \in [WeekIds -> WeekStatus],
           NEW m \in {"accept", "dry"}, NEW p \in ProposalIds, NEW ops \in Seq(Sin90Op), NEW source \in Sources,
           validate(ops, source), Begin(m, p, ops, source),
           UNCHANGED <<areas, directions, weeks, tasks, rhythms, bodies>>
    PROVE  /\ tx' \in OpenTx /\ tx'.next \in 1..Len(tx'.ops) + 1
           /\ NowHolds' /\ TablesHold(tx.saved)' /\ Moved' /\ Overlay'
<1>1. /\ tx'.mode = m /\ tx'.proposal = p /\ tx'.ops = ops /\ tx'.source = source /\ tx'.next = 1
      /\ tx'.saved = currentTables
      /\ tx' = [mode |-> m, proposal |-> p, ops |-> ops, source |-> source, next |-> 1, saved |-> currentTables]
  BY DEF Begin
<1>2. /\ currentTables.areas = areas /\ currentTables.directions = directions /\ currentTables.tasks = tasks
      /\ currentTables.rhythms = rhythms /\ currentTables.bodies = bodies
  BY DEF currentTables
<1>3. areas \in Seq(AreaRow) /\ directions \in Seq(DirectionRow) /\ tasks \in Seq(TaskRow)
      /\ rhythms \in Seq(RhythmRow) /\ bodies \in [ReviewIds -> ReviewRow]
  BY DEF NowHolds, AreasHold, TasksHold, RhythmsHold
<1>4. currentTables \in AnyTables
  BY <1>3 DEF currentTables, AnyTables
<1>5. tx' \in OpenTx /\ tx'.next \in 1..Len(tx'.ops) + 1
  BY <1>1, <1>4 DEF OpenTx
<1>6. NowHolds'
  BY DEF NowHolds
<1>7. TablesHold(tx.saved)'
  BY <1>1, <1>2 DEF NowHolds, TablesHold
<1>8. Moved'
  <2>1. Grown(tasks, tasks, weeks, source)
    BY <1>3, GrownFirst
  <2> QED BY <1>1, <1>2, <2>1 DEF Moved
<1>9. Overlay'
  <2>1. PICK c : c = build_snapshot(ops)
    OBVIOUS
  <2>2. /\ Working(c) \in View(c)
        /\ DOMAIN c.tasks \cup DOMAIN c.task_directions \subseteq DOMAIN tasks
        /\ \A t \in DOMAIN c.task_parents : t \in DOMAIN tasks /\ c.task_parents[t] = tasks[t].parent
        /\ \A w \in DOMAIN c.weeks : c.weeks[w] = weeks[w]
        /\ \A r \in DOMAIN c.rhythms_retired :
              r \in DOMAIN rhythms /\ (~c.rhythms_retired[r] => rhythms[r].status # "retired")
        /\ \A v \in DOMAIN c.reviews : v \in ReviewIds /\ c.reviews[v].status = bodies[v].status
        /\ \A t \in c.triage_via_classify : t \in DOMAIN tasks /\ tasks[t].via = "classify"
        /\ \A t \in DOMAIN c.tasks : c.tasks[t] = tasks[t].status
        /\ \A t \in DOMAIN c.task_directions : c.task_directions[t] = tasks[t].direction
        /\ \A v \in DOMAIN c.reviews : c.reviews[v].body = bodies[v].body
    BY <2>1, SnapshotHolds
  <2>3. Viewed(ops, Len(ops), c, source).ok
    BY <2>1, ValidateIsViewed
  <2>4. Truthful(c)'
    BY <1>1, <1>2, <2>2 DEF Truthful
  <2>5. Viewed(ops, 0, c, source) = Working(c)
    BY ViewedFirst
  <2>6. Mirrors(Working(c))'
    BY <2>2 DEF Mirrors, Working
  <2>7. tx'.next - 1 = 0
    BY <1>1
  <2>8. Viewed(tx'.ops, Len(tx'.ops), c, tx'.source).ok
    BY <1>1, <2>3
  <2>9. Viewed(tx'.ops, tx'.next - 1, c, tx'.source) = Working(c)
    BY <1>1, <2>5, <2>7
  <2> QED BY <2>4, <2>6, <2>8, <2>9 DEF Overlay
<1> QED BY <1>5, <1>6, <1>7, <1>8, <1>9

-----------------------------------------------------------------------------
(* Requests keep the invariant. *)

\* A transaction that stays open over steps that touch no table stays sound.
LEMMA TxKept ==
    ASSUME TxInv, UNCHANGED <<areas, directions, weeks, tasks, rhythms, bodies, tx>>
    PROVE  TxInv'
<1>1. SUFFICES ASSUME tx # Idle PROVE TablesHold(tx.saved)' /\ Moved' /\ Overlay'
  BY DEF TxInv, Idle
<1>2. TablesHold(tx.saved) /\ Moved /\ Overlay
  BY <1>1 DEF TxInv
<1>3. TablesHold(tx.saved)'
  BY <1>2 DEF TablesHold
<1>4. Moved'
  BY <1>2 DEF Moved
<1>5. PICK c : Truthful(c) /\ Viewed(tx.ops, Len(tx.ops), c, tx.source).ok
               /\ Mirrors(Viewed(tx.ops, tx.next - 1, c, tx.source))
  BY <1>2 DEF Overlay
<1>6. Truthful(c)'
  BY <1>5 DEF Truthful
<1>7. Mirrors(Viewed(tx.ops, tx.next - 1, c, tx.source))'
  BY <1>5 DEF Mirrors
<1> QED BY <1>3, <1>4, <1>5, <1>6, <1>7 DEF Overlay

\* A direct write keeps the invariant.
LEMMA DirectKeeps ==
    ASSUME GateInv, KeysInv', DirectShape
    PROVE  GateInv'
<1>1. NowHolds' /\ UNCHANGED <<world, proposals, rejections, tx>>
  BY DEF DirectShape
<1>2. TxInv'
  <2>1. CASE tx = Idle
    BY <1>1, <2>1 DEF TxInv, Idle
  <2>2. CASE UNCHANGED <<areas, directions, weeks, tasks, rhythms, bodies>>
    BY <1>1, <2>2, TxKept DEF GateInv
  <2> QED BY <2>1, <2>2 DEF DirectShape
<1>3. actor' \in Actors
  BY DEF DirectShape, Actors, Roles, GateInv, GateTyped
<1>4. GateTyped'
  BY <1>1, <1>3 DEF GateInv, GateTyped, DirectShape, Idle, OpenTx
<1>5. Lawful'
  BY <1>1 DEF GateInv, Lawful, Allowed, allowed_ops, Idle
<1>6. Claimed'
  BY <1>1 DEF GateInv, Claimed, Idle
<1>7. AcceptIsHuman'
  <2>1. CASE tx = Idle
    BY <1>1, <2>1 DEF AcceptIsHuman, Idle
  <2>2. CASE UNCHANGED tasks
    <3>1. ~Noted
      <4>1. tasks \in Seq(TaskRow)
        BY DEF GateInv, NowHolds, TasksHold
      <4>2. \A e : Append(tasks, e) # tasks
        BY <4>1
      <4> QED BY <2>2, <4>2 DEF Noted
    <3> QED BY <1>1, <3>1 DEF GateInv, AcceptIsHuman, DirectShape, Idle
  <2> QED BY <2>1, <2>2 DEF DirectShape
<1> QED BY <1>1, <1>2, <1>4, <1>5, <1>6, <1>7 DEF GateInv

\* So does submitting, accepting and rejecting.
LEMMA GateKeeps ==
    ASSUME GateInv, KeysInv', Gate
    PROVE  GateInv'
<1>0. /\ KeysInv /\ world \in Worlds /\ weeks \in [WeekIds -> WeekStatus] /\ actor \in Actors
      /\ pack \in [todo : Seq({"area", "direction"}), area : Nat \cup {None}]
      /\ proposals \in [ProposalIds -> ProposalRow]
      /\ rejections \in Seq([proposal : ProposalIds, source : Sources])
      /\ NowHolds /\ Lawful /\ Claimed
      /\ \A p \in ProposalIds : proposals[p].ops \in Seq(Sin90Op) /\ proposals[p].source \in Sources
  <2>1. GateInv
    OBVIOUS
  <2>2. proposals \in [ProposalIds -> ProposalRow]
    BY <2>1 DEF GateInv, GateTyped
  <2>3. \A r \in ProposalRow : r.ops \in Seq(Sin90Op) /\ r.source \in Sources
    BY DEF ProposalRow
  <2> QED BY <2>1, <2>2, <2>3 DEF GateInv, GateTyped
<1>1. ASSUME NEW p \in ProposalIds, NEW b \in world.batches, b.source = "direct", post_proposals(p, b.ops)
      PROVE GateInv'
  <2>1. b.ops \in Seq(Sin90Op)
    BY <1>0, BatchesAssumption
  <2>2. /\ submit_proposal(p, b.ops) /\ UNCHANGED <<world, pack>> /\ actor' \in Actors
    BY <1>1, AnyRequest DEF post_proposals, Roles, Actors
  <2>3. /\ tx = Idle /\ UNCHANGED <<areas, directions, weeks, tasks, rhythms, bodies, rejections, tx>>
        /\ \/ UNCHANGED proposals
           \/ /\ validate(b.ops, "direct")
              /\ proposals' = [proposals EXCEPT ![p] = Pending(b.ops, "direct")]
    BY <2>2 DEF submit_proposal
  <2>4. Pending(b.ops, "direct") \in ProposalRow /\ Pending(b.ops, "direct").status = "pending"
        /\ Pending(b.ops, "direct").ops = b.ops /\ Pending(b.ops, "direct").source = "direct"
    BY <2>1 DEF Pending, ProposalRow, ProposalStatus, Sources
  <2>5. proposals' \in [ProposalIds -> ProposalRow]
    BY <1>0, <2>3, <2>4
  <2>6. GateTyped'
    BY <1>0, <2>2, <2>3, <2>5 DEF GateTyped
  <2>7. \A q \in ProposalIds : proposals'[q] = proposals[q]
           \/ (proposals'[q] = Pending(b.ops, "direct") /\ validate(b.ops, "direct"))
    BY <1>0, <2>3
  <2>8. Lawful'
    BY <1>0, <2>3, <2>4, <2>7 DEF Lawful, Allowed, validate
  <2>9. Claimed'
    BY <1>0, <2>3, <2>4, <2>7 DEF Claimed
  <2>10. NowHolds'
    BY <1>0, <2>3 DEF NowHolds
  <2> QED BY <2>3, <2>6, <2>8, <2>9, <2>10 DEF GateInv, TxInv, AcceptIsHuman
<1>2. ASSUME NEW p \in ProposalIds, NEW b \in world.batches, b.source \in Capabilities, ai_submit(b.source, p, b.ops)
      PROVE GateInv'
  <2>1. b.ops \in Seq(Sin90Op) /\ b.source \in Sources
    BY <1>0, BatchesAssumption
  <2>2. /\ submit(b.source, p, b.ops) /\ UNCHANGED <<world, pack>> /\ actor' \in Actors
    BY <1>2 DEF ai_submit, Actors
  <2>3. /\ tx = Idle /\ UNCHANGED <<areas, directions, weeks, tasks, rhythms, bodies, proposals, rejections>>
        /\ proposals[p].status = "absent" /\ allowed_ops(b.source, b.ops)
        /\ validate(b.ops, b.source) /\ Begin("dry", p, b.ops, b.source)
    BY <2>2 DEF submit
  <2>4. /\ tx' \in OpenTx /\ tx'.next \in 1..Len(tx'.ops) + 1
        /\ NowHolds' /\ TablesHold(tx.saved)' /\ Moved' /\ Overlay'
    BY <1>0, <2>1, <2>3, BeginHolds
  <2>5. tx'.mode = "dry" /\ tx'.proposal = p /\ tx'.ops = b.ops /\ tx'.source = b.source
    BY <2>3 DEF Begin
  <2>6. GateTyped'
    BY <1>0, <2>2, <2>3, <2>4 DEF GateTyped
  <2>7. Lawful'
    BY <1>0, <2>3, <2>5 DEF Lawful, Allowed, allowed_ops
  <2>8. Claimed'
    BY <1>0, <2>3, <2>5 DEF Claimed
  <2> QED BY <2>4, <2>5, <2>6, <2>7, <2>8 DEF GateInv, TxInv, AcceptIsHuman
<1>3. ASSUME NEW p \in ProposalIds, post_accept(p) PROVE GateInv'
  <2>1. /\ apply_proposal(p) /\ UNCHANGED <<world, pack>> /\ actor' = "human"
    BY <1>0, <1>3, HumanRequest DEF post_accept
  <2>2. /\ tx = Idle /\ UNCHANGED <<areas, directions, weeks, tasks, rhythms, bodies, rejections>>
        /\ proposals[p].status = "pending"
        /\ validate(proposals[p].ops, proposals[p].source)
        /\ Begin("accept", p, proposals[p].ops, proposals[p].source)
        /\ proposals' = [proposals EXCEPT ![p].status = "applying"]
    BY <2>1 DEF apply_proposal
  <2>3. /\ tx' \in OpenTx /\ tx'.next \in 1..Len(tx'.ops) + 1
        /\ NowHolds' /\ TablesHold(tx.saved)' /\ Moved' /\ Overlay'
    BY <1>0, <2>2, BeginHolds
  <2>4. tx'.mode = "accept" /\ tx'.proposal = p /\ tx'.ops = proposals[p].ops /\ tx'.source = proposals[p].source
    BY <2>2 DEF Begin
  <2>5. /\ proposals' \in [ProposalIds -> ProposalRow]
        /\ proposals'[p].status = "applying" /\ proposals'[p].ops = proposals[p].ops
        /\ proposals'[p].source = proposals[p].source
        /\ \A q \in ProposalIds : q # p => proposals'[q] = proposals[q]
    BY <1>0, <2>2 DEF ProposalRow, ProposalStatus
  <2>6. GateTyped'
    BY <1>0, <2>1, <2>2, <2>3, <2>5 DEF GateTyped, Actors
  <2>7. Lawful'
    <3>1. /\ proposals[p].ops # <<>> /\ Allowed(proposals[p].source, proposals[p].ops)
          /\ "pending" # "absent"
      BY <1>0, <2>2 DEF Lawful
    <3>2. \A q \in ProposalIds : proposals'[q].status # "absent" =>
             proposals'[q].ops # <<>> /\ Allowed(proposals'[q].source, proposals'[q].ops)
      BY <1>0, <2>5, <3>1 DEF Lawful
    <3> QED BY <2>4, <3>1, <3>2 DEF Lawful
  <2>8. Claimed'
    <3>1. tx' # Idle
      BY <2>4 DEF Idle
    <3> QED BY <1>0, <2>2, <2>4, <2>5, <3>1 DEF Claimed
  <2> QED BY <2>1, <2>3, <2>6, <2>7, <2>8 DEF GateInv, TxInv, AcceptIsHuman
<1>4. ASSUME NEW p \in ProposalIds, post_reject(p) PROVE GateInv'
  <2>1. /\ reject_proposal(p) /\ UNCHANGED <<world, pack>> /\ actor' = "human"
    BY <1>0, <1>4, HumanRequest DEF post_reject
  <2>2. /\ tx = Idle /\ UNCHANGED <<areas, directions, weeks, tasks, rhythms, bodies, tx>>
        /\ proposals[p].status = "pending"
        /\ proposals' = [proposals EXCEPT ![p].status = "rejected"]
        /\ rejections' = Append(rejections, [proposal |-> p, source |-> proposals[p].source])
    BY <2>1 DEF reject_proposal
  <2>3. /\ proposals' \in [ProposalIds -> ProposalRow]
        /\ proposals'[p].status = "rejected" /\ proposals'[p].ops = proposals[p].ops
        /\ proposals'[p].source = proposals[p].source
        /\ \A q \in ProposalIds : q # p => proposals'[q] = proposals[q]
    BY <1>0, <2>2 DEF ProposalRow, ProposalStatus
  <2>4. rejections' \in Seq([proposal : ProposalIds, source : Sources])
    BY <1>0, <2>2
  <2>5. GateTyped'
    BY <1>0, <2>1, <2>2, <2>3, <2>4 DEF GateTyped, Actors
  <2>6. Lawful'
    BY <1>0, <2>2, <2>3 DEF Lawful, Allowed, allowed_ops
  <2>7. Claimed'
    BY <1>0, <2>2, <2>3 DEF Claimed
  <2>8. NowHolds'
    BY <1>0, <2>2 DEF NowHolds
  <2> QED BY <2>2, <2>5, <2>6, <2>7, <2>8 DEF GateInv, TxInv, AcceptIsHuman
<1> QED BY <1>1, <1>2, <1>3, <1>4 DEF Gate

-----------------------------------------------------------------------------
(* One operation is applied. *)

CurrentOp == tx.ops[tx.next]

\* What validate found of the operation the transaction has come to is so of the
\* rows themselves, and the rows are ones the transaction found.
Found(op) ==
    /\ HoldsNow(op)
    /\ op.op \in {"TransitionTask", "CarryOverTask", "AssignTaskDirection"} => op.task \in DOMAIN tx.saved.tasks
    /\ op.op = "AdjustRhythm" => op.rhythm \in DOMAIN rhythms /\ check_alloc(op.alloc)
    /\ op.op = "AssignTaskDirection" =>
          \/ tasks[op.task].direction = None
          \/ tx.source = "direct"
          \/ tx.saved.tasks[op.task].via = "classify"

\* What the invariant says while an operation is still to be applied.
LEMMA TxFacts ==
    ASSUME GateInv, Applying
    PROVE  /\ tx # Idle /\ tx \in OpenTx /\ tx.ops \in Seq(Sin90Op) /\ tx.source \in Sources
           /\ tx.next \in Nat /\ tx.next - 1 \in Nat /\ (tx.next - 1) + 1 = tx.next /\ tx.next <= Len(tx.ops)
           /\ CurrentOp \in Sin90Op
           /\ tx.saved.tasks \in Seq(TaskRow) /\ tasks \in Seq(TaskRow)
           /\ DOMAIN tx.saved.tasks \subseteq DOMAIN tasks /\ DOMAIN tasks \subseteq Nat
           /\ TablesHold(tx.saved) /\ Moved /\ Overlay /\ NowHolds
<1>1. tx # Idle /\ tx.next <= Len(tx.ops)
  BY DEF Applying
<1>2. tx \in OpenTx /\ tx.next \in 1..Len(tx.ops) + 1
  BY <1>1 DEF GateInv, GateTyped
<1>3. tx.ops \in Seq(Sin90Op) /\ tx.source \in Sources /\ tx.next \in Nat
  BY <1>2 DEF OpenTx
<1>4. tx.next - 1 \in Nat /\ (tx.next - 1) + 1 = tx.next /\ CurrentOp \in Sin90Op
  BY <1>1, <1>2, <1>3 DEF CurrentOp
<1>5. TablesHold(tx.saved) /\ Moved /\ Overlay /\ NowHolds
  BY <1>1 DEF GateInv, TxInv
<1>6. tx.saved.tasks \in Seq(TaskRow) /\ tasks \in Seq(TaskRow) /\ Len(tx.saved.tasks) <= Len(tasks)
  BY <1>5 DEF TablesHold, NowHolds, TasksHold, Moved, Grown
<1>7. DOMAIN tx.saved.tasks \subseteq DOMAIN tasks /\ DOMAIN tasks \subseteq Nat
  BY <1>6
<1> QED BY <1>1, <1>2, <1>3, <1>4, <1>5, <1>6, <1>7

\* The view validate had when it came to this operation.
LEMMA ViewNow ==
    ASSUME GateInv, Applying
    PROVE  \E c : \E w \in View(c) :
              /\ Truthful(c) /\ Mirrors(w) /\ Passes(w, CurrentOp, tx.source)
              /\ Viewed(tx.ops, Len(tx.ops), c, tx.source).ok
              /\ Viewed(tx.ops, tx.next, c, tx.source) = Overlaid(w, CurrentOp)
<1>1. PICK c : Truthful(c) /\ Viewed(tx.ops, Len(tx.ops), c, tx.source).ok
               /\ Mirrors(Viewed(tx.ops, tx.next - 1, c, tx.source))
  BY TxFacts DEF Overlay
<1>2. Working(c) \in View(c)
  BY <1>1 DEF Truthful
<1>3. PICK k : k = tx.next - 1
  OBVIOUS
<1>4. k \in Nat /\ k + 1 <= Len(tx.ops) /\ k + 1 = tx.next /\ tx.ops \in Seq(Sin90Op)
  BY <1>3, TxFacts
<1>5. /\ Viewed(tx.ops, k, c, tx.source) \in View(c)
      /\ Passes(Viewed(tx.ops, k, c, tx.source), tx.ops[k + 1], tx.source)
      /\ Viewed(tx.ops, k + 1, c, tx.source) = Overlaid(Viewed(tx.ops, k, c, tx.source), tx.ops[k + 1])
  BY <1>1, <1>2, <1>4, EachPasses
<1> QED BY <1>1, <1>3, <1>4, <1>5 DEF CurrentOp

\* validate is as good as its word: what it checked of the operation over the overlay is
\* true of the tables as the earlier operations left them.
LEMMA WhatIsFound ==
    ASSUME GateInv, Applying
    PROVE  Found(CurrentOp)
<1>1. PICK c : \E w \in View(c) : Truthful(c) /\ Mirrors(w) /\ Passes(w, CurrentOp, tx.source)
  BY ViewNow
<1>2. PICK w \in View(c) : Truthful(c) /\ Mirrors(w) /\ Passes(w, CurrentOp, tx.source)
  BY <1>1
<1>3. PICK o : o = CurrentOp
  OBVIOUS
<1>4. /\ w.ctx = c /\ DOMAIN w.status = DOMAIN c.tasks /\ DOMAIN w.direction = DOMAIN c.task_directions
      /\ DOMAIN w.body = DOMAIN c.reviews
  BY DEF View
<1>5. o \in Sin90Op /\ o.op \in OpKinds /\ Passes(w, o, tx.source)
  BY <1>2, <1>3, TxFacts, OpFields
<1>6. /\ \A t \in DOMAIN w.status : t \in DOMAIN tx.saved.tasks /\ w.status[t] = tasks[t].status
      /\ \A t \in DOMAIN w.direction : t \in DOMAIN tx.saved.tasks /\ w.direction[t] = tasks[t].direction
      /\ \A v \in DOMAIN c.reviews : w.body[v] = bodies[v].body
  BY <1>2, <1>4 DEF Truthful, Mirrors
<1>7. \A x : require_open_week(w, x) => week_is_open(weeks[x])
  BY <1>2, <1>4 DEF require_open_week, Truthful
<1>8. CASE o.op \in {"CreateArea", "CreateDirection"}
  BY <1>3, <1>8 DEF Found, HoldsNow
<1>9. CASE o.op = "CreateTask"
  <2>1. o.parent = None \/ (o.parent \in DOMAIN c.task_parents /\ c.task_parents[o.parent] = None)
    BY <1>4, <1>5, <1>9 DEF Passes
  <2>2. o.parent # None => o.parent \in DOMAIN tx.saved.tasks /\ tx.saved.tasks[o.parent].parent = None
    BY <1>2, <2>1 DEF Truthful
  <2>3. o.parent # None => TaskExists(o.parent) /\ tasks[o.parent].parent = None
    BY <2>2, TxFacts DEF Moved, Grown, TaskExists
  <2> QED BY <1>3, <1>9, <2>3 DEF Found, HoldsNow, parent_allowed
<1>10. CASE o.op = "TransitionTask"
  <2>1. o.task \in DOMAIN w.status /\ task_transition_allowed(w.status[o.task], o.to)
    BY <1>5, <1>10 DEF Passes
  <2> QED BY <1>3, <1>6, <1>10, <2>1 DEF Found, HoldsNow
<1>11. CASE o.op \in {"CreateTasks", "ReorderTasks"}
  <2>1. require_open_week(w, o.week)
    BY <1>5, <1>11 DEF Passes
  <2> QED BY <1>3, <1>7, <1>11, <2>1 DEF Found, HoldsNow
<1>12. CASE o.op = "AdjustRhythm"
  <2>1. o.rhythm \in DOMAIN c.rhythms_retired /\ ~c.rhythms_retired[o.rhythm] /\ check_alloc(o.alloc)
    BY <1>4, <1>5, <1>12 DEF Passes
  <2>2. o.rhythm \in DOMAIN tx.saved.rhythms /\ tx.saved.rhythms[o.rhythm].status # "retired"
    BY <1>2, <2>1 DEF Truthful
  <2>3. o.rhythm \in DOMAIN rhythms /\ rhythms[o.rhythm].status # "retired"
    BY <2>2, TxFacts DEF Moved
  <2>4. rhythms[o.rhythm].status \in RhythmStatus
    <3>1. rhythms \in Seq(RhythmRow)
      BY TxFacts DEF NowHolds, RhythmsHold
    <3>2. rhythms[o.rhythm] \in RhythmRow
      BY <2>3, <3>1
    <3> QED BY <3>2 DEF RhythmRow
  <2>5. rhythm_transition_allowed(rhythms[o.rhythm].status, "adjusted")
    BY <2>3, <2>4 DEF rhythm_transition_allowed, RhythmStatus
  <2> QED BY <1>3, <1>12, <2>1, <2>3, <2>5 DEF Found, HoldsNow
<1>13. CASE o.op = "CarryOverTask"
  <2>1. o.task \in DOMAIN w.status /\ task_transition_allowed(w.status[o.task], "carried_over")
        /\ require_open_week(w, o.to)
    BY <1>5, <1>13 DEF Passes
  <2> QED BY <1>3, <1>6, <1>7, <1>13, <2>1 DEF Found, HoldsNow
<1>14. CASE o.op = "AssignTaskDirection"
  <2>1. o.task \in DOMAIN w.direction /\ o.task \in DOMAIN w.status /\ ~task_is_terminal(w.status[o.task])
        /\ assignable(w, o, tx.source)
    BY <1>5, <1>14 DEF Passes
  <2>2. w.direction[o.task] = tasks[o.task].direction /\ w.status[o.task] = tasks[o.task].status
        /\ o.task \in DOMAIN tx.saved.tasks
    BY <1>6, <2>1
  <2>3. \/ tasks[o.task].direction = None
        \/ /\ tasks[o.task].direction = Triage /\ o.direction # Triage
           /\ tx.source = "direct" \/ tx.saved.tasks[o.task].via = "classify"
    BY <1>2, <1>4, <2>1, <2>2 DEF assignable, Truthful
  <2> QED BY <1>3, <1>14, <2>1, <2>2, <2>3 DEF Found, HoldsNow
<1>15. CASE o.op = "DraftReviewBody"
  <2>1. o.review \in DOMAIN c.reviews /\ c.reviews[o.review].status = "draft" /\ w.body[o.review] = o.base
    BY <1>4, <1>5, <1>15 DEF Passes
  <2>2. o.review \in ReviewIds /\ tx.saved.bodies[o.review].status = "draft"
    BY <1>2, <2>1 DEF Truthful
  <2>3. bodies[o.review].status = "draft"
    BY <2>2, TxFacts DEF Moved
  <2> QED BY <1>3, <1>6, <1>15, <2>1, <2>3 DEF Found, HoldsNow
<1> QED BY <1>5, <1>8, <1>9, <1>10, <1>11, <1>12, <1>13, <1>14, <1>15 DEF OpKinds

\* Rewriting a row that is not settled, and was there from the start, is within bounds.
LEMMA GrownReplace ==
    ASSUME NEW was \in Seq(TaskRow), NEW now \in Seq(TaskRow), NEW us, NEW ws, NEW source,
           Grown(was, now, ws, source), NEW t \in DOMAIN was, ~Settled(now[t], ws),
           Len(us) = Len(now), DOMAIN us = DOMAIN now, \A i \in DOMAIN now : i # t => us[i] = now[i],
           us[t].parent = now[t].parent, us[t].week = now[t].week,
           us[t].direction = None => now[t].direction = None,
           us[t].direction # was[t].direction =>
              was[t].direction \in {None, Triage} /\ (was[t].via = "direct" => source = "direct")
    PROVE  Grown(was, us, ws, source)
<1>1. DOMAIN was \subseteq DOMAIN now
  BY DEF Grown
<1> QED BY <1>1 DEF Grown

\* So is inserting rows into no week, or into an open one.
LEMMA GrownExtend ==
    ASSUME NEW was \in Seq(TaskRow), NEW now \in Seq(TaskRow), NEW us \in Seq(TaskRow), NEW ws, NEW source,
           Grown(was, now, ws, source), Len(now) <= Len(us), \A i \in DOMAIN now : us[i] = now[i],
           \A i \in DOMAIN us \ DOMAIN now : us[i].week # None => week_is_open(ws[us[i].week])
    PROVE  Grown(was, us, ws, source)
<1>1. DOMAIN was \subseteq DOMAIN now /\ DOMAIN now \subseteq DOMAIN us
  BY DEF Grown
<1> QED BY <1>1 DEF Grown

StatusBecomes(op, t, s) ==
    IF op.op = "TransitionTask" /\ t = op.task THEN op.to
    ELSE IF op.op = "CarryOverTask" /\ t = op.task THEN "carried_over" ELSE s
DirectionBecomes(op, t, d) == IF op.op = "AssignTaskDirection" /\ t = op.task THEN op.direction ELSE d
BodyBecomes(op, v, b) == IF op.op = "DraftReviewBody" /\ v = op.review THEN op.body ELSE b

\* What the overlay says after an operation, row by row.
LEMMA OverlaidReads ==
    ASSUME NEW c, NEW w \in View(c), NEW op
    PROVE  /\ DOMAIN Overlaid(w, op).status = DOMAIN c.tasks
           /\ \A t \in DOMAIN c.tasks : Overlaid(w, op).status[t] = StatusBecomes(op, t, w.status[t])
           /\ DOMAIN Overlaid(w, op).direction = DOMAIN c.task_directions
           /\ \A t \in DOMAIN c.task_directions :
                 Overlaid(w, op).direction[t] = DirectionBecomes(op, t, w.direction[t])
           /\ DOMAIN Overlaid(w, op).body = DOMAIN c.reviews
           /\ \A v \in DOMAIN c.reviews : Overlaid(w, op).body[v] = BodyBecomes(op, v, w.body[v])
<1>1. /\ w.status \in [DOMAIN c.tasks -> TaskStatus]
      /\ w.direction \in [DOMAIN c.task_directions -> Nat \cup {None, Triage}]
      /\ w.body \in [DOMAIN c.reviews -> Bodies \cup {Blank}]
  BY DEF View
<1>2. /\ Overlaid(w, op).status = StatusAfter(w, op) /\ Overlaid(w, op).direction = DirectionAfter(w, op)
      /\ Overlaid(w, op).body = BodyAfter(w, op)
  BY DEF Overlaid, Row
<1>3. DOMAIN StatusAfter(w, op) = DOMAIN c.tasks
      /\ \A t \in DOMAIN c.tasks : StatusAfter(w, op)[t] = StatusBecomes(op, t, w.status[t])
  BY <1>1 DEF StatusAfter, Put, StatusBecomes
<1>4. DOMAIN DirectionAfter(w, op) = DOMAIN c.task_directions
      /\ \A t \in DOMAIN c.task_directions : DirectionAfter(w, op)[t] = DirectionBecomes(op, t, w.direction[t])
  BY <1>1 DEF DirectionAfter, Put, DirectionBecomes
<1>5. DOMAIN BodyAfter(w, op) = DOMAIN c.reviews
      /\ \A v \in DOMAIN c.reviews : BodyAfter(w, op)[v] = BodyBecomes(op, v, w.body[v])
  BY <1>1 DEF BodyAfter, Put, BodyBecomes
<1> QED BY <1>2, <1>3, <1>4, <1>5

\* What an arm of apply_op does to the tables, as far as the invariant asks.
Applied(op) ==
    /\ NowHolds'
    /\ Grown(tx.saved.tasks, tasks', weeks, tx.source)
    /\ DOMAIN rhythms' = DOMAIN rhythms
    /\ \A r \in DOMAIN rhythms : rhythms'[r].status = "retired" => rhythms[r].status = "retired"
    /\ \A v \in ReviewIds : /\ bodies'[v].status = bodies[v].status
                            /\ bodies'[v].body = BodyBecomes(op, v, bodies[v].body)
    /\ \A t \in DOMAIN tx.saved.tasks :
          /\ tasks'[t].status = StatusBecomes(op, t, tasks[t].status)
          /\ tasks'[t].direction = DirectionBecomes(op, t, tasks[t].direction)

\* An arm that does this keeps the invariant, and the overlay goes along.
LEMMA AppliedKeeps ==
    ASSUME GateInv, KeysInv', Applying, Advance, UNCHANGED <<world, actor, pack>>, Applied(CurrentOp)
    PROVE  GateInv'
<1>1. UNCHANGED <<weeks, proposals, rejections>> /\ tx' = [tx EXCEPT !.next = @ + 1]
  BY DEF Advance
<1>2. /\ tx' \in OpenTx /\ tx' # Idle /\ tx'.next = tx.next + 1 /\ tx'.mode = tx.mode /\ tx'.proposal = tx.proposal
      /\ tx'.ops = tx.ops /\ tx'.source = tx.source /\ tx'.saved = tx.saved
      /\ tx'.next \in 1..Len(tx'.ops) + 1 /\ tx'.next - 1 = tx.next
  BY <1>1, TxFacts DEF OpenTx, Idle
<1>3. GateTyped'
  BY <1>1, <1>2 DEF GateInv, GateTyped
<1>4. Lawful'
  BY <1>1, <1>2, TxFacts DEF GateInv, Lawful
<1>5. Claimed'
  BY <1>1, <1>2, TxFacts DEF GateInv, Claimed
<1>6. AcceptIsHuman'
  BY <1>2, TxFacts DEF GateInv, AcceptIsHuman
<1>7. TablesHold(tx.saved)'
  BY <1>2, TxFacts DEF TablesHold
<1>8. Moved'
  <2>1. Moved
    BY TxFacts
  <2> QED BY <1>1, <1>2, <2>1 DEF Moved, Applied
<1>9. Overlay'
  <2>1. PICK c : \E w \in View(c) :
              /\ Truthful(c) /\ Mirrors(w)
              /\ Viewed(tx.ops, Len(tx.ops), c, tx.source).ok
              /\ Viewed(tx.ops, tx.next, c, tx.source) = Overlaid(w, CurrentOp)
    BY ViewNow
  <2>2. PICK w \in View(c) :
              /\ Truthful(c) /\ Mirrors(w)
              /\ Viewed(tx.ops, Len(tx.ops), c, tx.source).ok
              /\ Viewed(tx.ops, tx.next, c, tx.source) = Overlaid(w, CurrentOp)
    BY <2>1
  <2>3. PICK o : o = CurrentOp
    OBVIOUS
  <2>4. PICK x : x = Overlaid(w, o)
    OBVIOUS
  <2>5. /\ DOMAIN x.status = DOMAIN c.tasks
        /\ \A t \in DOMAIN c.tasks : x.status[t] = StatusBecomes(o, t, w.status[t])
        /\ DOMAIN x.direction = DOMAIN c.task_directions
        /\ \A t \in DOMAIN c.task_directions : x.direction[t] = DirectionBecomes(o, t, w.direction[t])
        /\ DOMAIN x.body = DOMAIN c.reviews
        /\ \A v \in DOMAIN c.reviews : x.body[v] = BodyBecomes(o, v, w.body[v])
    BY <2>4, OverlaidReads
  <2>6. /\ DOMAIN w.status = DOMAIN c.tasks /\ DOMAIN w.direction = DOMAIN c.task_directions
        /\ DOMAIN w.body = DOMAIN c.reviews
    BY DEF View
  <2>7. /\ \A t \in DOMAIN c.tasks : t \in DOMAIN tx.saved.tasks /\ w.status[t] = tasks[t].status
        /\ \A t \in DOMAIN c.task_directions : t \in DOMAIN tx.saved.tasks /\ w.direction[t] = tasks[t].direction
        /\ \A v \in DOMAIN c.reviews : v \in ReviewIds /\ w.body[v] = bodies[v].body
    BY <2>2, <2>6 DEF Truthful, Mirrors
  <2>8. /\ \A t \in DOMAIN tx.saved.tasks :
              /\ tasks'[t].status = StatusBecomes(o, t, tasks[t].status)
              /\ tasks'[t].direction = DirectionBecomes(o, t, tasks[t].direction)
        /\ \A v \in ReviewIds : bodies'[v].body = BodyBecomes(o, v, bodies[v].body)
    BY <2>3 DEF Applied
  <2>9. Mirrors(x)'
    BY <2>5, <2>7, <2>8 DEF Mirrors
  <2>10. Truthful(c)'
    BY <1>1, <1>2, <2>2 DEF Truthful
  <2>11. Viewed(tx'.ops, Len(tx'.ops), c, tx'.source).ok /\ Viewed(tx'.ops, tx'.next - 1, c, tx'.source) = x
    BY <1>2, <2>2, <2>3, <2>4
  <2> QED BY <2>9, <2>10, <2>11 DEF Overlay
<1> QED BY <1>3, <1>4, <1>5, <1>6, <1>7, <1>8, <1>9 DEF GateInv, TxInv, Applied

\* An arm that touches neither the tasks nor the Reviews.
LEMMA AppliedElsewhere ==
    ASSUME GateInv, Applying, UNCHANGED <<tasks, bodies>>, NowHolds',
           CurrentOp.op \in {"CreateArea", "CreateDirection", "ReorderTasks", "AdjustRhythm"},
           DOMAIN rhythms' = DOMAIN rhythms,
           \A r \in DOMAIN rhythms : rhythms'[r].status = "retired" => rhythms[r].status = "retired"
    PROVE  Applied(CurrentOp)
BY TxFacts DEF Applied, Moved, StatusBecomes, DirectionBecomes, BodyBecomes

\* An arm that touches the tasks only.
LEMMA AppliedToTasks ==
    ASSUME GateInv, Applying, UNCHANGED <<areas, directions, rhythms, bodies>>, TasksHold(tasks)',
           CurrentOp.op # "DraftReviewBody",
           Grown(tx.saved.tasks, tasks', weeks, tx.source),
           \A t \in DOMAIN tx.saved.tasks :
              /\ tasks'[t].status = StatusBecomes(CurrentOp, t, tasks[t].status)
              /\ tasks'[t].direction = DirectionBecomes(CurrentOp, t, tasks[t].direction)
    PROVE  Applied(CurrentOp)
<1>1. NowHolds'
  BY TxFacts DEF NowHolds
<1> QED BY <1>1 DEF Applied, BodyBecomes

\* The arm CreateArea.
LEMMA CreateAreaApplied ==
    ASSUME GateInv, apply_CreateArea
    PROVE  Applying /\ Applied(CurrentOp)
<1>1. Applying /\ CurrentOp.op = "CreateArea"
      /\ areas' = Append(areas, [slug |-> allocate_area_slug(CurrentOp.base), status |-> "active"])
      /\ UNCHANGED <<directions, tasks, rhythms, bodies>>
  BY DEF apply_CreateArea, Current, CurrentOp
<1>2. CurrentOp.base \in Seq(Nat)
  BY <1>1, TxFacts, OpFields
<1>3. NowHolds
  BY <1>1, TxFacts
<1>4. AreasHold(areas)'
  BY <1>1, <1>2, <1>3, AreaAppended DEF NowHolds
<1>5. NowHolds'
  BY <1>1, <1>3, <1>4 DEF NowHolds
<1> QED BY <1>1, <1>5, AppliedElsewhere

\* The arm CreateDirection.
LEMMA CreateDirectionApplied ==
    ASSUME GateInv, apply_CreateDirection
    PROVE  Applying /\ Applied(CurrentOp)
<1>1. Applying /\ CurrentOp.op = "CreateDirection" /\ directions' = Append(directions, [area |-> None])
      /\ UNCHANGED <<areas, tasks, rhythms, bodies>>
  BY DEF apply_CreateDirection, Current, CurrentOp
<1>2. NowHolds
  BY <1>1, TxFacts
<1>3. directions' \in Seq(DirectionRow)
  BY <1>1, <1>2 DEF NowHolds, DirectionRow
<1>4. NowHolds'
  BY <1>1, <1>2, <1>3 DEF NowHolds
<1> QED BY <1>1, <1>4, AppliedElsewhere

\* The arm ReorderTasks.
LEMMA ReorderTasksApplied ==
    ASSUME GateInv, apply_ReorderTasks
    PROVE  Applying /\ Applied(CurrentOp)
<1>1. Applying /\ CurrentOp.op = "ReorderTasks" /\ UNCHANGED <<areas, directions, tasks, rhythms, bodies>>
  BY DEF apply_ReorderTasks, Current, CurrentOp
<1>2. NowHolds'
  BY <1>1, TxFacts DEF NowHolds
<1> QED BY <1>1, <1>2, AppliedElsewhere

\* The arm AdjustRhythm: validate saw the Rhythm not retired, and none retires meanwhile.
LEMMA AdjustRhythmApplied ==
    ASSUME GateInv, apply_AdjustRhythm
    PROVE  Applying /\ Applied(CurrentOp)
<1>1. Applying /\ CurrentOp.op = "AdjustRhythm"
      /\ rhythms' = [rhythms EXCEPT ![CurrentOp.rhythm] = [status |-> "adjusted", alloc |-> CurrentOp.alloc]]
      /\ UNCHANGED <<areas, directions, tasks, bodies>>
  BY DEF apply_AdjustRhythm, Current, CurrentOp
<1>2. CurrentOp.alloc \in Seq(Alloc)
  BY <1>1, TxFacts, OpFields
<1>3. CurrentOp.rhythm \in DOMAIN rhythms /\ check_alloc(CurrentOp.alloc)
  BY <1>1, WhatIsFound DEF Found
<1>4. NowHolds /\ RhythmsHold(rhythms)
  BY <1>1, TxFacts DEF NowHolds
<1>5. RhythmsHold(rhythms)' /\ DOMAIN rhythms' = DOMAIN rhythms
  BY <1>1, <1>2, <1>3, <1>4, RhythmAdjusted
<1>6. \A r \in DOMAIN rhythms : rhythms'[r].status = "retired" => rhythms[r].status = "retired"
  BY <1>1
<1>7. NowHolds'
  BY <1>1, <1>4, <1>5 DEF NowHolds
<1> QED BY <1>1, <1>5, <1>6, <1>7, AppliedElsewhere

\* The arm DraftReviewBody.
LEMMA DraftReviewBodyApplied ==
    ASSUME GateInv, apply_DraftReviewBody
    PROVE  Applying /\ Applied(CurrentOp)
<1>1. Applying /\ CurrentOp.op = "DraftReviewBody"
      /\ bodies' = [bodies EXCEPT ![CurrentOp.review].body = CurrentOp.body]
      /\ UNCHANGED <<areas, directions, tasks, rhythms>>
  BY DEF apply_DraftReviewBody, Current, CurrentOp
<1>2. CurrentOp.review \in ReviewIds /\ CurrentOp.body \in Bodies \cup {Blank}
  BY <1>1, TxFacts, OpFields
<1>3. NowHolds /\ bodies \in [ReviewIds -> ReviewRow]
  BY <1>1, TxFacts DEF NowHolds
<1>4. /\ bodies' \in [ReviewIds -> ReviewRow]
      /\ \A v \in ReviewIds : /\ bodies'[v].status = bodies[v].status
                              /\ bodies'[v].body = BodyBecomes(CurrentOp, v, bodies[v].body)
  BY <1>1, <1>2, <1>3 DEF ReviewRow, BodyBecomes
<1>5. NowHolds'
  BY <1>1, <1>3, <1>4 DEF NowHolds
<1>6. Grown(tx.saved.tasks, tasks', weeks, tx.source)
  BY <1>1, TxFacts DEF Moved
<1> QED BY <1>1, <1>4, <1>5, <1>6 DEF Applied, StatusBecomes, DirectionBecomes

\* The arm CreateTask, which does not look at the grandparent itself: validate did.
LEMMA CreateTaskApplied ==
    ASSUME GateInv, apply_CreateTask
    PROVE  Applying /\ Applied(CurrentOp)
<1>1. PICK o : o = CurrentOp
  OBVIOUS
<1>2. PICK row : row = NewTask("backlog", o.direction, None, o.parent, triage_stamp(o.direction), None)
  OBVIOUS
<1>3. Applying /\ o.op = "CreateTask" /\ tasks' = Append(tasks, row)
      /\ UNCHANGED <<areas, directions, rhythms, bodies>>
  BY <1>1, <1>2 DEF apply_CreateTask, Current, CurrentOp
<1>4. o.direction \in Nat \cup {None, Triage} /\ o.parent \in Nat \cup {None}
  BY <1>1, <1>3, TxFacts, OpFields
<1>5. parent_allowed(o.parent)
  BY <1>1, <1>3, WhatIsFound DEF Found, HoldsNow
<1>6. row \in TaskRow
  BY <1>2, <1>4 DEF NewTask, TaskRow, TaskStatus, triage_stamp
<1>7. Fresh(tasks, row) /\ row.week = None
  <2>1. /\ row.parent = o.parent /\ row.from = None /\ row.week = None /\ row.via = triage_stamp(o.direction)
        /\ row.direction = o.direction
    BY <1>2 DEF NewTask
  <2>2. triage_stamp(o.direction) # None <=> o.direction = Triage
    BY PlanningAssumption DEF triage_stamp
  <2> QED BY <1>5, <1>6, <2>1, <2>2 DEF Fresh, parent_allowed, TaskExists
<1>8. /\ tasks \in Seq(TaskRow) /\ TasksHold(tasks) /\ tx.saved.tasks \in Seq(TaskRow)
      /\ DOMAIN tx.saved.tasks \subseteq DOMAIN tasks
      /\ Grown(tx.saved.tasks, tasks, weeks, tx.source)
  BY <1>3, TxFacts DEF NowHolds, Moved
<1>9. TasksHold(tasks)'
  BY <1>3, <1>7, <1>8, FreshKeeps
<1>10. /\ tasks' \in Seq(TaskRow) /\ Len(tasks) <= Len(tasks') /\ \A i \in DOMAIN tasks : tasks'[i] = tasks[i]
       /\ \A i \in DOMAIN tasks' \ DOMAIN tasks : tasks'[i].week = None
  <2>1. /\ tasks' \in Seq(TaskRow) /\ Len(tasks) \in Nat /\ DOMAIN tasks = 1..Len(tasks)
        /\ DOMAIN tasks' = 1..Len(tasks)+1 /\ tasks'[Len(tasks)+1] = row
        /\ \A i \in 1..Len(tasks) : tasks'[i] = tasks[i]
    BY <1>3, <1>6, <1>8, AppendFacts
  <2>2. Len(tasks') = Len(tasks) + 1
    BY <1>3, <1>6, <1>8
  <2> QED BY <1>7, <2>1, <2>2
<1>11. Grown(tx.saved.tasks, tasks', weeks, tx.source)
  BY <1>8, <1>10, GrownExtend
<1>12. \A t \in DOMAIN tx.saved.tasks : tasks'[t] = tasks[t]
  BY <1>8, <1>10
<1> QED BY <1>1, <1>3, <1>9, <1>11, <1>12, AppliedToTasks DEF StatusBecomes, DirectionBecomes

\* The arm CreateTasks, which does not look at the week itself: validate did.
LEMMA CreateTasksApplied ==
    ASSUME GateInv, apply_CreateTasks
    PROVE  Applying /\ Applied(CurrentOp)
<1>1. PICK o : o = CurrentOp
  OBVIOUS
<1>2. PICK rows : rows = [i \in DOMAIN o.tasks |->
                            NewTask("planned", o.tasks[i], o.week, None, triage_stamp(o.tasks[i]), None)]
  OBVIOUS
<1>3. Applying /\ o.op = "CreateTasks" /\ tasks' = tasks \o rows
      /\ UNCHANGED <<areas, directions, rhythms, bodies>>
  BY <1>1, <1>2 DEF apply_CreateTasks, Current, CurrentOp
<1>4. o.week \in WeekIds /\ o.tasks \in Seq(Nat \cup {None, Triage})
  BY <1>1, <1>3, TxFacts, OpFields
<1>5. week_is_open(weeks[o.week])
  BY <1>1, <1>3, WhatIsFound DEF Found, HoldsNow
<1>6. /\ rows \in Seq(TaskRow)
      /\ \A i \in DOMAIN rows : /\ rows[i].parent = None /\ rows[i].from = None /\ rows[i].week = o.week
                                /\ rows[i].via # None <=> rows[i].direction = Triage
  <2>1. \A i \in DOMAIN o.tasks : o.tasks[i] \in Nat \cup {None, Triage}
    BY <1>4
  <2>2. \A d \in Nat \cup {None, Triage} :
           NewTask("planned", d, o.week, None, triage_stamp(d), None) \in TaskRow
    BY <1>4 DEF NewTask, TaskRow, TaskStatus, triage_stamp
  <2>3. DOMAIN rows = DOMAIN o.tasks /\ rows \in [DOMAIN o.tasks -> TaskRow]
    BY <1>2, <2>1, <2>2
  <2>4. rows \in Seq(TaskRow)
    <3>1. Len(o.tasks) \in Nat /\ DOMAIN o.tasks = 1..Len(o.tasks)
      BY <1>4
    <3> QED BY <2>3, <3>1
  <2>5. \A d : triage_stamp(d) # None <=> d = Triage
    BY PlanningAssumption DEF triage_stamp
  <2>6. \A i \in DOMAIN rows : /\ rows[i].parent = None /\ rows[i].from = None /\ rows[i].week = o.week
                               /\ rows[i].via = triage_stamp(o.tasks[i]) /\ rows[i].direction = o.tasks[i]
    BY <1>2 DEF NewTask
  <2> QED BY <2>4, <2>5, <2>6
<1>7. /\ tasks \in Seq(TaskRow) /\ TasksHold(tasks) /\ tx.saved.tasks \in Seq(TaskRow)
      /\ DOMAIN tx.saved.tasks \subseteq DOMAIN tasks
      /\ Grown(tx.saved.tasks, tasks, weeks, tx.source)
  BY <1>3, TxFacts DEF NowHolds, Moved
<1>8. TasksHold(tasks)'
  BY <1>3, <1>6, <1>7, FreshRowsKeep
<1>9. /\ tasks' \in Seq(TaskRow) /\ Len(tasks) <= Len(tasks') /\ \A i \in DOMAIN tasks : tasks'[i] = tasks[i]
      /\ \A i \in DOMAIN tasks' \ DOMAIN tasks : tasks'[i].week = o.week
  <2>1. tasks' \in Seq(TaskRow) /\ Len(tasks') = Len(tasks) + Len(rows) /\ Len(rows) \in Nat /\ Len(tasks) \in Nat
    BY <1>3, <1>6, <1>7
  <2>2. \A i \in 1..Len(tasks) : tasks'[i] = tasks[i]
    BY <1>3, <1>6, <1>7
  <2>3. \A i \in Len(tasks)+1..Len(tasks)+Len(rows) : tasks'[i] = rows[i - Len(tasks)] /\ i - Len(tasks) \in DOMAIN rows
    BY <1>3, <1>6, <1>7
  <2>4. DOMAIN tasks = 1..Len(tasks) /\ DOMAIN tasks' = 1..Len(tasks)+Len(rows)
    BY <1>7, <2>1
  <2>5. \A i \in DOMAIN tasks' \ DOMAIN tasks : i \in Len(tasks)+1..Len(tasks)+Len(rows)
    BY <2>1, <2>4
  <2> QED BY <1>6, <2>1, <2>2, <2>3, <2>4, <2>5
<1>10. Grown(tx.saved.tasks, tasks', weeks, tx.source)
  BY <1>5, <1>7, <1>9, GrownExtend
<1>11. \A t \in DOMAIN tx.saved.tasks : tasks'[t] = tasks[t]
  BY <1>7, <1>9
<1> QED BY <1>1, <1>3, <1>8, <1>10, <1>11, AppliedToTasks DEF StatusBecomes, DirectionBecomes

\* What setting the status of a row does.
LEMMA StatusSet ==
    ASSUME NEW s \in Seq(TaskRow), NEW t \in DOMAIN s, NEW to \in TaskStatus, NEW us, us = [s EXCEPT ![t].status = to]
    PROVE  /\ us \in Seq(TaskRow) /\ Len(us) = Len(s) /\ DOMAIN us = DOMAIN s
           /\ \A i \in DOMAIN s : i # t => us[i] = s[i]
           /\ us[t].status = to /\ us[t].parent = s[t].parent /\ us[t].week = s[t].week
           /\ us[t].direction = s[t].direction
<1>1. us = [i \in DOMAIN s |-> us[i]]
  OBVIOUS
<1>2. \A i \in DOMAIN s : us[i] = IF i = t THEN [s[i] EXCEPT !.status = to] ELSE s[i]
  OBVIOUS
<1>3. \A i \in DOMAIN s : s[i] \in TaskRow
  OBVIOUS
<1>4. \A i \in DOMAIN s : us[i] \in TaskRow
  BY <1>2, <1>3, RowExcept
<1>5. us \in Seq(TaskRow) /\ Len(us) = Len(s) /\ DOMAIN us = DOMAIN s
  BY <1>1, <1>4, Rewritten
<1>6. us[t] = [s[t] EXCEPT !.status = to]
  BY <1>2
<1>7. us[t].status = to /\ us[t].parent = s[t].parent /\ us[t].week = s[t].week /\ us[t].direction = s[t].direction
  BY <1>3, <1>6 DEF TaskRow
<1> QED BY <1>2, <1>5, <1>7

\* The arm TransitionTask.
LEMMA TransitionTaskApplied ==
    ASSUME GateInv, apply_TransitionTask
    PROVE  Applying /\ Applied(CurrentOp)
<1>1. PICK o : o = CurrentOp
  OBVIOUS
<1>3. Applying /\ o.op = "TransitionTask" /\ tasks' = [tasks EXCEPT ![o.task].status = o.to]
      /\ UNCHANGED <<areas, directions, rhythms, bodies>> /\ may_TransitionTask(o)
  BY <1>1 DEF apply_TransitionTask, Current, CurrentOp
<1>4. o.task \in Nat /\ o.to \in TaskStatus
  BY <1>1, <1>3, TxFacts, OpFields
<1>5. o.task \in DOMAIN tx.saved.tasks
  BY <1>1, <1>3, WhatIsFound DEF Found
<1>6. /\ tasks \in Seq(TaskRow) /\ TasksHold(tasks) /\ tx.saved.tasks \in Seq(TaskRow)
      /\ DOMAIN tx.saved.tasks \subseteq DOMAIN tasks
      /\ Grown(tx.saved.tasks, tasks, weeks, tx.source)
  BY <1>3, TxFacts DEF NowHolds, Moved
<1>7. ~Settled(tasks[o.task], weeks) /\ tasks[o.task].status # "carried_over"
  BY <1>3 DEF may_TransitionTask, require_task_week_open, task_transition_allowed, Settled, task_is_terminal
<1>8. TasksHold(tasks)'
  BY <1>3, <1>4, <1>6, <1>7, StatusKeeps
<1>9. /\ tasks' \in Seq(TaskRow) /\ Len(tasks') = Len(tasks) /\ DOMAIN tasks' = DOMAIN tasks
      /\ \A i \in DOMAIN tasks : i # o.task => tasks'[i] = tasks[i]
      /\ tasks'[o.task].status = o.to /\ tasks'[o.task].parent = tasks[o.task].parent
      /\ tasks'[o.task].week = tasks[o.task].week /\ tasks'[o.task].direction = tasks[o.task].direction
  <2>1. o.task \in DOMAIN tasks
    BY <1>5, <1>6
  <2> QED BY <1>3, <1>4, <1>6, <2>1, StatusSet
<1>10. tasks'[o.task].direction # tx.saved.tasks[o.task].direction =>
          /\ tx.saved.tasks[o.task].direction \in {None, Triage}
          /\ tx.saved.tasks[o.task].via = "direct" => tx.source = "direct"
  BY <1>5, <1>6, <1>9 DEF Grown
<1>11. Grown(tx.saved.tasks, tasks', weeks, tx.source)
  BY <1>5, <1>6, <1>7, <1>9, <1>10, GrownReplace
<1>12. \A t \in DOMAIN tx.saved.tasks : /\ tasks'[t].status = StatusBecomes(o, t, tasks[t].status)
                                        /\ tasks'[t].direction = DirectionBecomes(o, t, tasks[t].direction)
  BY <1>3, <1>6, <1>9 DEF StatusBecomes, DirectionBecomes
<1> QED BY <1>1, <1>3, <1>8, <1>11, <1>12, AppliedToTasks

\* The arm CarryOverTask.
LEMMA CarryOverTaskApplied ==
    ASSUME GateInv, apply_CarryOverTask
    PROVE  Applying /\ Applied(CurrentOp)
<1>1. PICK o : o = CurrentOp
  OBVIOUS
<1>2. PICK us : us = [tasks EXCEPT ![o.task].status = "carried_over"]
  OBVIOUS
<1>3. PICK row : row = NewTask("planned", tasks[o.task].direction, o.to, tasks[o.task].parent, tasks[o.task].via, o.task)
  OBVIOUS
<1>4. Applying /\ o.op = "CarryOverTask" /\ tasks' = Append(us, row)
      /\ UNCHANGED <<areas, directions, rhythms, bodies>> /\ may_CarryOverTask(o)
  BY <1>1, <1>2, <1>3 DEF apply_CarryOverTask, Current, CurrentOp
<1>5. o.task \in Nat /\ o.to \in WeekIds
  BY <1>1, <1>4, TxFacts, OpFields
<1>6. o.task \in DOMAIN tx.saved.tasks /\ week_is_open(weeks[o.to])
  BY <1>1, <1>4, WhatIsFound DEF Found, HoldsNow
<1>7. /\ tasks \in Seq(TaskRow) /\ TasksHold(tasks) /\ tx.saved.tasks \in Seq(TaskRow)
      /\ DOMAIN tx.saved.tasks \subseteq DOMAIN tasks
      /\ Grown(tx.saved.tasks, tasks, weeks, tx.source)
  BY <1>4, TxFacts DEF NowHolds, Moved
<1>8. ~Settled(tasks[o.task], weeks) /\ tasks[o.task].status # "carried_over" /\ tasks[o.task].week # o.to
  BY <1>4 DEF may_CarryOverTask, require_task_week_open, task_transition_allowed, Settled, task_is_terminal
<1>9. o.task \in DOMAIN tasks
  BY <1>6, <1>7
<1>10. TasksHold(tasks)'
  <2>1. TasksHold(Append([tasks EXCEPT ![o.task].status = "carried_over"],
             NewTask("planned", tasks[o.task].direction, o.to, tasks[o.task].parent, tasks[o.task].via, o.task)))
    BY <1>5, <1>7, <1>8, <1>9, CarryKeeps
  <2>2. TasksHold(Append(us, row))
    BY <1>2, <1>3, <2>1
  <2> QED BY <1>4, <2>2
<1>11. /\ us \in Seq(TaskRow) /\ Len(us) = Len(tasks) /\ DOMAIN us = DOMAIN tasks
       /\ \A i \in DOMAIN tasks : i # o.task => us[i] = tasks[i]
       /\ us[o.task].status = "carried_over" /\ us[o.task].parent = tasks[o.task].parent
       /\ us[o.task].week = tasks[o.task].week /\ us[o.task].direction = tasks[o.task].direction
  <2>1. "carried_over" \in TaskStatus
    BY DEF TaskStatus
  <2> QED BY <1>2, <1>7, <1>9, <2>1, StatusSet
<1>12. us[o.task].direction # tx.saved.tasks[o.task].direction =>
          /\ tx.saved.tasks[o.task].direction \in {None, Triage}
          /\ tx.saved.tasks[o.task].via = "direct" => tx.source = "direct"
  BY <1>6, <1>7, <1>11 DEF Grown
<1>13. Grown(tx.saved.tasks, us, weeks, tx.source)
  BY <1>6, <1>7, <1>8, <1>11, <1>12, GrownReplace
<1>14. row \in TaskRow /\ row.week = o.to
  <2>1. tasks[o.task] \in TaskRow
    BY <1>7, <1>9
  <2> QED BY <1>3, <1>5, <2>1 DEF NewTask, TaskRow, TaskStatus
<1>15. /\ tasks' \in Seq(TaskRow) /\ Len(us) <= Len(tasks') /\ \A i \in DOMAIN us : tasks'[i] = us[i]
       /\ \A i \in DOMAIN tasks' \ DOMAIN us : tasks'[i].week = o.to
  <2>1. /\ tasks' \in Seq(TaskRow) /\ Len(us) \in Nat /\ DOMAIN us = 1..Len(us)
        /\ DOMAIN tasks' = 1..Len(us)+1 /\ tasks'[Len(us)+1] = row
        /\ \A i \in 1..Len(us) : tasks'[i] = us[i]
    BY <1>4, <1>11, <1>14, AppendFacts
  <2>2. Len(tasks') = Len(us) + 1
    BY <1>4, <1>11, <1>14
  <2> QED BY <1>14, <2>1, <2>2
<1>16. Grown(tx.saved.tasks, tasks', weeks, tx.source)
  BY <1>6, <1>7, <1>11, <1>13, <1>15, GrownExtend
<1>17. \A t \in DOMAIN tx.saved.tasks : /\ tasks'[t].status = StatusBecomes(o, t, tasks[t].status)
                                        /\ tasks'[t].direction = DirectionBecomes(o, t, tasks[t].direction)
  BY <1>4, <1>7, <1>11, <1>15 DEF StatusBecomes, DirectionBecomes
<1> QED BY <1>1, <1>4, <1>10, <1>16, <1>17, AppliedToTasks

\* The arm AssignTaskDirection: only classify and the user place tasks, so the stamp is one
\* of theirs; and whoever parked the task in Triage, it was not the user against classify.
LEMMA AssignTaskDirectionApplied ==
    ASSUME GateInv, apply_AssignTaskDirection
    PROVE  Applying /\ Applied(CurrentOp)
<1>1. PICK o : o = CurrentOp
  OBVIOUS
<1>2. PICK via : via = triage_via_for(o.direction, tx.source)
  OBVIOUS
<1>3. Applying /\ o.op = "AssignTaskDirection"
      /\ tasks' = [tasks EXCEPT ![o.task].direction = o.direction, ![o.task].via = via]
      /\ UNCHANGED <<areas, directions, rhythms, bodies>> /\ may_AssignTaskDirection(o)
  BY <1>1, <1>2 DEF apply_AssignTaskDirection, Current, CurrentOp
<1>4. o.task \in Nat /\ o.direction \in Nat \cup {Triage}
  BY <1>1, <1>3, TxFacts, OpFields
<1>5. o.task \in DOMAIN tx.saved.tasks
  BY <1>1, <1>3, WhatIsFound DEF Found
<1>6. /\ tasks \in Seq(TaskRow) /\ TasksHold(tasks) /\ tx.saved.tasks \in Seq(TaskRow) /\ TasksHold(tx.saved.tasks)
      /\ DOMAIN tx.saved.tasks \subseteq DOMAIN tasks
      /\ Grown(tx.saved.tasks, tasks, weeks, tx.source)
  BY <1>3, TxFacts DEF NowHolds, Moved, TablesHold
<1>7. ~task_is_terminal(tasks[o.task].status)
      /\ \/ tasks[o.task].direction = None
         \/ tx.source = "direct" \/ tx.saved.tasks[o.task].via = "classify"
  BY <1>1, <1>3, WhatIsFound DEF Found, HoldsNow
<1>8. ~Settled(tasks[o.task], weeks)
  BY <1>3, <1>7 DEF may_AssignTaskDirection, require_task_week_open, Settled
<1>9. via \in {None, "direct", "classify"} /\ (via # None <=> o.direction = Triage)
  <2>1. tx.source \in {"direct", "classify"}
    <3>1. tx.source # "direct" => allowed_ops(tx.source, tx.ops)
      BY <1>3, TxFacts DEF GateInv, Lawful, Allowed
    <3>2. tx.next \in DOMAIN tx.ops /\ tx.ops[tx.next].op = "AssignTaskDirection"
      <4>1. tx.next \in 1..Len(tx.ops) /\ tx.ops \in Seq(Sin90Op)
        BY <1>3, TxFacts DEF GateInv, GateTyped
      <4> QED BY <1>1, <1>3, <4>1 DEF CurrentOp
    <3>3. ~allowed_ops("summarize", tx.ops)
      BY <3>2 DEF allowed_ops
    <3>4. ~allowed_ops("propose", tx.ops)
      BY <3>2 DEF allowed_ops
    <3> QED BY <1>3, <3>1, <3>3, <3>4, TxFacts DEF Sources, Capabilities
  <2>2. None \notin {"direct", "classify"}
    BY PlanningAssumption
  <2> QED BY <1>2, <2>1, <2>2 DEF triage_via_for
<1>10. TasksHold(tasks)'
  <2>1. o.direction \in Nat \cup {None, Triage}
    BY <1>4
  <2> QED BY <1>3, <1>4, <1>6, <1>9, <2>1, DirectionKeeps
<1>11. /\ tasks' \in Seq(TaskRow) /\ Len(tasks') = Len(tasks) /\ DOMAIN tasks' = DOMAIN tasks
       /\ \A i \in DOMAIN tasks : i # o.task => tasks'[i] = tasks[i]
       /\ tasks'[o.task].status = tasks[o.task].status /\ tasks'[o.task].parent = tasks[o.task].parent
       /\ tasks'[o.task].week = tasks[o.task].week /\ tasks'[o.task].direction = o.direction
  <2>1. o.task \in DOMAIN tasks
    BY <1>5, <1>6
  <2>2. tasks' = [i \in DOMAIN tasks |-> tasks'[i]]
    BY <1>3
  <2>3. \A i \in DOMAIN tasks :
           tasks'[i] = IF i = o.task THEN [tasks[i] EXCEPT !.direction = o.direction, !.via = via] ELSE tasks[i]
    BY <1>3
  <2>4. tasks[o.task] \in TaskRow
    BY <1>6, <2>1
  <2>5. tasks' \in Seq(TaskRow)
    BY <1>10 DEF TasksHold
  <2>6. Len(tasks') = Len(tasks) /\ DOMAIN tasks' = DOMAIN tasks
    BY <1>6, <2>2, <2>5
  <2>7. tasks'[o.task] = [tasks[o.task] EXCEPT !.direction = o.direction, !.via = via]
    BY <2>1, <2>3
  <2>8. /\ tasks'[o.task].status = tasks[o.task].status /\ tasks'[o.task].parent = tasks[o.task].parent
        /\ tasks'[o.task].week = tasks[o.task].week /\ tasks'[o.task].direction = o.direction
    BY <2>4, <2>7 DEF TaskRow
  <2> QED BY <2>3, <2>5, <2>6, <2>8
<1>12. o.direction # None
  BY <1>4, PlanningAssumption
<1>13. /\ tx.saved.tasks[o.task].direction \in {None, Triage}
       /\ tx.saved.tasks[o.task].via = "direct" => tx.source = "direct"
  <2>1. CASE tasks[o.task].direction = None
    <3>1. tx.saved.tasks[o.task].direction = None
      BY <1>5, <1>6, <2>1 DEF Grown
    <3>2. tx.saved.tasks[o.task].via = None
      BY <1>5, <1>6, <3>1, PlanningAssumption DEF TasksHold, Stamped
    <3> QED BY <3>1, <3>2, PlanningAssumption
  <2>2. CASE tasks[o.task].direction # None
    <3>1. tasks[o.task].direction = Triage
      BY <1>3, <2>2 DEF may_AssignTaskDirection
    <3>2. tx.saved.tasks[o.task].direction \in {None, Triage}
      BY <1>5, <1>6, <3>1 DEF Grown
    <3>3. tx.saved.tasks[o.task].via = "direct" => tx.source = "direct"
      BY <1>7, <2>2
    <3> QED BY <3>2, <3>3
  <2> QED BY <2>1, <2>2
<1>14. Grown(tx.saved.tasks, tasks', weeks, tx.source)
  BY <1>5, <1>6, <1>8, <1>11, <1>12, <1>13, GrownReplace
<1>15. \A t \in DOMAIN tx.saved.tasks : /\ tasks'[t].status = StatusBecomes(o, t, tasks[t].status)
                                        /\ tasks'[t].direction = DirectionBecomes(o, t, tasks[t].direction)
  BY <1>3, <1>6, <1>11 DEF StatusBecomes, DirectionBecomes
<1> QED BY <1>1, <1>3, <1>10, <1>14, <1>15, AppliedToTasks

\* Every arm of apply_op keeps the invariant.
LEMMA ApplyKeeps ==
    ASSUME GateInv, KeysInv', apply_op, UNCHANGED <<world, actor, pack>>
    PROVE  GateInv' /\ UNCHANGED <<weeks, proposals, rejections>> /\ tx # Idle /\ tx' # Idle /\ tx'.saved = tx.saved
<1>1. Applying /\ Applied(CurrentOp)
  BY CreateAreaApplied, CreateDirectionApplied, CreateTaskApplied, TransitionTaskApplied, CreateTasksApplied,
     ReorderTasksApplied, AdjustRhythmApplied, CarryOverTaskApplied, AssignTaskDirectionApplied,
     DraftReviewBodyApplied DEF apply_op
<1>2. Advance
  BY DEF apply_op, apply_CreateArea, apply_CreateDirection, apply_CreateTask, apply_TransitionTask,
     apply_CreateTasks, apply_ReorderTasks, apply_AdjustRhythm, apply_CarryOverTask,
     apply_AssignTaskDirection, apply_DraftReviewBody
<1>3. GateInv'
  BY <1>1, <1>2, AppliedKeeps
<1>4. tx' # Idle /\ tx'.saved = tx.saved
  BY <1>1, <1>2, TxFacts DEF Advance, OpenTx, Idle
<1> QED BY <1>1, <1>2, <1>3, <1>4 DEF Advance, Applying

\* The tables are put back as they were when the transaction began.
LEMMA RestoreHolds ==
    ASSUME GateInv, tx # Idle, Restore
    PROVE  /\ NowHolds' /\ tx' = Idle /\ UNCHANGED <<weeks, rejections>>
           /\ currentTables' = tx.saved
           /\ tx \in OpenTx /\ tx.proposal \in ProposalIds
<1>1. tx \in OpenTx /\ TablesHold(tx.saved)
  BY DEF GateInv, GateTyped, TxInv
<1>2. NowHolds'
  BY <1>1 DEF Restore, NowHolds, TablesHold
<1>3. tx.saved \in AnyTables /\ tx.proposal \in ProposalIds
  BY <1>1 DEF OpenTx
<1>4. tx.saved = [areas |-> tx.saved.areas, directions |-> tx.saved.directions, tasks |-> tx.saved.tasks,
                  rhythms |-> tx.saved.rhythms, bodies |-> tx.saved.bodies]
  BY <1>3 DEF AnyTables
<1>5. currentTables' = tx.saved
  BY <1>4 DEF Restore, currentTables
<1> QED BY <1>1, <1>2, <1>3, <1>5 DEF Restore

\* Nothing is open any more: what is left to ask is the proposals' own.
LEMMA ClosedKeeps ==
    ASSUME GateInv, KeysInv', tx' = Idle, NowHolds', UNCHANGED <<world, actor, pack, weeks, rejections>>,
           NEW p \in ProposalIds, NEW row \in ProposalRow, row.status # "applying",
           row.status # "absent" => row.ops # <<>> /\ Allowed(row.source, row.ops),
           \A q \in ProposalIds : q # p => proposals[q].status # "applying",
           proposals' = [proposals EXCEPT ![p] = row]
    PROVE  GateInv'
<1>1. proposals \in [ProposalIds -> ProposalRow]
  BY DEF GateInv, GateTyped
<1>2. proposals' \in [ProposalIds -> ProposalRow] /\ proposals'[p] = row
      /\ \A q \in ProposalIds : q # p => proposals'[q] = proposals[q]
  BY <1>1
<1>3. GateTyped'
  BY <1>2 DEF GateInv, GateTyped
<1>4. Lawful'
  <2>1. \A q \in ProposalIds : proposals'[q].status # "absent" =>
           proposals'[q].ops # <<>> /\ Allowed(proposals'[q].source, proposals'[q].ops)
    BY <1>2 DEF GateInv, Lawful
  <2> QED BY <2>1 DEF Lawful
<1>5. Claimed'
  BY <1>2 DEF Claimed
<1> QED BY <1>3, <1>4, <1>5 DEF GateInv, TxInv, AcceptIsHuman

\* The ends a transaction may meet, as far as the proposals see them.
LEMMA EndKeeps ==
    ASSUME GateInv, KeysInv', tx # Idle, RollBack \/ Crash \/ CommitAccept \/ CommitDryRun,
           UNCHANGED <<world, actor, pack>>
    PROVE  GateInv'
<1>0. /\ tx \in OpenTx /\ tx.proposal \in ProposalIds /\ tx.ops \in Seq(Sin90Op) /\ tx.source \in Sources
      /\ tx.mode \in {"accept", "dry"}
      /\ proposals \in [ProposalIds -> ProposalRow] /\ proposals[tx.proposal] \in ProposalRow
      /\ proposals[tx.proposal].status = IF tx.mode = "accept" THEN "applying" ELSE "absent"
      /\ \A q \in ProposalIds : q # tx.proposal => proposals[q].status # "applying"
      /\ NowHolds
  <2>1. tx \in OpenTx
    BY DEF GateInv, GateTyped
  <2>2. tx.proposal \in ProposalIds /\ tx.ops \in Seq(Sin90Op) /\ tx.source \in Sources /\ tx.mode \in {"accept", "dry"}
    BY <2>1 DEF OpenTx
  <2> QED BY <2>1, <2>2 DEF GateInv, GateTyped, Claimed
<1>1. \A s \in {"pending", "applied"} :
         /\ [proposals[tx.proposal] EXCEPT !.status = s] \in ProposalRow
         /\ [proposals[tx.proposal] EXCEPT !.status = s].status = s
         /\ [proposals[tx.proposal] EXCEPT !.status = s].ops = proposals[tx.proposal].ops
         /\ [proposals[tx.proposal] EXCEPT !.status = s].source = proposals[tx.proposal].source
  BY <1>0 DEF ProposalRow, ProposalStatus
<1>2. tx.mode = "accept" =>
         proposals[tx.proposal].ops # <<>> /\ Allowed(proposals[tx.proposal].source, proposals[tx.proposal].ops)
  BY <1>0 DEF GateInv, Lawful
<1>3. ASSUME tx.mode = "accept", NEW s \in {"pending", "applied"}, NowHolds', tx' = Idle, UNCHANGED <<weeks, rejections>>,
             proposals' = [proposals EXCEPT ![tx.proposal].status = s]
      PROVE  GateInv'
  <2>1. PICK p, row : p = tx.proposal /\ row = [proposals[tx.proposal] EXCEPT !.status = s]
    OBVIOUS
  <2>2. row \in ProposalRow /\ row.status = s /\ row.ops = proposals[p].ops /\ row.source = proposals[p].source
    BY <1>1, <1>3, <2>1
  <2>3. row.status # "applying" /\ row.ops # <<>> /\ Allowed(row.source, row.ops)
    BY <1>2, <1>3, <2>1, <2>2
  <2>4. proposals' = [proposals EXCEPT ![p] = row] /\ p \in ProposalIds
    BY <1>0, <1>3, <2>1
  <2>5. \A q \in ProposalIds : q # p => proposals[q].status # "applying"
    BY <1>0, <2>1
  <2> QED BY <1>3, <2>2, <2>3, <2>4, <2>5, ClosedKeeps
<1>4. ASSUME Restore, Unclaim PROVE GateInv'
  <2>1. NowHolds' /\ tx' = Idle /\ UNCHANGED <<weeks, rejections>>
    BY <1>4, RestoreHolds
  <2>2. CASE tx.mode = "accept"
    BY <1>3, <1>4, <2>1, <2>2 DEF Unclaim
  <2>3. CASE tx.mode = "dry"
    <3>1. proposals' = [proposals EXCEPT ![tx.proposal] = proposals[tx.proposal]]
      BY <1>0, <1>4, <2>3 DEF Unclaim
    <3>2. PICK p, row : p = tx.proposal /\ row = proposals[tx.proposal]
      OBVIOUS
    <3>3. row \in ProposalRow /\ row.status = "absent" /\ p \in ProposalIds
          /\ proposals' = [proposals EXCEPT ![p] = row]
          /\ \A q \in ProposalIds : q # p => proposals[q].status # "applying"
      BY <1>0, <2>3, <3>1, <3>2
    <3>4. row.status # "applying"
      BY <3>3
    <3> QED BY <2>1, <3>3, <3>4, ClosedKeeps
  <2> QED BY <1>0, <2>2, <2>3
<1>5. ASSUME CommitAccept PROVE GateInv'
  <2>1. NowHolds'
    BY <1>0, <1>5 DEF CommitAccept, NowHolds
  <2> QED BY <1>3, <1>5, <2>1 DEF CommitAccept
<1>6. ASSUME CommitDryRun PROVE GateInv'
  <2>1. Restore /\ tx.mode = "dry" /\ proposals' = [proposals EXCEPT ![tx.proposal] = Pending(tx.ops, tx.source)]
    BY <1>6 DEF CommitDryRun
  <2>2. NowHolds' /\ tx' = Idle /\ UNCHANGED <<weeks, rejections>>
    BY <2>1, RestoreHolds
  <2>3. PICK p, row : p = tx.proposal /\ row = Pending(tx.ops, tx.source)
    OBVIOUS
  <2>4. row \in ProposalRow /\ row.status = "pending" /\ row.ops = tx.ops /\ row.source = tx.source
    BY <1>0, <2>3 DEF Pending, ProposalRow, ProposalStatus
  <2>5. row.status # "applying" /\ row.ops # <<>> /\ Allowed(row.source, row.ops)
    BY <2>4 DEF GateInv, Lawful
  <2>6. p \in ProposalIds /\ proposals' = [proposals EXCEPT ![p] = row]
        /\ \A q \in ProposalIds : q # p => proposals[q].status # "applying"
    BY <1>0, <2>1, <2>3
  <2> QED BY <2>2, <2>4, <2>5, <2>6, ClosedKeeps
<1> QED BY <1>4, <1>5, <1>6 DEF RollBack, Crash

\* Processes that start and stop between requests disturb nothing.
LEMMA StillKeeps ==
    ASSUME GateInv, KeysInv',
           UNCHANGED <<areas, directions, weeks, tasks, rhythms, bodies, world, proposals, rejections, tx, actor, pack>>
    PROVE  GateInv'
<1>1. TxInv'
  BY TxKept DEF GateInv
<1>2. NowHolds'
  BY DEF GateInv, NowHolds
<1>3. GateTyped'
  BY DEF GateInv, GateTyped
<1>4. Lawful'
  BY DEF GateInv, Lawful
<1>5. Claimed' /\ AcceptIsHuman'
  BY DEF GateInv, Claimed, AcceptIsHuman
<1> QED BY <1>1, <1>2, <1>3, <1>4, <1>5 DEF GateInv

\* The empty database satisfies the invariant, whether or not a process serves.
LEMMA GateInvInit ==
    ASSUME Init
    PROVE  GateInv
<1>1. KeysInv
  <2>1. CASE KeysInit
    BY <2>1, KeysInvInit
  <2>2. CASE AlreadyServing
    <3>1. Pair(1) \in AllPairs
      BY DEF AllPairs
    <3>2. PICK one : proc = [p \in Procs |-> IF p = one THEN Served(Pair(1)) ELSE Down]
      BY <2>2 DEF AlreadyServing
    <3>3. KeysTypeOK
      BY <2>2, <3>1, <3>2 DEF AlreadyServing, KeysTypeOK, Served, Down, Places
    <3>4. Published
      BY <2>2, <3>1, <3>2 DEF AlreadyServing, Published, Served, Down, At, Places
    <3>5. Held
      BY <2>2, <3>1, <3>2 DEF AlreadyServing, Held, Served, Down, At, Places
    <3> QED BY <3>3, <3>4, <3>5 DEF KeysInv
  <2> QED BY <2>1, <2>2 DEF Init
<1>2. /\ areas = <<>> /\ directions = <<>> /\ tasks = <<>> /\ rhythms = <<>>
      /\ weeks = [w \in WeekIds |-> "absent"]
      /\ bodies = [v \in ReviewIds |-> [status |-> "absent", body |-> Blank]] /\ world \in Worlds
      /\ proposals = [p \in ProposalIds |-> Absent] /\ rejections = <<>> /\ tx = Idle
      /\ actor = "human" /\ pack = NoPack
  BY DEF Init, ProposalsInit, PlanningInit
<1>3. NowHolds
  <2>1. AreasHold(areas) /\ directions \in Seq(DirectionRow) /\ RhythmsHold(rhythms)
    BY <1>2 DEF AreasHold, SlugsDiffer, RhythmsHold
  <2>2. TasksHold(tasks)
    BY <1>2 DEF TasksHold, Nested, Chained, Stamped
  <2>3. bodies \in [ReviewIds -> ReviewRow]
    BY <1>2 DEF ReviewRow, ReviewStatus
  <2> QED BY <2>1, <2>2, <2>3 DEF NowHolds
<1>4. GateTyped
  <2>1. pack \in [todo : Seq({"area", "direction"}), area : Nat \cup {None}]
    BY <1>2 DEF NoPack
  <2>2. Absent \in ProposalRow
    BY DEF Absent, ProposalRow, Sources
  <2>3. weeks \in [WeekIds -> WeekStatus]
    BY <1>2 DEF WeekStatus
  <2> QED BY <1>2, <2>1, <2>2, <2>3 DEF GateTyped, Actors
<1>5. Lawful
  BY <1>2 DEF Lawful, Absent
<1>6. Claimed /\ AcceptIsHuman /\ TxInv
  BY <1>2 DEF Claimed, AcceptIsHuman, TxInv, Absent
<1> QED BY <1>1, <1>3, <1>4, <1>5, <1>6 DEF GateInv

\* Every step keeps the invariant.
LEMMA GateInvNext ==
    ASSUME GateInv, [Next]_vars
    PROVE  GateInv'
<1>1. KeysInv'
  <2>1. [KeysNext]_keyVars
    BY KeysAlong DEF vars
  <2> QED BY <2>1, KeysInvNext DEF GateInv
<1>2. ASSUME DirectWrite PROVE GateInv'
  BY <1>1, <1>2, DirectStep, DirectKeeps
<1>3. ASSUME Gate PROVE GateInv'
  BY <1>1, <1>3, GateKeeps
<1>4. ASSUME Transaction PROVE GateInv'
  <2>1. CASE apply_op
    BY <1>1, <1>4, <2>1, ApplyKeeps DEF Transaction
  <2>2. CASE RollBack \/ Crash \/ CommitAccept \/ CommitDryRun
    <3>1. tx # Idle
      BY <2>2 DEF RollBack, Crash, CommitAccept, CommitDryRun, Applying
    <3> QED BY <1>1, <1>4, <2>2, <3>1, EndKeeps DEF Transaction
  <2> QED BY <1>4, <2>1, <2>2 DEF Transaction
<1>5. ASSUME Lifecycle PROVE GateInv'
  BY <1>1, <1>5, StillKeeps DEF Lifecycle
<1>6. ASSUME UNCHANGED vars PROVE GateInv'
  BY <1>1, <1>6, StillKeeps DEF vars
<1> QED BY <1>2, <1>3, <1>4, <1>5, <1>6 DEF Next

\* The invariant holds of the planning surface: requests, batches step by step, crashes and
\* starts in any order.
THEOREM GateInvariant == Spec => []GateInv
<1>1. Init => GateInv
  BY GateInvInit
<1>2. GateInv /\ [Next]_vars => GateInv'
  BY GateInvNext
<1> QED BY <1>1, <1>2, PTL DEF Spec

-----------------------------------------------------------------------------
(* The invariants the runs check. *)

\* validate promises that the whole batch is checked "exactly as apply would behave": whenever
\* apply_op comes to an operation, what validate checked of it is true of the rows.
THEOREM ValidateForesees == Spec => []OverlayMatchesApply
<1>1. GateInv => OverlayMatchesApply
  BY WhatIsFound DEF OverlayMatchesApply, Found, CurrentOp
<1> QED BY <1>1, GateInvariant, PTL

\* Parents are one level deep and a carried-over task has at most one successor, whatever mix
\* of direct writes and batches, applied, tried out or broken off, made the rows.
THEOREM LinksHold == Spec => []TaskLinksHold
<1>1. GateInv => TaskLinksHold
  BY DEF GateInv, NowHolds, TasksHold, Nested, Chained, TaskLinksHold, OneLevelNesting, CarryChain
<1> QED BY <1>1, GateInvariant, PTL

\* Every row has its type, is stamped exactly while in Triage, no two Areas share a slug and no
\* Rhythm allots more than the whole.
THEOREM RowsAreWellFormed == Spec => []RowsWellFormed
<1>1. ASSUME GateInv PROVE RowsWellFormed
  <2>1. GateTyped /\ NowHolds /\ Lawful
    BY <1>1 DEF GateInv
  <2>2. PlanningTypeOK
    BY <2>1 DEF GateTyped, NowHolds, AreasHold, TasksHold, RhythmsHold, PlanningTypeOK
  <2>3. \A p \in ProposalIds : /\ proposals[p].status \in ProposalStatus \cup {"absent"}
                               /\ proposals[p].source \in Sources
                               /\ proposals[p].status # "absent" => proposals[p].ops # <<>>
    <3>1. \A r \in ProposalRow : r.status \in ProposalStatus \cup {"absent"} /\ r.source \in Sources
      BY DEF ProposalRow
    <3> QED BY <2>1, <3>1 DEF GateTyped, Lawful
  <2>4. tx = Idle \/ (tx.mode \in {"accept", "dry"} /\ tx.proposal \in ProposalIds /\ tx.next \in 1..Len(tx.ops) + 1)
    BY <2>1 DEF GateTyped, OpenTx
  <2>5. ProposalsTypeOK
    BY <2>1, <2>2, <2>3, <2>4 DEF ProposalsTypeOK, GateTyped
  <2>6. TypeOK
    BY <2>1, <2>5 DEF TypeOK, GateTyped
  <2> QED BY <2>1, <2>6 DEF RowsWellFormed, NowHolds, TasksHold, Stamped, AreasHold, SlugsDiffer, RhythmsHold, Shares
<1> QED BY <1>1, GateInvariant, PTL

\* The same of the whole surface: a request is identified by keys the serving process really
\* published or was given, while others start and stop beside it.
THEOREM RequestsAreIdentified == Spec => []KeysAgree
<1>1. GateInv => KeysAgree
  BY HeldKeysAgree DEF GateInv
<1> QED BY <1>1, GateInvariant, PTL

-----------------------------------------------------------------------------
(* What a step may do to a proposal. *)

ProposalMoves ==
    \/ UNCHANGED <<proposals, rejections>>
    \/ \E p \in ProposalIds, row \in ProposalRow :
          /\ proposals' = [proposals EXCEPT ![p] = row]
          /\ \/ /\ proposals[p].status = "absent" /\ row.status = "pending"
                /\ UNCHANGED rejections
             \/ /\ proposals[p].status = "pending" /\ row.status = "applying"
                /\ actor' = "human" /\ UNCHANGED rejections
             \/ /\ proposals[p].status = "applying" /\ row.status = "applied"
                /\ actor' = "human" /\ UNCHANGED rejections
             \/ /\ proposals[p].status = "pending" /\ row.status = "rejected"
                /\ actor' = "human"
                /\ rejections' = Append(rejections, [proposal |-> p, source |-> proposals[p].source])
             \/ /\ proposals[p].status = "applying" /\ row.status = "pending"
                /\ actor' = "human" /\ UNCHANGED rejections
                /\ tx # Idle /\ tx' = Idle /\ tx.proposal = p

\* A compare-and-set of a proposal changes its row only.
LEMMA StatusMove ==
    ASSUME NEW p \in ProposalIds, NEW s \in ProposalStatus, proposals \in [ProposalIds -> ProposalRow],
           proposals' = [proposals EXCEPT ![p].status = s]
    PROVE  \E row \in ProposalRow : row.status = s /\ proposals' = [proposals EXCEPT ![p] = row]
<1>1. PICK row : row = [proposals[p] EXCEPT !.status = s]
  OBVIOUS
<1>2. proposals[p] \in ProposalRow
  OBVIOUS
<1>3. row \in ProposalRow /\ row.status = s
  BY <1>1, <1>2 DEF ProposalRow
<1>4. proposals' = [proposals EXCEPT ![p] = row]
  BY <1>1
<1> QED BY <1>3, <1>4

\* Every step moves at most one proposal, along one of these.
LEMMA ProposalStep ==
    ASSUME GateInv, [Next]_vars
    PROVE  ProposalMoves
<1>0. KeysInv /\ proposals \in [ProposalIds -> ProposalRow] /\ world \in Worlds
  BY DEF GateInv, GateTyped
<1>1. ASSUME DirectWrite PROVE ProposalMoves
  BY <1>1, DirectStep DEF DirectShape, ProposalMoves
<1>2. ASSUME NEW p \in ProposalIds, NEW b \in world.batches, post_proposals(p, b.ops) PROVE ProposalMoves
  <2>1. b.ops \in Seq(Sin90Op)
    BY <1>0, BatchesAssumption
  <2>2. Pending(b.ops, "direct") \in ProposalRow /\ Pending(b.ops, "direct").status = "pending"
    BY <2>1 DEF Pending, ProposalRow, ProposalStatus, Sources
  <2>3. \/ UNCHANGED <<proposals, rejections>>
        \/ /\ proposals[p].status = "absent" /\ UNCHANGED rejections
           /\ proposals' = [proposals EXCEPT ![p] = Pending(b.ops, "direct")]
    BY <1>2 DEF post_proposals, submit_proposal
  <2> QED BY <2>2, <2>3 DEF ProposalMoves
<1>3. ASSUME NEW p \in ProposalIds, NEW cap, NEW ops, ai_submit(cap, p, ops) PROVE ProposalMoves
  BY <1>3 DEF ai_submit, submit, ProposalMoves
<1>4. ASSUME NEW p \in ProposalIds, post_accept(p) PROVE ProposalMoves
  <2>1. actor' = "human" /\ proposals[p].status = "pending" /\ UNCHANGED rejections
        /\ proposals' = [proposals EXCEPT ![p].status = "applying"]
    BY <1>0, <1>4, HumanRequest DEF post_accept, apply_proposal
  <2>2. "applying" \in ProposalStatus
    BY DEF ProposalStatus
  <2>3. PICK row \in ProposalRow : row.status = "applying" /\ proposals' = [proposals EXCEPT ![p] = row]
    BY <1>0, <2>1, <2>2, StatusMove
  <2> QED BY <1>4, <2>1, <2>3 DEF ProposalMoves
<1>5. ASSUME NEW p \in ProposalIds, post_reject(p) PROVE ProposalMoves
  <2>1. actor' = "human" /\ proposals[p].status = "pending"
        /\ rejections' = Append(rejections, [proposal |-> p, source |-> proposals[p].source])
        /\ proposals' = [proposals EXCEPT ![p].status = "rejected"]
    BY <1>0, <1>5, HumanRequest DEF post_reject, reject_proposal
  <2>2. "rejected" \in ProposalStatus
    BY DEF ProposalStatus
  <2>3. PICK row \in ProposalRow : row.status = "rejected" /\ proposals' = [proposals EXCEPT ![p] = row]
    BY <1>0, <2>1, <2>2, StatusMove
  <2> QED BY <1>5, <2>1, <2>3 DEF ProposalMoves
<1>6. ASSUME apply_op PROVE ProposalMoves
  BY <1>6 DEF apply_op, apply_CreateArea, apply_CreateDirection, apply_CreateTask, apply_TransitionTask,
     apply_CreateTasks, apply_ReorderTasks, apply_AdjustRhythm, apply_CarryOverTask,
     apply_AssignTaskDirection, apply_DraftReviewBody, Advance, ProposalMoves
<1>7. ASSUME tx # Idle, UNCHANGED actor, RollBack \/ Crash \/ CommitAccept \/ CommitDryRun PROVE ProposalMoves
  <2>1. tx.proposal \in ProposalIds /\ tx.ops \in Seq(Sin90Op) /\ tx.source \in Sources
    BY <1>7 DEF GateInv, GateTyped, OpenTx
  <2>2. proposals[tx.proposal].status = IF tx.mode = "accept" THEN "applying" ELSE "absent"
    BY <1>7 DEF GateInv, Claimed
  <2>3. tx.mode = "accept" => actor' = "human"
    BY <1>7 DEF GateInv, AcceptIsHuman
  <2>4. "pending" \in ProposalStatus /\ "applied" \in ProposalStatus
    BY DEF ProposalStatus
  <2>5. CASE RollBack \/ Crash
    <3>1. Restore /\ Unclaim
      BY <2>5 DEF RollBack, Crash
    <3>2. tx' = Idle /\ UNCHANGED rejections
      BY <3>1 DEF Restore
    <3>3. CASE tx.mode # "accept"
      BY <3>1, <3>2, <3>3 DEF Unclaim, ProposalMoves
    <3>4. CASE tx.mode = "accept"
      <4>1. PICK row \in ProposalRow : row.status = "pending" /\ proposals' = [proposals EXCEPT ![tx.proposal] = row]
        BY <1>0, <2>1, <2>4, <3>1, <3>4, StatusMove DEF Unclaim
      <4> QED BY <1>7, <2>1, <2>2, <2>3, <3>2, <3>4, <4>1 DEF ProposalMoves
    <3> QED BY <3>3, <3>4
  <2>6. CASE CommitAccept
    <3>1. tx.mode = "accept" /\ UNCHANGED rejections /\ proposals' = [proposals EXCEPT ![tx.proposal].status = "applied"]
      BY <2>6 DEF CommitAccept
    <3>2. PICK row \in ProposalRow : row.status = "applied" /\ proposals' = [proposals EXCEPT ![tx.proposal] = row]
      BY <1>0, <2>1, <2>4, <3>1, StatusMove
    <3> QED BY <2>1, <2>2, <2>3, <3>1, <3>2 DEF ProposalMoves
  <2>7. CASE CommitDryRun
    <3>1. tx.mode = "dry" /\ UNCHANGED rejections
          /\ proposals' = [proposals EXCEPT ![tx.proposal] = Pending(tx.ops, tx.source)]
      BY <2>7 DEF CommitDryRun, Restore
    <3>2. Pending(tx.ops, tx.source) \in ProposalRow /\ Pending(tx.ops, tx.source).status = "pending"
      BY <2>1 DEF Pending, ProposalRow, ProposalStatus
    <3>3. proposals[tx.proposal].status = "absent"
      BY <2>2, <3>1
    <3> QED BY <2>1, <3>1, <3>2, <3>3 DEF ProposalMoves
  <2> QED BY <1>7, <2>5, <2>6, <2>7
<1>8. ASSUME Transaction PROVE ProposalMoves
  <2>1. RollBack \/ Crash \/ CommitAccept \/ CommitDryRun => tx # Idle
    BY DEF RollBack, Crash, CommitAccept, CommitDryRun, Applying
  <2> QED BY <1>6, <1>7, <1>8, <2>1 DEF Transaction
<1>9. ASSUME Lifecycle \/ UNCHANGED vars PROVE ProposalMoves
  BY <1>9 DEF Lifecycle, vars, ProposalMoves
<1>10. ASSUME Gate PROVE ProposalMoves
  BY <1>10, <1>2, <1>3, <1>4, <1>5 DEF Gate
<1> QED BY <1>1, <1>8, <1>9, <1>10 DEF Next

\* A proposal is decided at most once, stays as it was decided, and is logged when rejected.
THEOREM ProposalsAreDecidedOnce == Spec => DecidedOnce
<1> DEFINE Newly == {p \in ProposalIds : proposals[p].status # "rejected" /\ proposals'[p].status = "rejected"}
<1> DEFINE Along(p) ==
        LET from == proposals[p].status  to == proposals'[p].status
        IN  /\ proposal_is_terminal(from) => proposals'[p] = proposals[p]
            /\ \/ from = to
               \/ from = "absent" /\ to = "pending"
               \/ proposal_transition_allowed(from, to)
               \/ /\ tx # Idle /\ tx' = Idle /\ tx.proposal = p
                  /\ from = "applying" /\ to = "pending"
<1> DEFINE Logged ==
        IF Newly = {} THEN rejections' = rejections
        ELSE \E p \in Newly : /\ Newly = {p}
                              /\ rejections' = Append(rejections, [proposal |-> p, source |-> proposals[p].source])
<1>1. ASSUME GateInv, [Next]_vars PROVE (\A p \in ProposalIds : Along(p)) /\ Logged
  <2>0. proposals \in [ProposalIds -> ProposalRow]
    BY <1>1 DEF GateInv, GateTyped
  <2>1. CASE UNCHANGED <<proposals, rejections>>
    <3>1. Newly = {}
      BY <2>1
    <3> QED BY <2>1, <3>1
  <2>2. ASSUME NEW p \in ProposalIds, NEW row \in ProposalRow, proposals' = [proposals EXCEPT ![p] = row],
               row.status # "rejected", UNCHANGED rejections,
               ~proposal_is_terminal(proposals[p].status),
               \/ proposals[p].status = "absent" /\ row.status = "pending"
               \/ proposal_transition_allowed(proposals[p].status, row.status)
               \/ /\ tx # Idle /\ tx' = Idle /\ tx.proposal = p
                  /\ proposals[p].status = "applying" /\ row.status = "pending"
        PROVE  (\A q \in ProposalIds : Along(q)) /\ Logged
    <3>1. proposals'[p] = row /\ \A q \in ProposalIds : q # p => proposals'[q] = proposals[q]
      BY <2>0, <2>2
    <3>2. Newly = {}
      BY <2>2, <3>1
    <3> QED BY <2>2, <3>1, <3>2
  <2>3. ASSUME NEW p \in ProposalIds, NEW row \in ProposalRow, proposals' = [proposals EXCEPT ![p] = row],
               proposals[p].status = "pending", row.status = "rejected",
               rejections' = Append(rejections, [proposal |-> p, source |-> proposals[p].source])
        PROVE  (\A q \in ProposalIds : Along(q)) /\ Logged
    <3>1. proposals'[p] = row /\ \A q \in ProposalIds : q # p => proposals'[q] = proposals[q]
      BY <2>0, <2>3
    <3>2. Newly = {p}
      BY <2>3, <3>1
    <3>3. Logged
      BY <2>3, <3>2
    <3>4. \A q \in ProposalIds : Along(q)
      BY <2>3, <3>1 DEF proposal_is_terminal, proposal_transition_allowed
    <3> QED BY <3>3, <3>4
  <2>4. ProposalMoves
    BY <1>1, ProposalStep
  <2>5. /\ proposal_transition_allowed("pending", "applying") /\ proposal_transition_allowed("applying", "applied")
        /\ \A s \in {"absent", "pending", "applying"} : ~proposal_is_terminal(s)
    BY DEF proposal_is_terminal, proposal_transition_allowed
  <2> HIDE DEF Along, Logged, Newly
  <2>6. CASE \E p \in ProposalIds, row \in ProposalRow :
                /\ proposals' = [proposals EXCEPT ![p] = row]
                /\ proposals[p].status = "pending" /\ row.status = "rejected"
                /\ rejections' = Append(rejections, [proposal |-> p, source |-> proposals[p].source])
    BY <2>3, <2>6
  <2>7. CASE \E p \in ProposalIds, row \in ProposalRow :
                /\ proposals' = [proposals EXCEPT ![p] = row] /\ UNCHANGED rejections
                /\ \/ proposals[p].status = "absent" /\ row.status = "pending"
                   \/ proposals[p].status = "pending" /\ row.status = "applying"
                   \/ proposals[p].status = "applying" /\ row.status = "applied"
                   \/ /\ proposals[p].status = "applying" /\ row.status = "pending"
                      /\ tx # Idle /\ tx' = Idle /\ tx.proposal = p
    <3>1. PICK p \in ProposalIds, row \in ProposalRow :
                /\ proposals' = [proposals EXCEPT ![p] = row] /\ UNCHANGED rejections
                /\ \/ proposals[p].status = "absent" /\ row.status = "pending"
                   \/ proposals[p].status = "pending" /\ row.status = "applying"
                   \/ proposals[p].status = "applying" /\ row.status = "applied"
                   \/ /\ proposals[p].status = "applying" /\ row.status = "pending"
                      /\ tx # Idle /\ tx' = Idle /\ tx.proposal = p
      BY <2>7
    <3>2. row.status # "rejected" /\ ~proposal_is_terminal(proposals[p].status)
      BY <2>5, <3>1
    <3>3. \/ proposals[p].status = "absent" /\ row.status = "pending"
          \/ proposal_transition_allowed(proposals[p].status, row.status)
          \/ /\ tx # Idle /\ tx' = Idle /\ tx.proposal = p
             /\ proposals[p].status = "applying" /\ row.status = "pending"
      BY <2>5, <3>1
    <3> QED BY <2>2, <3>1, <3>2, <3>3
  <2> QED BY <2>1, <2>4, <2>6, <2>7 DEF ProposalMoves
<1>2. ASSUME GateInv, [Next]_vars
      PROVE  LET newly == {p \in ProposalIds : proposals[p].status # "rejected" /\ proposals'[p].status = "rejected"}
             IN  /\ \A p \in ProposalIds :
                       LET from == proposals[p].status  to == proposals'[p].status
                       IN  /\ proposal_is_terminal(from) => proposals'[p] = proposals[p]
                           /\ \/ from = to
                              \/ from = "absent" /\ to = "pending"
                              \/ proposal_transition_allowed(from, to)
                              \/ /\ tx # Idle /\ tx' = Idle /\ tx.proposal = p
                                 /\ from = "applying" /\ to = "pending"
                 /\ IF newly = {} THEN rejections' = rejections
                    ELSE \E p \in newly : /\ newly = {p}
                                         /\ rejections' = Append(rejections, [proposal |-> p, source |-> proposals[p].source])
  BY <1>1, <1>2
<1> QED BY <1>2, GateInvariant, PTL DEF Spec, DecidedOnce

-----------------------------------------------------------------------------
(* What a step may do to the rows others see. *)

\* A step shows nothing new, or is a direct write, or commits an accepted batch.
Shows ==
    \/ committed' = committed /\ UNCHANGED weeks
    \/ tx = Idle /\ tx' = Idle /\ DirectShape
    \/ /\ tx # Idle /\ tx' = Idle /\ actor' = "human"
       /\ UNCHANGED <<areas, directions, weeks, tasks, rhythms, bodies>>

\* Every step is of one of these kinds.
LEMMA StepShows ==
    ASSUME GateInv, [Next]_vars
    PROVE  Shows
<1>1. ASSUME DirectWrite PROVE Shows
  <2>1. DirectShape /\ UNCHANGED tx
    BY <1>1, DirectStep DEF DirectShape
  <2>2. CASE tx = Idle
    BY <2>1, <2>2 DEF Shows
  <2>3. CASE tx # Idle
    BY <2>1, <2>3 DEF Shows, DirectShape, committed
  <2> QED BY <2>2, <2>3
<1>2. ASSUME Gate PROVE Shows
  <2>1. tx = Idle /\ UNCHANGED <<areas, directions, weeks, tasks, rhythms, bodies>>
    BY <1>2 DEF Gate, post_proposals, ai_submit, post_accept, post_reject, submit_proposal, submit,
       apply_proposal, reject_proposal
  <2>2. UNCHANGED tx \/ (tx' # Idle /\ tx'.saved = currentTables)
    <3>1. \A m, p, ops, source : Begin(m, p, ops, source) => tx'.mode = m /\ tx'.saved = currentTables
      BY DEF Begin
    <3>2. tx'.mode \in {"accept", "dry"} => tx' # Idle
      BY DEF Idle
    <3> QED BY <1>2, <3>1, <3>2 DEF Gate, post_proposals, ai_submit, post_accept, post_reject, submit_proposal,
               submit, apply_proposal, reject_proposal
  <2>3. UNCHANGED currentTables
    BY <2>1 DEF currentTables
  <2> QED BY <2>1, <2>2, <2>3 DEF Shows, committed
<1>3. ASSUME apply_op PROVE Shows
  <2>1. Applying /\ Advance
    BY <1>3 DEF apply_op, apply_CreateArea, apply_CreateDirection, apply_CreateTask, apply_TransitionTask,
       apply_CreateTasks, apply_ReorderTasks, apply_AdjustRhythm, apply_CarryOverTask,
       apply_AssignTaskDirection, apply_DraftReviewBody, Current
  <2>2. tx # Idle /\ tx' # Idle /\ tx'.saved = tx.saved /\ UNCHANGED weeks
    BY <2>1, TxFacts DEF Advance, OpenTx, Idle
  <2> QED BY <2>2 DEF Shows, committed
<1>4. ASSUME tx # Idle, Restore PROVE Shows
  BY <1>4, RestoreHolds DEF Shows, committed
<1>5. ASSUME CommitAccept, UNCHANGED actor PROVE Shows
  BY <1>5 DEF CommitAccept, Shows, GateInv, AcceptIsHuman
<1>6. ASSUME Transaction PROVE Shows
  <2>1. RollBack \/ Crash \/ CommitDryRun => tx # Idle /\ Restore
    BY DEF RollBack, Crash, CommitDryRun, Applying
  <2> QED BY <1>3, <1>4, <1>5, <1>6, <2>1 DEF Transaction
<1>7. ASSUME Lifecycle \/ UNCHANGED vars PROVE Shows
  BY <1>7 DEF Lifecycle, vars, Shows, committed, currentTables
<1> QED BY <1>1, <1>2, <1>6, <1>7 DEF Next

\* A direct write leaves settled rows and all Directions alone.
LEMMA TaskWriteIsMild ==
    ASSUME TasksHold(tasks), TaskWrite
    PROVE  /\ \A t \in DOMAIN tasks : /\ Settled(tasks[t], weeks) => tasks'[t] = tasks[t]
                                      /\ tasks'[t].direction = tasks[t].direction
           /\ \A t \in DOMAIN tasks' \ DOMAIN tasks : tasks'[t].week = None
<1>0. tasks \in Seq(TaskRow)
  BY DEF TasksHold
<1>1. CASE UNCHANGED tasks
  BY <1>1
<1>2. ASSUME NEW row, Fresh(tasks, row), row.week = None, tasks' = Append(tasks, row)
      PROVE  /\ \A t \in DOMAIN tasks : tasks'[t] = tasks[t]
             /\ \A t \in DOMAIN tasks' \ DOMAIN tasks : tasks'[t].week = None
  <2>1. row \in TaskRow
    BY <1>2 DEF Fresh
  <2>2. /\ Len(tasks) \in Nat /\ DOMAIN tasks = 1..Len(tasks)
        /\ DOMAIN tasks' = 1..Len(tasks)+1 /\ tasks'[Len(tasks)+1] = row
        /\ \A i \in 1..Len(tasks) : tasks'[i] = tasks[i]
    BY <1>0, <1>2, <2>1, AppendFacts
  <2> QED BY <1>2, <2>2
<1>3. ASSUME NEW u \in DOMAIN tasks, NEW to \in TaskStatus, ~Settled(tasks[u], weeks),
             tasks' = [tasks EXCEPT ![u].status = to]
      PROVE  /\ \A t \in DOMAIN tasks : /\ Settled(tasks[t], weeks) => tasks'[t] = tasks[t]
                                        /\ tasks'[t].direction = tasks[t].direction
             /\ \A t \in DOMAIN tasks' \ DOMAIN tasks : tasks'[t].week = None
  <2>1. /\ DOMAIN tasks' = DOMAIN tasks /\ \A i \in DOMAIN tasks : i # u => tasks'[i] = tasks[i]
        /\ tasks'[u].direction = tasks[u].direction
    BY <1>0, <1>3, StatusSet
  <2> QED BY <1>3, <2>1
<1> QED BY <1>1, <1>2, <1>3 DEF TaskWrite

\* How the committed tasks move.
LEMMA RowsMove ==
    ASSUME GateInv, [Next]_vars
    PROVE  /\ \A t \in DOMAIN committed.tasks :
                 /\ Settled(committed.tasks[t], weeks) => committed'.tasks[t] = committed.tasks[t]
                 /\ committed'.tasks[t].direction # committed.tasks[t].direction =>
                       /\ committed.tasks[t].direction \in {None, Triage}
                       /\ committed.tasks[t].via = "direct" => tx.source = "direct"
           /\ \A t \in DOMAIN committed'.tasks \ DOMAIN committed.tasks :
                 committed'.tasks[t].week # None => week_is_open(weeks[committed'.tasks[t].week])
<1>1. CASE committed' = committed
  BY <1>1
<1>2. CASE tx = Idle /\ tx' = Idle /\ DirectShape
  <2>1. committed.tasks = tasks /\ committed'.tasks = tasks'
    BY <1>2 DEF committed, currentTables
  <2>2. TasksHold(tasks) /\ TaskWrite
    BY <1>2 DEF GateInv, NowHolds, DirectShape
  <2> QED BY <2>1, <2>2, TaskWriteIsMild
<1>3. CASE tx # Idle /\ tx' = Idle /\ UNCHANGED <<areas, directions, weeks, tasks, rhythms, bodies>>
  <2>1. committed.tasks = tx.saved.tasks /\ committed'.tasks = tasks
    BY <1>3 DEF committed, currentTables
  <2>2. Grown(tx.saved.tasks, tasks, weeks, tx.source)
    BY <1>3 DEF GateInv, TxInv, Moved
  <2> QED BY <2>1, <2>2 DEF Grown
<1> QED BY <1>1, <1>2, <1>3, StepShows DEF Shows

\* What is closed stays as it is, and nothing is added to a week that is not open.
THEOREM ClosedRowsStay == Spec => HistoryStaysPut
<1>1. ASSUME GateInv, [Next]_vars
      PROVE  /\ \A t \in DOMAIN committed.tasks :
                   LET row == committed.tasks[t]
                   IN  (task_is_terminal(row.status) \/ (row.week # None /\ ~week_is_open(weeks[row.week])))
                       => committed'.tasks[t] = row
             /\ \A t \in DOMAIN committed'.tasks \ DOMAIN committed.tasks :
                   committed'.tasks[t].week # None => week_is_open(weeks[committed'.tasks[t].week])
  BY <1>1, RowsMove DEF Settled
<1> QED BY <1>1, GateInvariant, PTL DEF Spec, HistoryStaysPut

\* A task leaves the inbox or Triage only, and what the user parked no run of classify takes.
THEOREM PlacementWins == Spec => HumanPlacementWins
<1>1. ASSUME GateInv, [Next]_vars
      PROVE  \A t \in DOMAIN committed.tasks :
                LET row == committed.tasks[t]
                IN  committed'.tasks[t].direction # row.direction =>
                       /\ row.direction \in {None, Triage}
                       /\ row.via = "direct" => tx.source = "direct"
  BY <1>1, RowsMove
<1> QED BY <1>1, GateInvariant, PTL DEF Spec, HumanPlacementWins

\* A step for the automation key or for an AI run commits a note at most, and decides nothing.
THEOREM HumansCommit == Spec => OnlyHumansCommit
<1>1. ASSUME GateInv, [Next]_vars, actor' # "human"
      PROVE  /\ UNCHANGED weeks
             /\ \/ committed' = committed
                \/ committed' = [committed EXCEPT !.tasks =
                                    Append(@, NewTask("backlog", None, None, None, None, None))]
             /\ \A p \in ProposalIds : proposals'[p] # proposals[p] =>
                   proposals[p].status = "absent" /\ proposals'[p].status = "pending"
  <2>1. UNCHANGED weeks /\ (\/ committed' = committed
                            \/ committed' = [committed EXCEPT !.tasks =
                                                Append(@, NewTask("backlog", None, None, None, None, None))])
    <3>1. CASE tx = Idle /\ tx' = Idle /\ DirectShape
      <4>1. committed = currentTables /\ committed' = currentTables'
        BY <3>1 DEF committed
      <4>2. CASE Noted
        <5>1. PICK note : note = NewTask("backlog", None, None, None, None, None)
          OBVIOUS
        <5>2. UNCHANGED <<areas, directions, weeks, rhythms, bodies>> /\ tasks' = Append(tasks, note)
          BY <4>2, <5>1 DEF Noted
        <5>3. PICK ts : ts = Append(tasks, note)
          OBVIOUS
        <5>4. currentTables' = [areas |-> areas, directions |-> directions, tasks |-> ts,
                                rhythms |-> rhythms, bodies |-> bodies]
          BY <5>2, <5>3 DEF currentTables
        <5>5. [currentTables EXCEPT !.tasks = ts] = [areas |-> areas, directions |-> directions, tasks |-> ts,
                                                     rhythms |-> rhythms, bodies |-> bodies]
          BY DEF currentTables
        <5>6. Append(currentTables.tasks, note) = ts
          BY <5>3 DEF currentTables
        <5>7. [currentTables EXCEPT !.tasks = Append(@, note)] = [currentTables EXCEPT !.tasks = ts]
          BY <5>6
        <5> QED BY <4>1, <5>1, <5>2, <5>4, <5>5, <5>7
      <4>3. CASE UNCHANGED <<areas, directions, weeks, tasks, rhythms, bodies>>
        BY <4>1, <4>3 DEF currentTables
      <4> QED BY <1>1, <3>1, <4>2, <4>3 DEF DirectShape
    <3> QED BY <1>1, <3>1, StepShows DEF Shows
  <2>2. ASSUME NEW p \in ProposalIds, proposals'[p] # proposals[p]
        PROVE  proposals[p].status = "absent" /\ proposals'[p].status = "pending"
    <3>1. ProposalMoves
      BY <1>1, ProposalStep
    <3>2. PICK q \in ProposalIds, row \in ProposalRow :
             /\ proposals' = [proposals EXCEPT ![q] = row]
             /\ proposals[q].status = "absent" /\ row.status = "pending"
      BY <1>1, <2>2, <3>1 DEF ProposalMoves
    <3>3. proposals \in [ProposalIds -> ProposalRow]
      BY <1>1 DEF GateInv, GateTyped
    <3> QED BY <2>2, <3>2, <3>3
  <2> QED BY <2>1, <2>2
<1> QED BY <1>1, GateInvariant, PTL DEF Spec, OnlyHumansCommit
=============================================================================
