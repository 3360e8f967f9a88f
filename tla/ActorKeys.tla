------------------------------- MODULE ActorKeys -------------------------------
(***************************************************************************)
(* How a process comes by the two actor keys before it serves anything:    *)
(* from its environment, from actor-keys.json, or by making that file.     *)
(* Processes may start at the same time and may stop at any step; a temp   *)
(* file is named after its process id, which no two live processes share.  *)
(* A key is <<number, role>>: whom it was made for.                        *)
(***************************************************************************)
EXTENDS Integers

CONSTANTS
    Procs,      \* process ids
    MaxPairs,   \* bound: how many pairs are ever made
    NoKeys

ASSUME ActorKeysAssumption == NoKeys \notin [{"human", "automation"} -> Nat \X {"human", "automation"}]

VARIABLES
    keyfile,    \* actor-keys.json: a pair, or NoKeys when there is no file
    mode,       \* its permission bits: "0600", or "open" to group or other
    temp,       \* the temp file of each process id
    minted,     \* how many pairs were made
    proc        \* each process: where its start-up is, and the keys it has

keyVars == <<keyfile, mode, temp, minted, proc>>

Roles == {"human", "automation"}

Pair(n) == [r \in Roles |-> <<n, r>>]
Pairs == {Pair(n) : n \in 1..MaxPairs}

\* SIN90_HUMAN_KEY and SIN90_AUTOMATION_KEY: neither, both, one alone, or one
\* value for both.
Halved == [r \in Roles |-> IF r = "human" THEN <<0, r>> ELSE <<0, "blank">>]
Alike == [r \in Roles |-> <<0, "shared">>]
Environments == {NoKeys, Pair(0), Halved, Alike}

\* What a file holds between its creation and the end of its write.
Partial == [r \in Roles |-> <<0, "blank">>]

Down == [pc |-> "down", keys |-> NoKeys]
Served(keys) == [pc |-> "serving", keys |-> keys]

KeysInit ==
    /\ keyfile = NoKeys /\ mode = "0600"
    /\ temp = [p \in Procs |-> NoKeys]
    /\ minted = 0
    /\ proc = [p \in Procs |-> Down]

At(p, pc) == proc[p].pc = pc
GoTo(p, pc) == proc' = [proc EXCEPT ![p] = [pc |-> pc, keys |-> proc[p].keys]]
HasKeys(p, keys) == proc' = [proc EXCEPT ![p] = [pc |-> "connect", keys |-> keys]]
Exits(p) == proc' = [proc EXCEPT ![p] = Down]

\* ActorKeys::new: two usable keys, and not the same one twice.
new(pair) ==
    /\ \A r \in Roles : pair[r][2] # "blank"
    /\ pair["human"] # pair["automation"]

-----------------------------------------------------------------------------

main(p) ==
    /\ At(p, "down")
    /\ GoTo(p, "load")
    /\ UNCHANGED <<keyfile, mode, temp, minted>>

\* The environment's keys, both or neither, come first.
load(p, env) ==
    /\ At(p, "load")
    /\ \/ env = NoKeys /\ GoTo(p, "file")
       \/ env # NoKeys /\ new(env) /\ HasKeys(p, env)
       \/ env # NoKeys /\ ~new(env) /\ Exits(p)
    /\ UNCHANGED <<keyfile, mode, temp, minted>>

\* A file open to others, or one that holds no whole pair, ends the process.
read_file(p) ==
    IF mode = "0600" /\ new(keyfile) THEN HasKeys(p, keyfile) ELSE Exits(p)

load_or_create_file(p) ==
    /\ At(p, "file")
    /\ IF keyfile # NoKeys THEN read_file(p) ELSE GoTo(p, "create")
    /\ UNCHANGED <<keyfile, mode, temp, minted>>

\* create_new refuses a temp file that an earlier process of the same id left;
\* the refused start removes it.
create_temp(p) ==
    /\ At(p, "create")
    /\ IF temp[p] = NoKeys
       THEN temp' = [temp EXCEPT ![p] = Partial] /\ GoTo(p, "write")
       ELSE temp' = [temp EXCEPT ![p] = NoKeys] /\ Exits(p)
    /\ UNCHANGED <<keyfile, mode, minted>>

write_temp(p) ==
    /\ At(p, "write")
    /\ minted < MaxPairs
    /\ minted' = minted + 1
    /\ temp' = [temp EXCEPT ![p] = Pair(minted')]
    /\ GoTo(p, "link")
    /\ UNCHANGED <<keyfile, mode>>

\* A write or a link that fails removes the temp file and ends the process.
creation_fails(p) ==
    /\ At(p, "write") \/ At(p, "link")
    /\ temp' = [temp EXCEPT ![p] = NoKeys]
    /\ Exits(p)
    /\ UNCHANGED <<keyfile, mode, minted>>

\* Mutant: the temp file is renamed over whatever is there.
hard_link_renames(p) ==
    /\ At(p, "link")
    /\ keyfile' = temp[p] /\ mode' = "0600"
    /\ GoTo(p, "won")
    /\ UNCHANGED <<temp, minted>>

\* Publishing is atomic, and only the first of several gets through.
hard_link(p) ==
    /\ At(p, "link")
    /\ IF keyfile = NoKeys
       THEN keyfile' = temp[p] /\ mode' = "0600" /\ GoTo(p, "won")
       ELSE UNCHANGED <<keyfile, mode>> /\ GoTo(p, "lost")
    /\ UNCHANGED <<temp, minted>>

\* The winner goes on with the pair it made, the others read the winner's.
remove_temp(p) ==
    /\ At(p, "won") \/ At(p, "lost")
    /\ temp' = [temp EXCEPT ![p] = NoKeys]
    /\ IF At(p, "won") THEN HasKeys(p, temp[p]) ELSE read_file(p)
    /\ UNCHANGED <<keyfile, mode, minted>>

\* The handshake comes after the keys, the store after the handshake.
connect(p) ==
    /\ At(p, "connect")
    /\ GoTo(p, "open")
    /\ UNCHANGED <<keyfile, mode, temp, minted>>

serve(p) ==
    /\ At(p, "open")
    /\ GoTo(p, "serving")
    /\ UNCHANGED <<keyfile, mode, temp, minted>>

\* Anything may end a process: a failed step of start-up, a crash, on_fatal.
stop(p) ==
    /\ ~At(p, "down")
    /\ Exits(p)
    /\ UNCHANGED <<keyfile, mode, temp, minted>>

\* The operator opens the file's permissions, or closes them again.
chmod ==
    /\ keyfile # NoKeys
    /\ mode' = IF mode = "0600" THEN "open" ELSE "0600"
    /\ UNCHANGED <<keyfile, temp, minted, proc>>

KeysStep(p) ==
    \/ main(p)
    \/ \E env \in Environments : load(p, env)
    \/ load_or_create_file(p)
    \/ create_temp(p) \/ write_temp(p) \/ creation_fails(p)
    \/ hard_link(p) \/ remove_temp(p)
    \/ connect(p) \/ serve(p)
    \/ stop(p)

KeysNext == chmod \/ \E p \in Procs : KeysStep(p)

KeysSpec == KeysInit /\ [][KeysNext]_keyVars

-----------------------------------------------------------------------------

Serving(p) == At(p, "serving")

\* Who a request is taken for: the human key is compared first.
identify(p, key) ==
    IF key = proc[p].keys["human"] THEN "human"
    ELSE IF key = proc[p].keys["automation"] THEN "automation"
    ELSE "nobody"

\* However many processes start at once, and wherever one of them is stopped,
\* those that serve without keys of their own environment all hold one pair,
\* and the key file holds that pair, whole: a client that read the file is
\* known to every one of them, and is taken for the role its key was made for.
KeysAgree ==
    \A p \in Procs : Serving(p) =>
        /\ proc[p].keys \in {Pair(0), keyfile}
        /\ \A r \in Roles : identify(p, proc[p].keys[r]) = r
=============================================================================
