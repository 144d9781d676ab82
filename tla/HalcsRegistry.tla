---------------------------- MODULE HalcsRegistry ----------------------------
(***************************************************************************)
(* The client's operation registry: halcs_func_translate (core.c 321-335)  *)
(* scans smio_exp_ops, a NULL-terminated array of the modules' NULL-       *)
(* terminated operation tables (dsp_exp_ops, sm_io_dsp_exp.c 108-141, and  *)
(* the like), in registration order and returns the first descriptor whose *)
(* name matches, or 0; halcs_func_trans_exec (337-343) hands the result to *)
(* halcs_func_exec, which refuses a NULL descriptor with                   *)
(* HALCS_CLIENT_ERR_INV_FUNCTION before anything is sent (236-239).        *)
(*                                                                         *)
(* The tables are fixed before the first lookup (spec 3: populated once,   *)
(* read-only thereafter); Init chooses them among all registries of at    *)
(* most MaxTables tables of at most MaxOps entries whose names are        *)
(* distinct within each table (the spec's invariant).  A descriptor is    *)
(* its position <<i, j>>: table i is module i's, and its opcode and        *)
(* service follow from it.  The two nested loops run one comparison per   *)
(* step, so that the loop control (the bounds and the NULL sentinels) is  *)
(* what is checked.                                                       *)
(***************************************************************************)
EXTENDS Naturals, Sequences

CONSTANTS
    Names,      \* the operation names
    NULL,       \* the sentinel entry that ends a table, and the array
    MaxTables,
    MaxOps

ASSUME RegistryAssumption ==
    /\ NULL \notin Names
    /\ MaxTables \in Nat /\ MaxOps \in Nat
    \* A descriptor, smio_exp_ops[i][j], is returned only after the inner
    \* loop found it non-NULL (core.c 327-329): no position is the null pointer.
    /\ NULL \notin Nat \X Nat

\* A module's table: distinct names followed by the {.name = NULL} entry
\* ("Must end with this NULL pattern", sm_io_dsp_exp.c 137-140).
Table(n) == {t \in [1..n + 1 -> Names \cup {NULL}] :
                /\ t[n + 1] = NULL
                /\ \A k \in 1..n : t[k] # NULL
                /\ \A k, l \in 1..n : k # l => t[k] # t[l]}

\* smio_exp_ops: the tables in registration order, then NULL.
Registries == UNION {{r \in [1..n + 1 -> (UNION {Table(k) : k \in 0..MaxOps}) \cup {NULL}] :
                        /\ r[n + 1] = NULL
                        /\ \A k \in 1..n : r[k] # NULL} : n \in 0..MaxTables}

VARIABLES
    exp,     \* smio_exp_ops
    pc,      \* "idle", "scan" (inside the loops), "exec" or "done"
    name,    \* the name looked up
    i, j,    \* the loop counters
    func,    \* what halcs_func_translate returned: <<i, j>> or NULL (0)
    err      \* what halcs_func_trans_exec returned

vars == <<exp, pc, name, i, j, func, err>>

Init ==
    /\ exp \in Registries
    /\ pc = "idle" /\ name \in Names
    /\ i = 1 /\ j = 1 /\ func = NULL /\ err = "NONE"

\* halcs_func_trans_exec called with a name (assert (name): never NULL).
Lookup ==
    /\ pc \in {"idle", "done"}
    /\ \E n \in Names : name' = n
    /\ pc' = "scan" /\ i' = 1 /\ j' = 1 /\ func' = NULL
    /\ UNCHANGED <<exp, err>>

\* The outer test smio_exp_ops[i] != NULL fails: no match, return 0.
NotFound ==
    /\ pc = "scan" /\ exp[i] = NULL
    /\ pc' = "exec" /\ func' = NULL
    /\ UNCHANGED <<exp, name, i, j, err>>

\* The inner test smio_exp_ops[i][j] != NULL fails: next table (i++),
\* whose loop starts again at j = 0.
NextTable ==
    /\ pc = "scan" /\ exp[i] # NULL /\ exp[i][j] = NULL
    /\ i' = i + 1 /\ j' = 1
    /\ UNCHANGED <<exp, pc, name, func, err>>

\* Mutant: the match is recorded but the loop goes on (no return).
MatchNoReturn ==
    /\ pc = "scan" /\ exp[i] # NULL /\ exp[i][j] = name
    /\ func' = <<i, j>> /\ j' = j + 1
    /\ UNCHANGED <<exp, pc, name, i, err>>

\* streq(name, smio_exp_ops[i][j]->name): a match is returned at once.
Match ==
    /\ pc = "scan" /\ exp[i] # NULL /\ exp[i][j] = name
    /\ pc' = "exec" /\ func' = <<i, j>>
    /\ UNCHANGED <<exp, name, i, j, err>>

Mismatch ==
    /\ pc = "scan" /\ exp[i] # NULL /\ exp[i][j] \notin {NULL, name}
    /\ j' = j + 1
    /\ UNCHANGED <<exp, pc, name, i, func, err>>

\* halcs_func_exec's check of the descriptor (lines 236-239); a found
\* descriptor is executed (the call itself is HalcsRpc's and HalcsAcq's).
Exec ==
    /\ pc = "exec"
    /\ err' = IF func = NULL THEN "ERR_INV_FUNCTION" ELSE "SENT"
    /\ pc' = "done"
    /\ UNCHANGED <<exp, name, i, j, func>>

Next == Lookup \/ NotFound \/ NextTable \/ Match \/ Mismatch \/ Exec

Spec == Init /\ [][Next]_vars

-----------------------------------------------------------------------------
(* Reference: the first match in registration order.                      *)

Tables == {k \in 1..MaxTables : k \in DOMAIN exp /\ exp[k] # NULL}

\* The positions <<table, entry>> that bear the name looked up.
Entries == {e \in Tables \X (1..MaxOps) :
                e[2] \in DOMAIN exp[e[1]] /\ exp[e[1]][e[2]] = name}

Lexless(a, b) == a[1] < b[1] \/ (a[1] = b[1] /\ a[2] < b[2])

FirstMatch == IF Entries = {} THEN NULL
              ELSE CHOOSE e \in Entries : \A d \in Entries \ {e} : Lexless(e, d)


\* halcs_func_translate returns the entry of the earliest table, and the
\* earliest entry in it, that bears the name, and 0 when none does; the
\* call is refused with ERR_INV_FUNCTION exactly when the name is in no
\* table.
TranslateFirstMatch ==
    pc = "done" =>
        /\ func = FirstMatch
        /\ (err = "ERR_INV_FUNCTION") = (Entries = {})

\* A name resolves to the module that exports it (spec 3: the registry
\* maps a name to its descriptor): every table that bears the looked-up
\* name is the table of the descriptor halcs_func_translate returned.
ResolvesToOwner ==
    pc = "done" =>
        \A k \in Tables : (\E l \in DOMAIN exp[k] : exp[k][l] = name) => func[1] = k
====
