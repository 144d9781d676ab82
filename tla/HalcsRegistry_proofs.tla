------------------------- MODULE HalcsRegistry_proofs -------------------------
(***************************************************************************)
(* Proof that halcs_func_translate's nested scan returns the first match   *)
(* in registration order, for every registry of any number of tables of    *)
(* any size (TranslateFirstMatch, checked by registry_first_match on       *)
(* registries of up to three tables of two names).  The loop invariant    *)
(* ScanInv says that no entry before the position <<i, j>> the scan has   *)
(* reached bears the name looked up.                                      *)
(***************************************************************************)
EXTENDS HalcsRegistry, TLAPS

\* The scan stays inside the array and the current table, and every entry
\* before <<i, j>> in registration order has been compared and missed.
ScanInv ==
    /\ i \in DOMAIN exp
    /\ exp[i] # NULL => j \in DOMAIN exp[i]
    /\ \A e \in Entries : ~Lexless(e, <<i, j>>)

\* The inductive invariant: the registry keeps its shape, the scan its loop
\* invariant, and a finished scan has returned the first match.
IInv ==
    /\ exp \in Registries
    /\ name \in Names
    /\ pc \in {"idle", "scan", "exec", "done"}
    /\ pc = "scan" => ScanInv
    /\ pc \in {"exec", "done"} => /\ func = FirstMatch
                                  /\ (func = NULL) = (Entries = {})
    /\ pc = "done" => ((err = "ERR_INV_FUNCTION") = (func = NULL))

-----------------------------------------------------------------------------
(* The shape of smio_exp_ops and of a module's table.                     *)

\* smio_exp_ops holds n tables, then NULL at n + 1.
LEMMA RegShape ==
    ASSUME NEW r \in Registries
    PROVE  \E n \in 0..MaxTables :
              /\ DOMAIN r = 1..n + 1
              /\ r[n + 1] = NULL
              /\ \A k \in 1..n : r[k] # NULL
              /\ \A k \in 1..n : r[k] \in UNION {Table(m) : m \in 0..MaxOps}
<1> DEFINE Tabs == UNION {Table(m) : m \in 0..MaxOps}
<1>1. PICK n \in 0..MaxTables :
          r \in {rr \in [1..n + 1 -> Tabs \cup {NULL}] :
                   /\ rr[n + 1] = NULL
                   /\ \A k \in 1..n : rr[k] # NULL}
  BY DEF Registries
<1>2. /\ DOMAIN r = 1..n + 1
      /\ r[n + 1] = NULL
      /\ \A k \in 1..n : r[k] # NULL
      /\ \A k \in 1..n : r[k] \in Tabs \cup {NULL}
  BY <1>1, RegistryAssumption
<1>3. QED
  BY <1>2

\* A non-NULL slot of the array is a table among the first MaxTables, and
\* every non-NULL slot comes before a NULL one.
LEMMA SlotFacts ==
    ASSUME NEW r \in Registries, NEW k \in DOMAIN r
    PROVE  /\ k \in Nat \ {0}
           /\ r[k] # NULL => /\ k <= MaxTables
                            /\ \E m \in 0..MaxOps : r[k] \in Table(m)
                            /\ k + 1 \in DOMAIN r
           /\ r[k] = NULL => \A k2 \in DOMAIN r : r[k2] # NULL => k2 < k
<1>1. PICK n \in 0..MaxTables :
          /\ DOMAIN r = 1..n + 1
          /\ r[n + 1] = NULL
          /\ \A k2 \in 1..n : r[k2] # NULL
          /\ \A k2 \in 1..n : r[k2] \in UNION {Table(m) : m \in 0..MaxOps}
  BY RegShape
<1>2. r[k] # NULL => k <= n
  BY <1>1, RegistryAssumption
<1>3. r[k] = NULL => k = n + 1
  BY <1>1, RegistryAssumption
<1>4. QED
  BY <1>1, <1>2, <1>3, RegistryAssumption

\* In a table of m names, a non-NULL entry is one of the first m, and the
\* entry after it exists; NULL is entry m + 1, after every name.
LEMMA EntryFacts ==
    ASSUME NEW m \in Nat, NEW t \in Table(m), NEW l \in DOMAIN t
    PROVE  /\ l \in Nat \ {0}
           /\ t[l] # NULL => l <= m /\ l + 1 \in DOMAIN t
           /\ t[l] = NULL => \A l2 \in DOMAIN t : t[l2] # NULL => l2 < l
BY DEF Table

\* Entries are positions of natural numbers.
LEMMA EntriesNat ==
    Entries \subseteq (Nat \ {0}) \X (Nat \ {0})
BY RegistryAssumption DEF Entries, Tables

\* An entry that no entry precedes is the first match.
LEMMA FirstIs ==
    ASSUME NEW e \in Entries, \A d \in Entries : ~Lexless(d, e)
    PROVE  FirstMatch = e
<1> DEFINE First(x) == \A d \in Entries \ {x} : Lexless(x, d)
<1>1. First(e)
  BY EntriesNat DEF Lexless
<1> DEFINE c == CHOOSE x \in Entries : First(x)
<1>2. c \in Entries /\ First(c)
  BY <1>1
<1>3. c = e
  BY <1>2
<1>4. QED
  BY <1>3 DEF FirstMatch

-----------------------------------------------------------------------------
(* The steps.                                                              *)

\* halcs_func_trans_exec starts a scan at <<1, 1>>, before which no entry lies.
LEMMA LookupStep ==
    ASSUME IInv, Lookup
    PROVE  IInv'
<1>1. 1 \in DOMAIN exp
  BY RegShape DEF IInv
<1>2. exp[1] # NULL => 1 \in DOMAIN exp[1]
  <2> SUFFICES ASSUME exp[1] # NULL PROVE 1 \in DOMAIN exp[1]
    OBVIOUS
  <2>1. PICK m \in 0..MaxOps : exp[1] \in Table(m)
    BY <1>1, SlotFacts DEF IInv
  <2>2. QED
    BY <2>1 DEF Table
<1>3. \A e \in Entries' : ~Lexless(e, <<1, 1>>)
  BY EntriesNat DEF Lookup, Entries, Tables, Lexless
<1>4. QED
  BY <1>1, <1>2, <1>3 DEF Lookup, IInv, ScanInv

\* The outer test meets the NULL that ends the array: every table lies
\* before i, so none bears the name, and 0 is the first match.
LEMMA NotFoundStep ==
    ASSUME IInv, NotFound
    PROVE  IInv'
<1>1. ScanInv /\ exp \in Registries /\ exp[i] = NULL
  BY DEF IInv, NotFound
<1>2. Entries = {}
  <2> SUFFICES ASSUME NEW e \in Entries PROVE FALSE
    OBVIOUS
  <2>1. e[1] \in DOMAIN exp /\ exp[e[1]] # NULL
    BY DEF Entries, Tables
  <2>2. e[1] < i
    BY <1>1, <2>1, SlotFacts DEF ScanInv
  <2>3. QED
    BY <1>1, <2>2, EntriesNat DEF ScanInv, Lexless
<1>3. FirstMatch = NULL
  BY <1>2 DEF FirstMatch
<1>4. Entries' = Entries /\ FirstMatch' = FirstMatch
  BY DEF NotFound, Entries, Tables, FirstMatch
<1>5. QED
  BY <1>2, <1>3, <1>4 DEF NotFound, IInv

\* The scans change neither the registry nor the name, hence not the
\* entries that bear it.
LEMMA EntriesKept ==
    ASSUME exp' = exp, name' = name
    PROVE  Entries' = Entries /\ FirstMatch' = FirstMatch
BY DEF Entries, Tables, FirstMatch

\* The inner test meets the table's NULL: every entry of table i lies
\* before j, so the scan may go on at the first entry of table i + 1.
LEMMA NextTableStep ==
    ASSUME IInv, NextTable
    PROVE  IInv'
<1>1. /\ ScanInv /\ exp \in Registries /\ name \in Names
      /\ exp[i] # NULL /\ exp[i][j] = NULL
  BY DEF IInv, NextTable
<1>2. PICK m \in 0..MaxOps : exp[i] \in Table(m)
  BY <1>1, SlotFacts DEF ScanInv
<1>3. i + 1 \in DOMAIN exp /\ i \in Nat
  BY <1>1, SlotFacts DEF ScanInv
<1>4. exp[i + 1] # NULL => 1 \in DOMAIN exp[i + 1]
  <2> SUFFICES ASSUME exp[i + 1] # NULL PROVE 1 \in DOMAIN exp[i + 1]
    OBVIOUS
  <2>1. PICK m2 \in 0..MaxOps : exp[i + 1] \in Table(m2)
    BY <1>1, <1>3, SlotFacts
  <2>2. QED
    BY <2>1 DEF Table
<1>5. \A e \in Entries : ~Lexless(e, <<i + 1, 1>>)
  <2> SUFFICES ASSUME NEW e \in Entries, Lexless(e, <<i + 1, 1>>) PROVE FALSE
    OBVIOUS
  <2>1. e \in (Nat \ {0}) \X (Nat \ {0}) /\ ~Lexless(e, <<i, j>>)
    BY <1>1, EntriesNat DEF ScanInv
  <2>2. e[1] <= i
    BY <1>3, <2>1 DEF Lexless
  <2>3. CASE e[1] < i
    BY <1>3, <2>1, <2>3 DEF Lexless
  <2>4. CASE e[1] = i
    <3>1. e[2] \in DOMAIN exp[i] /\ exp[i][e[2]] = name
      BY <2>4 DEF Entries
    <3>2. exp[i][e[2]] # NULL
      BY <1>1, <3>1, RegistryAssumption
    <3>3. e[2] < j
      BY <1>1, <1>2, <3>1, <3>2, EntryFacts DEF ScanInv
    <3>4. QED
      BY <2>1, <2>4, <3>3 DEF Lexless
  <2>5. QED
    BY <1>3, <2>1, <2>2, <2>3, <2>4
<1>6. Entries' = Entries
  BY EntriesKept DEF NextTable
<1>7. QED
  BY <1>1, <1>3, <1>4, <1>5, <1>6 DEF NextTable, IInv, ScanInv

\* A match at <<i, j>>: it is an entry, none lies before it, so it is the
\* first match, and it is not 0.
LEMMA MatchStep ==
    ASSUME IInv, Match
    PROVE  IInv'
<1>1. /\ ScanInv /\ exp \in Registries /\ name \in Names
      /\ exp[i] # NULL /\ exp[i][j] = name
  BY DEF IInv, Match
<1>2. PICK m \in 0..MaxOps : exp[i] \in Table(m)
  BY <1>1, SlotFacts DEF ScanInv
<1>3. i \in 1..MaxTables /\ i \in Tables
  BY <1>1, SlotFacts, RegistryAssumption DEF ScanInv, Tables
<1>4. j \in 1..MaxOps
  <2>1. exp[i][j] # NULL
    BY <1>1, RegistryAssumption
  <2>2. j \in Nat \ {0} /\ j <= m
    BY <1>1, <1>2, <2>1, EntryFacts DEF ScanInv
  <2>3. QED
    BY <2>2, RegistryAssumption
<1>5. <<i, j>> \in Entries
  BY <1>1, <1>3, <1>4 DEF Entries, ScanInv
<1>6. FirstMatch = <<i, j>>
  BY <1>1, <1>5, FirstIs DEF ScanInv
<1>7. <<i, j>> # NULL
  BY <1>3, <1>4, RegistryAssumption
<1>8. Entries' = Entries /\ FirstMatch' = FirstMatch
  BY EntriesKept DEF Match
<1>9. QED
  BY <1>1, <1>5, <1>6, <1>7, <1>8 DEF Match, IInv

\* A different name at <<i, j>>: it is not an entry, so none lies before
\* <<i, j + 1>> either, which is still in the table.
LEMMA MismatchStep ==
    ASSUME IInv, Mismatch
    PROVE  IInv'
<1>1. /\ ScanInv /\ exp \in Registries /\ name \in Names
      /\ exp[i] # NULL /\ exp[i][j] \notin {NULL, name}
  BY DEF IInv, Mismatch
<1>2. PICK m \in 0..MaxOps : exp[i] \in Table(m)
  BY <1>1, SlotFacts DEF ScanInv
<1>3. j + 1 \in DOMAIN exp[i] /\ j \in Nat /\ i \in Nat
  BY <1>1, <1>2, EntryFacts, SlotFacts DEF ScanInv
<1>4. \A e \in Entries : ~Lexless(e, <<i, j + 1>>)
  <2> SUFFICES ASSUME NEW e \in Entries, Lexless(e, <<i, j + 1>>) PROVE FALSE
    OBVIOUS
  <2>1. e \in (Nat \ {0}) \X (Nat \ {0}) /\ ~Lexless(e, <<i, j>>)
    BY <1>1, EntriesNat DEF ScanInv
  <2>2. e[1] = i /\ e[2] = j
    BY <1>3, <2>1 DEF Lexless
  <2>3. exp[i][j] = name
    BY <2>2 DEF Entries
  <2>4. QED
    BY <1>1, <2>3
<1>5. Entries' = Entries
  BY EntriesKept DEF Mismatch
<1>6. QED
  BY <1>1, <1>3, <1>4, <1>5 DEF Mismatch, IInv, ScanInv

\* halcs_func_exec refuses exactly the 0 descriptor.
LEMMA ExecStep ==
    ASSUME IInv, Exec
    PROVE  IInv'
<1>1. Entries' = Entries /\ FirstMatch' = FirstMatch
  BY EntriesKept DEF Exec
<1>2. QED
  BY <1>1 DEF Exec, IInv

LEMMA InitIInv ==
    Init => IInv
BY DEF Init, IInv

\* halcs_func_translate returns the entry of the earliest table, and the
\* earliest entry in it, that bears the name, and 0 when none does; the
\* call is refused with ERR_INV_FUNCTION exactly when the name is in no
\* table (TranslateFirstMatch, for every registry of any size).
THEOREM TranslateSafe == Spec => []TranslateFirstMatch
<1>1. IInv /\ [Next]_vars => IInv'
  <2> SUFFICES ASSUME IInv, [Next]_vars PROVE IInv'
    OBVIOUS
  <2>1. CASE Lookup
    BY <2>1, LookupStep
  <2>2. CASE NotFound
    BY <2>2, NotFoundStep
  <2>3. CASE NextTable
    BY <2>3, NextTableStep
  <2>4. CASE Match
    BY <2>4, MatchStep
  <2>5. CASE Mismatch
    BY <2>5, MismatchStep
  <2>6. CASE Exec
    BY <2>6, ExecStep
  <2>7. CASE UNCHANGED vars
    <3>1. Entries' = Entries /\ FirstMatch' = FirstMatch
      BY <2>7, EntriesKept DEF vars
    <3>2. QED
      BY <2>7, <3>1 DEF vars, IInv, ScanInv
  <2>8. QED
    BY <2>1, <2>2, <2>3, <2>4, <2>5, <2>6, <2>7 DEF Next
<1>2. IInv => TranslateFirstMatch
  BY DEF IInv, TranslateFirstMatch
<1>3. QED
  BY InitIInv, <1>1, <1>2, PTL DEF Spec

====
