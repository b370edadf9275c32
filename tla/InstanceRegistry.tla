-------------------------- MODULE InstanceRegistry --------------------------
(***************************************************************************)
(* The instance registry: PostgresInstanceRegistry (odoo_forge_instances_  *)
(* postgres/adapter.py) and the in-memory implementation of the same port  *)
(* (fakes.py).                                                             *)
(*                                                                         *)
(* A SQL statement is a step, and sees what other transactions committed   *)
(* before it (READ COMMITTED).  The one statement of a transaction that    *)
(* writes is one step with its commit: until the commit nobody sees the    *)
(* row, and a writer of the same key waits.  A failing commit may have     *)
(* taken effect.                                                           *)
(***************************************************************************)
EXTENDS ServerCalls

CONSTANTS
    Pointers,       \* instances of one project scope
    Operations,     \* operation ids
    Names           \* identifiers of resources; numbers, for their order

ASSUME NamesAssumption == Names # {} /\ Names \subseteq Nat

Kinds == {"container", "database", "instance"}

Resources == [name : Names, kind : Kinds]

(* What a request means: the digest of an operation identity is its hash.  *)
Meanings == [pointer : Pointers, resource : Resources, id : Operations \cup Names]

Receipts == [operation : Operations, digest : Meanings, owned : Operations \cup Names]

Rows == [resource : Resources, receipt : Receipts \cup {None}]

VARIABLE rows       \* rows[i]: the row of instance i, or None

RegistryInit == rows = [i \in Pointers |-> None]

RegistryTypeOK == rows \in [Pointers -> Rows \cup {None}]

-----------------------------------------------------------------------------
Postgres == "postgres" \in world

SqlFails == "sql" \in world

(* _record_from_row: the columns of the receipt are not selected. *)
Selected(row) == IF Postgres THEN [row EXCEPT !.receipt = None] ELSE row

Present == {i \in Pointers : rows[i] # None}

(* get and list. *)
Get(i) == IF i \in Present THEN Selected(rows[i]) ELSE None

List == [i \in Present |-> Selected(rows[i])]

HoldsOperation(i, o) == i \in Present /\ rows[i].receipt # None /\ rows[i].receipt.operation = o

(* Mutant: a row that holds the operation already is not found. *)
ConflictingByPointer(i, row) == Present \cap {i}

(* Rows found by operation id or by primary key. *)
Conflicting(i, row) == {k \in Present : k = i \/ HoldsOperation(k, row.receipt.operation)}

Legacy(found) == \E k \in found : rows[k].receipt = None

SetRow(i, row) == rows' = [rows EXCEPT ![i] = row]

-----------------------------------------------------------------------------
(* store.                                                                  *)
BeginStore(p, i, resource) ==
    /\ Postgres
    /\ Begin(p, "store", "store", [cmd |-> "store", pointer |-> i, resource |-> resource])
    /\ UNCHANGED rows

StoreCheck(p) ==
    /\ At(p, "store")
    /\ LET i == job[p].pointer IN
       \/ SqlFails /\ Return(p, "error") /\ UNCHANGED rows
       \/ i \in Present /\ rows[i].receipt # None /\ Return(p, "rejected") /\ UNCHANGED rows
       \/ /\ i \in Present => rows[i].receipt = None
          /\ Step(p, "store_write") /\ UNCHANGED rows

StoreWrite(p) ==
    /\ At(p, "store_write")
    /\ LET i == job[p].pointer
           kept == IF i \in Present THEN rows[i].receipt ELSE None
       IN \/ SetRow(i, [resource |-> job[p].resource, receipt |-> kept]) /\ Return(p, "ok")
          \/ SqlFails /\ Return(p, "error") /\ UNCHANGED rows

-----------------------------------------------------------------------------
(* register.  Its caller tries an error again as often as job[p].retries   *)
(* says (ControlPlaneAuthority once, a caller of the port never), but not  *)
(* a conflict.                                                             *)
Done(p, outcome) ==
    IF outcome = "error" /\ job[p].retries > 0
    THEN Goto(p, "lookup", [job[p] EXCEPT !.retries = @ - 1])
    ELSE Return(p, outcome)

Lookup(p, l) ==
    /\ At(p, l) /\ Postgres
    /\ LET i == job[p].pointer
           found == Conflicting(i, job[p].row)
           same == {k \in found : k = i /\ rows[k] = job[p].row}
       IN \/ (SqlFails \/ Legacy(found)) /\ Done(p, "error")
          \/ ~Legacy(found) /\ same # {} /\ Done(p, "ok")
          \/ ~Legacy(found) /\ same = {} /\ found # {} /\ Done(p, "conflict")
          \/ found = {} /\ IF l = "lookup" THEN Step(p, "insert") ELSE Done(p, "conflict")
    /\ UNCHANGED rows

Insert(p) ==
    /\ At(p, "insert")
    /\ LET i == job[p].pointer
           found == Conflicting(i, job[p].row)
       IN \/ found = {} /\ SetRow(i, job[p].row) /\ (Done(p, "ok") \/ (SqlFails /\ Done(p, "error")))
          \/ UNCHANGED rows /\ ((SqlFails /\ Done(p, "error")) \/ (found # {} /\ Step(p, "relookup")))

(* The in-memory registry: one step, and a legacy row is a conflict. *)
RegisterInMemory(p) ==
    /\ At(p, "lookup") /\ ~Postgres
    /\ LET i == job[p].pointer
           found == Conflicting(i, job[p].row)
           same == i \in found /\ rows[i] = job[p].row
       IN \/ found = {} /\ SetRow(i, job[p].row) /\ Done(p, "ok")
          \/ found # {} /\ UNCHANGED rows /\ Done(p, IF same THEN "ok" ELSE "conflict")

Registration(p) ==
    \/ Lookup(p, "lookup")
    \/ Insert(p)
    \/ Lookup(p, "relookup")
    \/ RegisterInMemory(p)

(* A database registered with its receipt, by a caller of the port. *)
Enrolled(i, n, o) ==
    LET resource == [name |-> n, kind |-> "database"]
    IN [resource |-> resource,
        receipt |-> [operation |-> o, digest |-> [pointer |-> i, resource |-> resource, id |-> n],
                     owned |-> n]]

BeginEnrol(p, i, n, o) ==
    /\ Begin(p, "enrol", "lookup", [cmd |-> "enrol", pointer |-> i, row |-> Enrolled(i, n, o),
                                     retries |-> 0])
    /\ UNCHANGED rows

Enrol(p) ==
    /\ ~At(p, "idle") /\ job[p].cmd = "enrol"
    /\ Registration(p)

(* External: an administrator removes a row; no code of the project does. *)
Unlist(i) == Change /\ world \cap {"enrol", "lifecycle"} # {} /\ rows[i] # None /\ SetRow(i, None)

-----------------------------------------------------------------------------
(* A receipt-bearing row is never rewritten: store "must never rewrite     *)
(* (and never silently strip) an existing receipt" (adapter.py 183-187).   *)
ReceiptRowsKept ==
    [][\A i \in Pointers :
          rows[i] # None /\ rows'[i] # None /\ rows[i].receipt # None => rows'[i] = rows[i]]_rows
=============================================================================
