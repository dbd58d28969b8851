---------------------------- MODULE FencedLease ----------------------------
(***************************************************************************)
(* One row of the runtime_leases table and the three SQL statements that   *)
(* write it (crates/y-storage/src/coordination.rs).  SQLite executes each  *)
(* statement atomically, so each is an operator on the row: its WHERE      *)
(* clause, and the row it leaves behind.                                   *)
(*                                                                         *)
(* expires_at is kept relative to the database clock: left is the time     *)
(* that remains, 0 once expires_at <= now.  A row that was never inserted  *)
(* is the row of token 0, which no statement can match.                    *)
(***************************************************************************)
EXTENDS Naturals

CONSTANTS
    Instances,      \* identifiers of the y-agent processes of one database
    NoInstance,     \* owner of a row that was never inserted
    Ttl             \* CoordinationPolicy.lease_ttl, in clock units

ASSUME LeaseAssumption ==
    /\ NoInstance \notin Instances
    /\ Ttl \in Nat \ {0}            \* validate_lease_input refuses a zero ttl

Row == [owner : Instances \cup {NoInstance}, token : Nat, left : 0 .. Ttl]

NoRow == [owner |-> NoInstance, token |-> 0, left |-> 0]

(* expires_at > now. *)
Live(row) == row.left > 0

(* The WHERE clause of the upsert in try_acquire_lease. *)
MayAcquire(row, i) == row.owner = i \/ ~Live(row)

(* Mutant: a takeover that keeps the token of the previous owner. *)
AcquiredSameToken(row, i) ==
    [owner |-> i, token |-> IF row.token = 0 THEN 1 ELSE row.token, left |-> Ttl]

(* The token is kept by the current live owner and incremented otherwise. *)
Acquired(row, i) ==
    [ owner |-> i,
      token |-> IF row.owner = i /\ Live(row) THEN row.token ELSE row.token + 1,
      left  |-> Ttl ]

(* Mutant: a WHERE clause without owner and token. *)
MatchesAny(row, i, token) == Live(row)

(* The WHERE clause shared by renew_lease and release_lease. *)
Matches(row, i, token) == row.owner = i /\ row.token = token /\ Live(row)

(* Mutant: the ttl is added to the time that remains. *)
RenewedAdding(row) == [row EXCEPT !.left = @ + Ttl]

Renewed(row) == [row EXCEPT !.left = Ttl]

(* Mutant: release deletes the row. *)
ReleasedDeleting(row) == NoRow

(* release_lease keeps the row, so that the next token is a larger one. *)
Released(row) == [row EXCEPT !.left = 0]

(* One unit of database time. *)
Aged(row) == [row EXCEPT !.left = IF @ = 0 THEN 0 ELSE @ - 1]
=============================================================================
