------------------------------- MODULE OrmRow -------------------------------
(***************************************************************************)
(* How one attribute of a row travels through an SQLAlchemy session of     *)
(* this backend (db/session.py: AsyncSession, expire_on_commit=False, the  *)
(* default READ COMMITTED isolation, no version column).                   *)
(*                                                                         *)
(* A handler loads a row once and keeps that copy: a later SELECT does not *)
(* overwrite attributes that are already loaded, and a commit does not     *)
(* expire them.  A flush emits an UPDATE of the attributes whose assigned  *)
(* value differs from the loaded one, and of those only; the last writer   *)
(* of a column wins.                                                       *)
(***************************************************************************)

\* Variant: a flush writes every attribute, changed or not.
WrittenAlways(loaded, assigned, stored) == assigned

\* What the column holds after a flush, when the session loaded the value
\* `loaded`, the handler assigned `assigned` and the table holds `stored`.
Flushed(loaded, assigned, stored) ==
    IF assigned = loaded THEN stored ELSE assigned
=============================================================================
